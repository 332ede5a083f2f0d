----------------------------- MODULE HotReload -----------------------------
(***************************************************************************)
(* Hot-reload of the configuration file (config_file_monitor in main.rs    *)
(* and reload_from_disk in configuration/reload.rs) on top of the process  *)
(* supervisor it steers through PROC_THREAD_MAP.                           *)
(*                                                                         *)
(* A configuration is a function that gives every site the version of its  *)
(* [[hosted_process]] block, or None.  The monitor is one task, so passes  *)
(* do not overlap; between its steps everything else may move.             *)
(***************************************************************************)
EXTENDS ProcHost

CONSTANTS
  Versions,      \* distinct contents of a hosted_process block
  AutoStart,     \* the versions whose auto_start is on
  Broken,        \* a file that does not parse or is not valid
  MaxEdits,      \* changes of the file in a behaviour (bound)
  RootCanVanish  \* root_dir may stop resolving at any time

ASSUME ReloadAssumption ==
  /\ AutoStart \subseteq Versions
  /\ MaxEdits \in 0..MaxGen   \* so that MaxGen never holds a pass back
  /\ RootCanVanish \in BOOLEAN
  /\ None \notin Versions
  /\ Broken \notin [Sites -> Versions \cup {None}]

Contents == [Sites -> Versions \cup {None}]

VARIABLES
  file,      \* the file on disk
  edits,     \* changes made so far
  events,    \* Modify events the monitor has not taken
  config,    \* the active configuration
  conf,      \* per task: the version it was spawned with (ProcInfo.config)
  rpc,       \* where the monitor is
  gen,       \* passes that got as far as comparing processes
  next,      \* new_configuration of the pass in progress
  nextIds,   \* the proc ids it lists
  modified,  \* cloned_modified_procs
  aborted    \* a pass has failed after it had stopped processes

diskVars   == <<file, edits, events>>
planVars   == <<next, nextIds, modified>>
reloadVars == <<diskVars, config, conf, rpc, gen, planVars, aborted>>
vars       == <<hostVars, reloadVars>>

\* The hosted processes a configuration lists.
Listed(c) == {s \in Sites : c[s] # None}

-----------------------------------------------------------------------------
(***************************************************************************)
(* Writers of the file.                                                    *)
(***************************************************************************)
Write(c) ==
  /\ edits < MaxEdits
  /\ edits' = edits + 1
  /\ file' = c
  /\ events' = events + 1

EditFile ==
  /\ \E c \in Contents \cup {Broken} : c # file /\ Write(c)
  /\ UNCHANGED <<hostVars, config, conf, rpc, gen, planVars, aborted>>

\* DELETE /api/sites: the active configuration without the site goes to disk,
\* and the site leaves the status map at once.
ApiDelete(s) ==
  /\ config[s] # None
  /\ SetStatus(s, None)
  /\ Write([config EXCEPT ![s] = None])
  /\ UNCHANGED <<taskVars, chanVars, mapVars, hosted, exit, halted,
                 config, conf, rpc, gen, planVars, aborted>>

-----------------------------------------------------------------------------
\* Mutant: the monitor starts a pass without an event.
TakeEvent_Spurious ==
  /\ rpc = "idle" /\ ~exit
  /\ events' = events - 1
  /\ rpc' = "read"
  /\ UNCHANGED <<hostVars, file, edits, config, conf, gen, planVars, aborted>>

(***************************************************************************)
(* One pass of the monitor.                                                *)
(***************************************************************************)
TakeEvent ==
  /\ rpc = "idle" /\ ~exit /\ events > 0
  /\ events' = events - 1
  /\ rpc' = "read"
  /\ UNCHANGED <<hostVars, file, edits, config, conf, gen, planVars, aborted>>

\* The file is unusable, or equal to the active configuration.
NothingToDo ==
  /\ rpc = "read"
  /\ file = Broken \/ file = config
  /\ rpc' = "idle"
  /\ UNCHANGED <<hostVars, diskVars, config, conf, gen, planVars, aborted>>

\* A process that is registered under the same host name keeps its id.
Existing(s) == {i \in Ids : i[1] = s /\ Registered(i)}

\* Mutant: a registered process is never compared.
Changed_OnlyNew(c, ids) == {s \in Listed(c) : Existing(s) = {}}

Changed(c, ids) ==
  {s \in Listed(c) : Existing(s) = {} \/ conf[owner[<<s, ids[s]>>]] # c[s]}

Plan ==
  /\ rpc = "read" /\ file \notin {Broken, config} /\ gen < MaxGen
  /\ gen' = gen + 1
  /\ \E ids \in [Sites -> Gens] :
       /\ \A s \in Sites : IF Existing(s) = {} THEN ids[s] = gen + 1
                                               ELSE <<s, ids[s]>> \in Existing(s)
       /\ nextIds' = ids
       /\ modified' = Changed(file, ids)
  /\ next' = file
  /\ rpc' = "mark"
  /\ UNCHANGED <<hostVars, diskVars, config, conf, aborted>>

\* Comparing a registered process resolves its configuration; a failure there
\* abandons the pass before anything has been touched.
PlanFails ==
  /\ rpc = "read" /\ file \notin {Broken, config} /\ RootCanVanish
  /\ \E s \in Listed(file) : Existing(s) # {}
  /\ rpc' = "idle"
  /\ UNCHANGED <<hostVars, diskVars, config, conf, gen, planVars, aborted>>

Outgoing(i) == Registered(i) /\ (i[1] \in modified \/ next[i[1]] = None)

Mark ==
  /\ rpc = "mark"
  /\ marked' = [i \in Ids |-> marked[i] \/ Outgoing(i)]
  /\ rpc' = "await"
  /\ UNCHANGED <<taskVars, chanVars, owner, hasPid, status, hosted, exit, halted,
                 diskVars, config, conf, gen, planVars, aborted>>

\* Mutant: marked tasks are not waited for.
Await_Impatient ==
  /\ rpc = "await"
  /\ rpc' = "spawn"
  /\ UNCHANGED <<hostVars, diskVars, config, conf, gen, planVars, aborted>>

Await ==
  /\ rpc = "await"
  /\ \A i \in Ids : ~(Registered(i) /\ marked[i])
  /\ rpc' = "spawn"
  /\ UNCHANGED <<hostVars, diskVars, config, conf, gen, planVars, aborted>>

\* Mutant: the status map is not swept.
StartHosts_NoSweep(S) ==
  /\ SpawnHosts(S, gen, nextIds, [s \in Sites |-> next[s] \in AutoStart])
  /\ conf' = [t \in Tasks |-> IF t \in S \X {gen} THEN next[Site(t)] ELSE conf[t]]
  /\ UNCHANGED status

\* Sites of the new configuration keep their status; then the new hosts start.
StartHosts(S) ==
  /\ status' = [s \in Sites |-> IF next[s] = None THEN None ELSE status[s]]
  /\ SpawnHosts(S, gen, nextIds, [s \in Sites |-> next[s] \in AutoStart])
  /\ conf' = [t \in Tasks |-> IF t \in S \X {gen} THEN next[Site(t)] ELSE conf[t]]

SpawnAll ==
  /\ rpc = "spawn"
  /\ StartHosts(modified)
  /\ rpc' = "swap"
  /\ UNCHANGED <<child, sends, hosted, exit, halted, diskVars, config, gen, planVars, aborted>>

\* A process of the list no longer resolves: the pass ends where it is.
SpawnFewer ==
  /\ rpc = "spawn" /\ RootCanVanish
  /\ \E S \in SUBSET modified : S # modified /\ StartHosts(S)
  /\ rpc' = "idle"
  /\ aborted' = TRUE
  /\ UNCHANGED <<child, sends, hosted, exit, halted, diskVars, config, gen, planVars>>

\* Mutant: events that arrived during the pass are dropped.
Swap_DropsEvents ==
  /\ rpc = "swap"
  /\ config' = next
  /\ hosted' = [s \in Sites |-> IF next[s] = None THEN None ELSE nextIds[s]]
  /\ rpc' = "idle"
  /\ events' = 0
  /\ UNCHANGED <<taskVars, chanVars, mapVars, status, exit, halted,
                 file, edits, conf, gen, planVars, aborted>>

Swap ==
  /\ rpc = "swap"
  /\ config' = next
  /\ hosted' = [s \in Sites |-> IF next[s] = None THEN None ELSE nextIds[s]]
  /\ rpc' = "idle"
  /\ UNCHANGED <<taskVars, chanVars, mapVars, status, exit, halted,
                 diskVars, conf, gen, planVars, aborted>>

Monitor ==
  \/ TakeEvent \/ NothingToDo \/ Plan \/ PlanFails \/ Mark \/ Await
  \/ SpawnAll \/ SpawnFewer \/ Swap

-----------------------------------------------------------------------------
Init ==
  /\ config \in Contents
  /\ HostInit(Listed(config), [s \in Sites |-> config[s] \in AutoStart])
  /\ file = config
  /\ edits = 0
  /\ events = 0
  /\ conf = [t \in Tasks |-> IF t[2] = 0 THEN config[Site(t)] ELSE None]
  /\ rpc = "idle"
  /\ gen = 0
  /\ next = config
  /\ nextIds = [s \in Sites |-> 0]
  /\ modified = {}
  /\ aborted = FALSE

\* odd-box is gone: nothing moves any more.
Terminated == halted /\ UNCHANGED vars

Next ==
  \/ HostNext /\ UNCHANGED reloadVars
  \/ ~halted /\ (EditFile \/ (\E s \in Sites : ApiDelete(s)) \/ Monitor)
  \/ Terminated

(***************************************************************************)
(* Tokio keeps polling every task it owns, so the tasks of odd-box are     *)
(* fair; users, the file and the hosted processes owe nothing.             *)
(***************************************************************************)
Fairness ==
  /\ \A t \in Tasks : WF_vars(~halted /\ HostStep(t) /\ UNCHANGED reloadVars)
  /\ WF_vars(~halted /\ Janitor /\ UNCHANGED reloadVars)
  /\ WF_vars(~halted /\ Halt /\ UNCHANGED reloadVars)
  /\ WF_vars(~halted /\ Monitor)

Spec == Init /\ [][Next]_vars /\ Fairness
-----------------------------------------------------------------------------
(***************************************************************************)
(* Properties.                                                             *)
(***************************************************************************)

\* Every variable keeps to the values the code can give it.
TypeOK ==
  /\ pc \in [Tasks -> Points]
  /\ ident \in [Tasks -> Gens]
  /\ enabled \in [Tasks -> BOOLEAN]
  /\ child \in [Tasks -> {"none", "alive"}]
  /\ inbox \in [Tasks -> Seq(Message)]
  /\ lagged \in [Tasks -> BOOLEAN]
  /\ sends \in Nat
  /\ owner \in [Ids -> Tasks \cup {None}]
  /\ marked \in [Ids -> BOOLEAN]
  /\ hasPid \in [Ids -> BOOLEAN]
  /\ status \in [Sites -> Statuses \cup {None}]
  /\ hosted \in [Sites -> Gens \cup {None}]
  /\ exit \in BOOLEAN
  /\ halted \in BOOLEAN
  /\ file \in Contents \cup {Broken}
  /\ edits \in Nat
  /\ events \in Nat
  /\ config \in Contents
  /\ conf \in [Tasks -> Versions \cup {None}]
  /\ rpc \in {"idle", "read", "mark", "await", "spawn", "swap"}
  /\ gen \in Gens
  /\ next \in Contents
  /\ nextIds \in [Sites -> Gens]
  /\ modified \in SUBSET Sites
  /\ aborted \in BOOLEAN

\* A live task always finds its own entry in PROC_THREAD_MAP: the branch of
\* proc_host.rs that warns "A thread is missing from the global thread map.. this
\* is a bug in odd-box" is never taken, in spite of Janitor and reload.
LiveTaskIsMapped == \A t \in Tasks : Live(t) => owner[Id(t)] = t

\* However reloads, commands and crashes interleave, a site never has two OS
\* processes (reload waits for the outgoing task before it spawns the new one).
OneProcessPerSite ==
  \A t, u \in Tasks : Alive(t) /\ Alive(u) /\ Site(t) = Site(u) => t = u

\* When main returns no hosted process is left behind, also when exit is
\* requested in the middle of a reload that goes on to spawn new tasks.
NoOrphan == halted => \A t \in Tasks : ~Alive(t)

\* The status map says Running only while a task is in the inner loop of that
\* site, so a proxied request is not held back for a task that has left.
RunningIsHosted ==
  \A s \in Sites : status[s] = "Running" =>
    \E t \in Tasks : Site(t) = s /\ pc[t] \in {"run", "drain"}

\* Between passes each site of the active configuration has exactly the task of
\* its current version, unmarked and under the id the configuration lists, and
\* no other site has one.  A pass that failed half-way is left out.
HostsMatchConfig ==
  rpc = "idle" /\ ~exit /\ ~aborted =>
    \A s \in Sites :
      /\ config[s] # None => \E t \in Tasks : Live(t) /\ Site(t) = s
      /\ \A t \in Tasks : Live(t) /\ Site(t) = s =>
           /\ config[s] # None /\ conf[t] = config[s]
           /\ ident[t] = hosted[s] /\ ~marked[Id(t)]

\* Between passes the status map has no entry for a site that is not configured:
\* an outgoing task leaves "Stopping" behind and reload sweeps it.
NoStrayStatus ==
  rpc = "idle" /\ ~exit /\ ~aborted =>
    \A s \in Sites : status[s] # None => config[s] # None

\* The supervisor and hot-reload implement the abstract site supervisor.
Supervisor == INSTANCE SiteSupervisor WITH
  proc  <- [s \in Sites |-> {k \in Gens : Alive(<<s, k>>)}],
  taken <- [s \in Sites |-> {k \in Gens : pc[<<s, k>>] # "unborn"}],
  down  <- halted

ImplementsSupervisor == Supervisor!AbsSpec

\* A pass of the monitor always comes to its end: marked tasks leave, whatever
\* state they are in, and the Janitor clears their entries.
ReloadTerminates == rpc # "idle" ~> (rpc = "idle" \/ halted)

\* Once exit is requested odd-box stops everything and returns.
ShutdownCompletes == exit ~> halted

\* A last edit that leaves a valid file is eventually what runs.
Converges == <>[](exit \/ aborted \/ file = Broken \/ config = file)

\* A site that stays disabled does not keep its process.
StopTakesEffect ==
  \A t \in Tasks : <>[](Live(t) /\ ~enabled[t]) => <>[](~Alive(t))

\* "Will automatically restart the process in 5 seconds unless stopped": a task
\* whose process ended goes for a new one unless disabled, replaced or on exit.
RestartsUnlessStopped ==
  \A t \in Tasks :
    pc[t] = "after" /\ enabled[t] ~>
      (pc[t] = "launch" \/ ~enabled[t] \/ marked[Id(t)] \/ exit)

\* README.md: "Keep specified binaries running automatically".  Once the file
\* stays equal to the active configuration every site it lists has its task.
KeepsRunning ==
  <>[](\/ exit \/ file # config
       \/ \A s \in Listed(config) : \E t \in Tasks : Site(t) = s /\ Live(t))

\* docs/src/configuration.md, exclude_from_start_all: "If true, start_all CLI/API
\* skips this process".  No bulk start turns an excluded site on.
ExcludedSkipsStartAll ==
  [][\A t \in Tasks :
       /\ Site(t) \in Excluded /\ ~enabled[t] /\ Live(t) /\ Live(t)'
       /\ inbox[t] # <<>> /\ Head(inbox[t]).bulk
       => ~enabled'[t]]_vars
=============================================================================
