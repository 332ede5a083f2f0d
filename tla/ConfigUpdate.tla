---------------------------- MODULE ConfigUpdate ----------------------------
(***************************************************************************)
(* Everybody who writes or reads the configuration: the handlers of the    *)
(* admin API (sites.rs, settings.rs), a person with an editor, the file    *)
(* monitor with reload_from_disk, the Docker thread, and the start of the  *)
(* program with its upgrade of an older file (main.rs).                    *)
(*                                                                         *)
(* fs::write empties the file and then fills it, so a file is Torn in      *)
(* between.  A pass stops and starts hosts: that is HotReload's; here it   *)
(* waits, may be abandoned, and moves the statuses of the sites that have  *)
(* no host task.                                                           *)
(***************************************************************************)
EXTENDS Configuration

CONSTANTS
  Handlers,       \* requests to the admin API, one each
  Updates,        \* POST /api/sites: host (of the query if it is named there, else of the
                  \* block) and block
  Deletes,        \* DELETE /api/sites: host
  Settings,       \* POST /api/settings: the global settings to put in place
  MayAsk,         \* which of these each handler may be asked
  OldFiles,       \* what the file may be in the beginning
  NewFiles,       \* what a person may leave in it later
  Containers,     \* host names that Docker containers ask for
  MaxEdits,       \* saves by a person (bound)
  MaxFaults,      \* writes that fail, passes abandoned, Docker errors (bound)
  MaxCrashes,     \* crashes of odd-box (bound)
  MaxContainers,  \* containers started or stopped (bound)
  MaxEvents,      \* all of these, the requests and the upgrades together (bound)
  Torn            \* a file that does not parse

Usable(f) == f # Torn /\ Valid(Upgrade(f))

Requests == Updates \cup Deletes \cup Settings

Files == OldFiles \cup NewFiles

HasFields(c) == Lists \cup Global \subseteq DOMAIN c

(***************************************************************************)
(* Types: what the parser of a format makes of a file (serde).             *)
(***************************************************************************)
Given == (UNION {Blocks(f.conf) : f \in Files}) \cup {r.block : r \in Updates}

Hostnames == {b.host : b \in Given}
Bodies    == {b.body : b \in Given}

BlocksWith(kinds, flags) ==
  [kind : kinds, host : Hostnames, port : Nat \cup {None}, hints : SUBSET HintNames,
   args : {None, "empty", "some"}, ownPort : Nat \cup {None}, body : Bodies, flags : flags]

\* The blocks of today's format that can stand in one list.
BlocksOfV3(kind) ==
  BlocksWith({kind}, UNION {[F -> BOOLEAN] : F \in SUBSET FlagsOfV3(kind)})

WellFormedBlock(b, ver, kind) ==
  /\ b \in BlocksWith({kind}, [DOMAIN b.flags -> BOOLEAN])
  /\ DOMAIN b.flags \subseteq FlagsOf(ver, kind)

WellFormedList(list, ver, kind) ==
  list # None => /\ list \in Seq(Range(list))
                 /\ \A b \in Range(list) : WellFormedBlock(b, ver, kind)

WellFormed(c, ver) == HasFields(c) /\ \A k \in Lists : WellFormedList(c[k], ver, k)

\* Updates carry a block of today's format; settings are those of SaveGlobalConfig, a
\* PORT variable included.
WellAsked ==
  /\ \A r \in Updates  : /\ DOMAIN r = {"host", "named", "block"} /\ r.block.kind \in Kinds
                         /\ WellFormedBlock(r.block, "V3", r.block.kind)
                         /\ ~r.named => r.host = r.block.host
  /\ \A r \in Deletes  : DOMAIN r = {"host"}
  /\ \A r \in Settings : DOMAIN r \subseteq Global \ {"loopback"}

ASSUME UpdateAssumption ==
  /\ MayAsk \in [Handlers -> SUBSET Requests] /\ WellAsked
  /\ Torn \notin Files
  /\ \A f \in Files : /\ f.ver \in Versions /\ WellFormed(f.conf, f.ver)
                      /\ Written(Upgrade(f)) # Torn
  /\ {MaxEdits, MaxFaults, MaxCrashes, MaxContainers, MaxEvents}
       \subseteq Nat
  /\ None \notin {"ok", "null", "failed"}
  /\ \A kind \in Kinds : None \notin Seq(BlocksOfV3(kind))
  /\ \E f \in Files : Usable(f)

VARIABLES
  file,      \* the file on disk
  backups,   \* copies made before an upgrade is written
  events,    \* Modify events the monitor has not taken
  config,    \* the active configuration, None before it is loaded
  version,   \* its internal_version
  docker,    \* its docker_containers
  status,    \* site_status_map, as far as no host task owns it
  boot,      \* "down", "copied", "emptied" (the upgrade's write) or "up"
  pass,      \* where the monitor is
  next,      \* new_configuration of the pass in progress
  abandoned, \* the last pass was given up
  strayed,   \* sites whose status was moved by a pass that was then given up, or taken
             \* away by a delete, and no pass has put in since
  round,     \* where the Docker thread is
  found,     \* the containers it has discovered
  running,   \* the containers that run
  req,       \* what each handler has been asked, None before that
  pc,        \* where each handler is
  base,      \* the configuration it has copied
  seen,      \* the version of that
  answer,    \* its answer
  mixed,     \* another writer has filled the file since it emptied it
  alone,     \* nobody else has touched file or configuration since it copied
  spent      \* how often each bounded thing has happened

diskVars    == <<file, backups, events>>
activeVars  == <<config, version, docker, status>>
passVars    == <<pass, next, abandoned, strayed>>
dockerVars  == <<round, found, running>>
handlerVars == <<req, pc, base, seen, answer, mixed, alone>>
vars == <<diskVars, activeVars, boot, passVars, dockerVars, handlerVars, spent>>

Names == Containers \cup (UNION {Hosts(f.conf) : f \in Files})
                    \cup (UNION {{r.host, r.block.host} : r \in Updates})
                    \cup {r.host : r \in Deletes}

Limit == [edits |-> MaxEdits, faults |-> MaxFaults,
          crashes |-> MaxCrashes, containers |-> MaxContainers]

Asked    == {h \in Handlers : pc[h] # "new"}
EventsSoFar == Cardinality(Asked) + spent["edits"] + spent["faults"] + spent["crashes"]
                                  + spent["containers"] + Cardinality(backups)

Spend(what) == /\ spent[what] < Limit[what] /\ EventsSoFar < MaxEvents
               /\ spent' = [spent EXCEPT ![what] = @ + 1]

\* The file has been changed by somebody who is not h.
Disturb(h) == alone' = [g \in Handlers |-> g = h /\ alone[g]]

Modify(f) == file' = f /\ events' = IF boot = "up" THEN events + 1 ELSE 0

-----------------------------------------------------------------------------
(***************************************************************************)
(* What the handlers make of their copy.                                   *)
(***************************************************************************)
\* What is left of the first i items without those names.
Retained(items, hosts) ==
  LET keep[i \in 0..Len(items)] ==
        IF i = 0 THEN <<>>
        ELSE IF items[i].host \in hosts THEN keep[i-1] ELSE Append(keep[i-1], items[i])
  IN  keep

Others(list, hosts) == Retained(Items(list), hosts)[Len(Items(list))]

\* add_or_replace_*: both names leave the list of that kind, and no other.
Replaced(list, r) == Append(Others(list, {r.host, r.block.host}), r.block)

\* retain keeps an emptied list as it is: Some of an empty Vec.
Removed(list, host) == IF list = None THEN None ELSE Others(list, {host})

Changed(r, c) ==
  CASE r \in Updates -> [c EXCEPT ![r.block.kind] = Replaced(@, r)]
    [] r \in Deletes -> [k \in DOMAIN c |->
                           IF k \in Lists THEN Removed(c[k], r.host) ELSE c[k]]
    [] OTHER         -> [k \in DOMAIN c |-> IF k \in DOMAIN r THEN r[k] ELSE c[k]]

Draft(h) == Changed(req[h], base[h])

(***************************************************************************)
(* One request.                                                            *)
(***************************************************************************)
\* File and configuration agree and nobody is about to change either.
Quiet == /\ file # Torn /\ Upgrade(file) = config
         /\ events = 0 /\ pass = "idle"
         /\ \A h \in Handlers : pc[h] \in {"new", "done"}

Copy(h, r) ==
  /\ boot = "up" /\ pc[h] = "new" /\ EventsSoFar < MaxEvents
  /\ req'   = [req EXCEPT ![h] = r]
  /\ base'  = [base EXCEPT ![h] = config]
  /\ seen'  = [seen EXCEPT ![h] = version]
  /\ alone' = [alone EXCEPT ![h] = Quiet]

Finish(h, a) ==
  /\ pc' = [pc EXCEPT ![h] = "done"]
  /\ answer' = [answer EXCEPT ![h] = a]

\* A container's site is refused, if the name is given in the query and the
\* active configuration lists the container at this moment.
Refused(r) == r \in Updates /\ r.named /\ r.host \in docker

\* Nothing to delete, or settings as they are.
Idle(r) == \/ r \in Deletes  /\ r.host \notin Hosts(config)
           \/ r \in Settings /\ SameConfig(Changed(r, config), config)

AnswerAtOnce(h) ==
  /\ \E r \in MayAsk[h] :
       /\ Copy(h, r)
       /\ \/ Refused(r) /\ Finish(h, "failed")
          \/ Idle(r)    /\ Finish(h, "ok")
  /\ UNCHANGED <<diskVars, activeVars, boot, passVars, dockerVars, mixed, spent>>

\* delete_handler takes the site's status away before it writes.
Receive(h) ==
  /\ \E r \in MayAsk[h] :
       /\ Copy(h, r)
       /\ ~Refused(r) /\ ~Idle(r)
       /\ IF r \in Deletes
          THEN status' = [status EXCEPT ![r.host] = None] /\ strayed' = strayed \cup {r.host}
          ELSE UNCHANGED <<status, strayed>>
  /\ pc' = [pc EXCEPT ![h] = "write"]
  /\ UNCHANGED <<diskVars, config, version, docker, boot, pass, next, abandoned, dockerVars,
                 answer, mixed, spent>>

Empty(h) ==
  /\ pc[h] = "write"
  /\ Modify(Torn)
  /\ Disturb(h)
  /\ mixed' = [g \in Handlers |-> FALSE]
  /\ pc' = [pc EXCEPT ![h] = "fill"]
  /\ UNCHANGED <<backups, activeVars, boot, passVars, dockerVars, req, base,
                 seen, answer, spent>>

\* update_handler compares its two copies only after it has written.
NullChange(h) == req[h] \in Updates /\ SameConfig(Draft(h), base[h])

\* Mutant: nobody waits for the reload.
Fill_NoWait(h) ==
  /\ pc[h] = "fill"
  /\ Modify(Written(Draft(h)))
  /\ Disturb(h)
  /\ mixed' = [g \in Handlers |-> pc[g] = "fill" /\ g # h]
  /\ Finish(h, "ok")
  /\ UNCHANGED <<backups, activeVars, boot, passVars, dockerVars, req, base,
                 seen, spent>>

\* Over what another writer has put there, a shorter text leaves the rest.
Fill(h) ==
  /\ pc[h] = "fill"
  /\ \E f \in {Written(Draft(h))} \cup (IF mixed[h] THEN {Torn} ELSE {}) : Modify(f)
  /\ Disturb(h)
  /\ mixed' = [g \in Handlers |-> pc[g] = "fill" /\ g # h]
  /\ IF NullChange(h) THEN Finish(h, "null")
     ELSE pc' = [pc EXCEPT ![h] = "wait"] /\ UNCHANGED answer
  /\ UNCHANGED <<backups, activeVars, boot, passVars, dockerVars, req, base,
                 seen, spent>>

\* Opening or writing the file fails; what is there stays.
WriteFails(h) ==
  /\ pc[h] \in {"write", "fill"}
  /\ Spend("faults")
  /\ Finish(h, IF NullChange(h) THEN "null" ELSE "failed")
  /\ UNCHANGED <<diskVars, activeVars, boot, passVars, dockerVars, req, base,
                 seen, mixed, alone>>

\* Mutant: the version the handler has copied is good enough.
Confirm_SameVersion(h) ==
  /\ pc[h] = "wait" /\ version >= seen[h]
  /\ Finish(h, "ok")
  /\ UNCHANGED <<diskVars, activeVars, boot, passVars, dockerVars, req, base,
                 seen, mixed, alone, spent>>

Confirm(h) ==
  /\ pc[h] = "wait" /\ version > seen[h]
  /\ Finish(h, "ok")
  /\ UNCHANGED <<diskVars, activeVars, boot, passVars, dockerVars, req, base,
                 seen, mixed, alone, spent>>

\* Ten seconds have passed; the settings handler does not mind.
Timeout(h) ==
  /\ pc[h] = "wait" /\ version <= seen[h]
  /\ Finish(h, IF req[h] \in Settings THEN "ok" ELSE "failed")
  /\ UNCHANGED <<diskVars, activeVars, boot, passVars, dockerVars, req, base,
                 seen, mixed, alone, spent>>

-----------------------------------------------------------------------------
(***************************************************************************)
(* One pass of the monitor (reload_from_disk).                             *)
(***************************************************************************)
TakeEvent ==
  /\ boot = "up" /\ pass = "idle" /\ events > 0
  /\ events' = events - 1
  /\ pass' = "sleep"
  /\ UNCHANGED <<file, backups, activeVars, boot, next, abandoned, strayed, dockerVars,
                 handlerVars, spent>>

Worthwhile == Usable(file) /\ ~SameConfig(Upgrade(file), config)

NothingToDo ==
  /\ pass = "sleep" /\ ~Worthwhile
  /\ pass' = "idle"
  /\ abandoned' = FALSE
  /\ UNCHANGED <<diskVars, activeVars, boot, next, strayed, dockerVars, handlerVars, spent>>

\* The list of processes is put back as Some, also when it is empty.
Reloaded(f) == [Upgrade(f) EXCEPT !.hosted = Items(@)]

\* Mutant: a pass does not ask is_valid.
Plan_Anything ==
  /\ pass = "sleep" /\ file # Torn /\ ~SameConfig(Upgrade(file), config)
  /\ next' = Reloaded(file)
  /\ pass' = "await"
  /\ abandoned' = FALSE
  /\ UNCHANGED <<diskVars, activeVars, boot, strayed, dockerVars, handlerVars, spent>>

Plan ==
  /\ pass = "sleep" /\ Worthwhile
  /\ next' = Reloaded(file)
  /\ pass' = "await"
  /\ abandoned' = FALSE
  /\ UNCHANGED <<diskVars, activeVars, boot, strayed, dockerVars, handlerVars, spent>>

\* The sites that c and d do not both have, or not as the same kind.
Moved(c, d) == UNION {(HostsOf(c, k) \cup HostsOf(d, k)) \ (HostsOf(c, k) \cap HostsOf(d, k)) :
                        k \in Lists}

\* A process cannot be resolved, before or after the statuses have moved.  They stay as
\* they are then, although the configuration does too.
Abandon ==
  /\ pass \in {"await", "swap"} /\ Items(next.hosted) # <<>>
  /\ Spend("faults")
  /\ pass' = "idle" /\ next' = None
  /\ abandoned' = TRUE
  /\ strayed' = IF pass = "swap" THEN strayed \cup Moved(config, next) ELSE strayed
  /\ UNCHANGED <<diskVars, activeVars, boot, dockerVars, handlerVars>>

\* Statuses of sites without a host task: what stays, and what is put in.
Keeps(n, c) == CASE status[n] = "Remote" -> n \in HostsOf(c, "remote")
                 [] status[n] = "Dir"    -> n \in HostsOf(c, "dir")
                 [] OTHER                -> n \in HostsOf(c, "hosted")

\* Mutant: the statuses of sites that have left stay.
Reconciled_Keeps(c) ==
  [n \in Names |-> CASE n \in HostsOf(c, "dir")    -> "Dir"
                     [] n \in HostsOf(c, "remote") -> "Remote"
                     [] OTHER                      -> status[n]]

Reconciled(c) ==
  [n \in Names |-> CASE n \in HostsOf(c, "dir")    -> "Dir"
                     [] n \in HostsOf(c, "remote") -> "Remote"
                     [] Keeps(n, c)                -> status[n]
                     [] OTHER                      -> None]

\* Marked hosts have left.
Reconcile ==
  /\ pass = "await"
  /\ status' = Reconciled(next) /\ strayed' = {}
  /\ pass' = "swap"
  /\ UNCHANGED <<diskVars, config, version, docker, boot, next, abandoned,
                 dockerVars, handlerVars, spent>>

\* A new ConfigWrapper has no containers.
Swap ==
  /\ pass = "swap"
  /\ config' = next /\ version' = version + 1 /\ docker' = {}
  /\ pass' = "idle" /\ next' = None
  /\ UNCHANGED <<diskVars, status, boot, abandoned, strayed, dockerVars, handlerVars, spent>>

-----------------------------------------------------------------------------
(***************************************************************************)
(* The Docker thread.                                                      *)
(***************************************************************************)
\* What is found is put into the status map before anybody can move; only the
\* lock of the configuration is waited for.
Discover ==
  /\ boot = "up" /\ round = "idle"
  /\ \/ found' = running /\ UNCHANGED spent
     \/ found' = {} /\ Spend("faults")     \* an error counts as no containers
  /\ status' = [n \in Names |-> IF n \in found' THEN "Docker"
                                ELSE IF status[n] = "Docker" THEN None ELSE status[n]]
  /\ round' = "store"
  /\ UNCHANGED <<diskVars, config, version, docker, boot, passVars, running,
                 handlerVars>>

Store ==
  /\ round = "store"
  /\ docker' = found
  /\ round' = "idle" /\ found' = {}
  /\ UNCHANGED <<diskVars, config, version, status, boot, passVars, running,
                 handlerVars, spent>>

-----------------------------------------------------------------------------
(***************************************************************************)
(* Start of the program.                                                   *)
(***************************************************************************)
Statuses(c) == [n \in Names |-> CASE n \in HostsOf(c, "dir")    -> "Dir"
                                  [] n \in HostsOf(c, "remote") -> "Remote"
                                  [] OTHER                      -> None]

\* A file that cannot be used ends the program at once; an older one is copied.
Load ==
  /\ boot = "down" /\ Usable(file)
  /\ config' = Upgrade(file)
  /\ IF file.ver = "V3"
     THEN boot' = "up" /\ status' = Statuses(config') /\ UNCHANGED backups
     ELSE boot' = "copied" /\ backups' = backups \cup {file} /\ UNCHANGED status
  /\ UNCHANGED <<file, events, version, docker, passVars, dockerVars, handlerVars, spent>>

EmptyOld ==
  /\ boot = "copied"
  /\ Modify(Torn)
  /\ boot' = "emptied"
  /\ UNCHANGED <<backups, activeVars, passVars, dockerVars, handlerVars, spent>>

FillOld ==
  /\ boot = "emptied"
  /\ Modify(Written(config))
  /\ boot' = "up"
  /\ status' = Statuses(config)
  /\ UNCHANGED <<backups, config, version, docker, passVars, dockerVars, handlerVars,
                 spent>>

-----------------------------------------------------------------------------
(***************************************************************************)
(* The surroundings.                                                       *)
(***************************************************************************)
EditFile ==
  /\ boot # "emptied"
  /\ \E f \in NewFiles : f # file /\ Modify(f)
  /\ alone' = [h \in Handlers |-> FALSE]
  /\ mixed' = [h \in Handlers |-> pc[h] = "fill"]
  /\ Spend("edits")
  /\ UNCHANGED <<backups, activeVars, boot, passVars, dockerVars, req, pc, base,
                 seen, answer>>

ContainersChange ==
  /\ \E c \in SUBSET Containers : c # running /\ running' = c
  /\ Spend("containers")
  /\ UNCHANGED <<diskVars, activeVars, boot, passVars, round, found, handlerVars>>

Crash ==
  /\ boot # "down"
  /\ Spend("crashes")
  /\ boot' = "down"
  /\ config' = None /\ version' = 0 /\ docker' = {} /\ events' = 0
  /\ status' = [n \in Names |-> None]
  /\ pass' = "idle" /\ next' = None /\ abandoned' = FALSE /\ strayed' = {}
  /\ round' = "idle" /\ found' = {}
  /\ pc' = [h \in Handlers |-> IF pc[h] = "new" THEN "new" ELSE "done"]
  /\ mixed' = [h \in Handlers |-> FALSE]
  /\ UNCHANGED <<file, backups, running, req, base, seen, answer, alone>>

-----------------------------------------------------------------------------
Init ==
  /\ file \in OldFiles /\ backups = {} /\ events = 0
  /\ config = None /\ version = 0 /\ docker = {}
  /\ status = [n \in Names |-> None]
  /\ boot = "down"
  /\ pass = "idle" /\ next = None /\ abandoned = FALSE /\ strayed = {}
  /\ round = "idle" /\ found = {} /\ running = {}
  /\ req = [h \in Handlers |-> None] /\ pc = [h \in Handlers |-> "new"]
  /\ base = [h \in Handlers |-> None] /\ seen = [h \in Handlers |-> 0]
  /\ answer = [h \in Handlers |-> None]
  /\ mixed = [h \in Handlers |-> FALSE] /\ alone = [h \in Handlers |-> FALSE]
  /\ spent = [what \in DOMAIN Limit |-> 0]

Handle(h) == Empty(h) \/ Fill(h) \/ WriteFails(h) \/ Confirm(h) \/ Timeout(h)
Request(h) == AnswerAtOnce(h) \/ Receive(h)
Monitor == TakeEvent \/ NothingToDo \/ Plan \/ Abandon \/ Reconcile \/ Swap
Docker  == Discover \/ Store
Upgrading == EmptyOld \/ FillOld

Next == \/ \E h \in Handlers : Request(h) \/ Handle(h)
        \/ Monitor \/ Docker \/ Load \/ Upgrading
        \/ EditFile \/ ContainersChange \/ Crash

\* Tasks of the runtime are scheduled; nobody has to ask, edit or restart.
Spec == Init /\ [][Next]_vars
        /\ WF_vars(Monitor) /\ WF_vars(Docker) /\ WF_vars(Upgrading)
        /\ \A h \in Handlers : WF_vars(Handle(h))
-----------------------------------------------------------------------------
(***************************************************************************)
(* Properties.                                                             *)
(***************************************************************************)
\* The active configuration, and one that is about to replace it, is always
\* valid, whatever the handlers write (is_valid in reload.rs 40, main.rs 496).
ActiveIsValid == /\ config # None => Valid(config)
                 /\ next # None => Valid(next)

\* Types, and ActiveIsValid.
TypeOK ==
  /\ ActiveIsValid
  /\ file # Torn => file.ver \in Versions /\ WellFormed(file.conf, file.ver)
  /\ IF boot = "down" THEN config = None ELSE WellFormed(config, "V3")
  /\ IF pass \in {"await", "swap"} THEN WellFormed(next, "V3") ELSE next = None
  /\ backups \subseteq Files /\ \A f \in backups : f.ver # "V3"
  /\ events \in Nat /\ version \in Nat
  /\ boot \in {"down", "copied", "emptied", "up"}
  /\ pass \in {"idle", "sleep", "await", "swap"} /\ abandoned \in BOOLEAN
  /\ strayed \subseteq Names
  /\ round \in {"idle", "store"}
  /\ docker \cup found \cup running \subseteq Containers
  /\ status \in [Names -> {None, "Remote", "Dir", "Docker"}]
  /\ \A h \in Handlers :
       /\ pc[h] \in {"new", "write", "fill", "wait", "done"}
       /\ answer[h] \in {None, "ok", "null", "failed"}
       /\ pc[h] = "new" \/ req[h] \in Requests
       /\ pc[h] \in {"write", "fill", "wait"} => WellFormed(base[h], "V3")
  /\ seen \in [Handlers -> Nat] /\ mixed \in [Handlers -> BOOLEAN]
  /\ alone \in [Handlers -> BOOLEAN]
  /\ \A what \in DOMAIN Limit : spent[what] \in 0..Limit[what]

\* What h has written cannot be used, and it has not been told all is well: it
\* waits, has failed, is about settings, which are confirmed unheard, or was
\* confirmed by the reload of somebody else's change.
SpoiltBy(h) ==
  /\ pc[h] \in {"wait", "done"}
  /\ file = Written(Draft(h))
  /\ \/ pc[h] = "wait" \/ answer[h] \in {"failed", "null"}
     \/ req[h] \in Settings \/ ~alone[h]

\* The text of h and that of another request, or of a person, are mixed.
MixedBy(h) ==
  /\ pc[h] \in {"wait", "done"}
  /\ file = Torn
  /\ ~alone[h]
  /\ spent["edits"] > 0 \/ \E g \in Handlers \ {h} : pc[g] # "new"

\* The file can be unusable only because a person left it so, a write is under
\* way or was cut short, two writes mixed, or a request spoilt it that has no
\* good answer (handlers write before anything is validated, sites.rs 220 and
\* v3.rs 475).
UnusableIsBlamed ==
  ~Usable(file) =>
    \/ file \in Files
    \/ \E h \in Handlers : pc[h] = "fill" \/ SpoiltBy(h) \/ MixedBy(h)
    \/ boot = "emptied" \/ spent["crashes"] + spent["faults"] > 0

\* What to_string does not print: it is lost on the way through the API.
Lost(kind) == CASE kind = "hosted" -> {"terminate_http", "forward_subdomains",
                                       "log_format"}
                [] kind = "remote" -> {"terminate_http", "keep_original_host_header"}
                [] OTHER           -> {}

\* No arguments, given or not.
NoArgs == {None, "empty"}

Alike(a, b) ==
  /\ a.kind = b.kind /\ a.host = b.host /\ a.port = b.port
  /\ a.hints = b.hints /\ a.ownPort = b.ownPort /\ a.body = b.body
  /\ a.args = b.args \/ (a.args \in NoArgs /\ b.args \in NoArgs)
  /\ \A f \in (DOMAIN a.flags \cup DOMAIN b.flags) \ Lost(a.kind) :
       IsTrue(a, f) = IsTrue(b, f)

AlikeItems(s, t) == Len(s) = Len(t) /\ \A i \in DOMAIN s : Alike(s[i], t[i])

\* What was asked for stands in c.
Granted(r, c) ==
  CASE r \in Updates -> /\ \E b \in Blocks(c) : Alike(b, r.block)
                        /\ r.host \in HostsOf(c, r.block.kind) => r.host = r.block.host
    [] r \in Deletes -> r.host \notin Hosts(c)
    [] OTHER         -> \A g \in DOMAIN r : c[g] = r[g] \/ r[g] = None

\* An API call changes its own site, or its own settings, and nothing else in
\* the file, except for what is never printed and for an unset root_dir, ip or
\* auto_start, as long as nobody else touches the file meanwhile (v3.rs 494: "we have to
\* maintain this method manually").
Untouched(r, a, b) ==
  /\ \A k \in Lists :
       LET own == CASE r \in Updates -> IF k = r.block.kind THEN {r.host, r.block.host}
                                                            ELSE {}
                    [] r \in Deletes -> {r.host}
                    [] OTHER         -> {}
       IN  AlikeItems(Others(a[k], own), Others(b[k], own))
  /\ \A g \in Global \ {"loopback"} :
       a[g] = b[g] \/ (r \in Settings /\ g \in DOMAIN r)
                   \/ (g \in {"root_dir", "ip", "auto_start"} /\ a[g] = None)

ChangesOnlyItsSite ==
  [][\A h \in Handlers :
       pc[h] = "fill" /\ pc'[h] # "fill" /\ file' # file /\ file' # Torn /\ alone[h] =>
         Granted(req[h], file'.conf) /\ Untouched(req[h], base[h], file'.conf)]_vars

\* A change that is confirmed after a reload is in the active configuration,
\* unless somebody else changed the file since the handler copied it: then the
\* reload may have been of the other's change (sites.rs 258, settings.rs 223).
AnswersAreTrue ==
  [][\A h \in Handlers :
       pc[h] = "wait" /\ pc'[h] = "done" /\ answer'[h] = "ok" /\ alone[h] =>
         Granted(req[h], config) \/ (req[h] \in Settings /\ version = seen[h])]_vars

\* More precisely: the active configuration is what the handler has written,
\* read back.
ConfirmedIsActive ==
  [][\A h \in Handlers :
       pc[h] = "wait" /\ pc'[h] = "done" /\ answer'[h] = "ok" /\ alone[h] =>
         config = Reloaded(Written(Draft(h)))
         \/ (req[h] \in Settings /\ version = seen[h])]_vars

\* File and memory say the same, up to what equality does not look at.
InStep(c, d) == /\ SameGlobals(c, d)
                /\ \A k \in Lists : SameItems(Items(c[k]), Items(d[k]))

StatusesAgree ==
  \A n \in Names \ (Containers \cup strayed) :
    /\ status[n] # "Docker"
    /\ status[n] = "Remote" <=> n \in HostsOf(config, "remote")
    /\ status[n] = "Dir"    <=> n \in HostsOf(config, "dir")

ContainersAgree ==
  /\ docker = running
  /\ \A n \in Containers \ Hosts(config) : (status[n] = "Docker") = (n \in running)

Settled ==
  boot = "up" =>
    /\ Usable(file) => \/ abandoned
                       \/ InStep(Upgrade(file), config) \/ file = Written(config)
    /\ StatusesAgree /\ ContainersAgree

\* Once everything stops, the active configuration is the one in the file, if that can be
\* used and the last pass was not given up, or the one that an upgrade has just written;
\* sites that need no process have their status, and no others; and the containers that a
\* reload takes away are back (main.rs 869).  Two things leave a site without its status,
\* or with one it should not have, until a later pass finds a change, which may be never:
\* a pass given up after it moved the statuses (reload.rs 153-161), whatever later passes
\* find unchanged; and a delete, which takes the status before a write that may fail or
\* be undone (sites.rs 346).
Settles == <>[]Settled
=============================================================================
