------------------------------ MODULE ProcHost ------------------------------
(***************************************************************************)
(* The process supervisor of odd-box: one `host` task per hosted process   *)
(* (proc_host.rs), the global PROC_THREAD_MAP the tasks register in, the   *)
(* broadcast channel that carries start and stop commands to them, the     *)
(* site_status_map everybody reads, the Janitor that drops map entries of  *)
(* ended tasks and the shutdown sequence of `main`.                        *)
(*                                                                         *)
(* A task is <<s, k>>: the task spawned for site s by the k-th pass over   *)
(* the configuration (0 is start-up).  It registers under the proc id      *)
(* <<s, ident[t]>>: a ProcId is a fresh UUID per parsed process, so the    *)
(* pass that minted it names it, and reload may hand an older id on.       *)
(*                                                                         *)
(* Sleeps are not modelled: every delay of the loop is a point where the   *)
(* task may be overtaken for any length of time.                           *)
(***************************************************************************)
EXTENDS Naturals, Sequences, FiniteSets

CONSTANTS
  Sites,      \* host names of hosted processes
  MaxGen,     \* passes over the configuration after start-up (bound)
  Aliases,    \* sets of sites that one command name reaches: the host name,
              \* or the first label that several host names may share
  Excluded,   \* sites with exclude_from_start_all
  Capacity,   \* capacity of the broadcast channel (100 in main.rs)
  MaxSends,   \* commands sent in a behaviour (bound)
  None        \* no task, no id, no status

Statuses == {"Stopped", "Starting", "Running", "Stopping", "Faulty"}

ASSUME HostAssumption ==
  /\ MaxGen \in Nat
  /\ Capacity \in Nat \ {0}
  /\ MaxSends \in Nat
  /\ Aliases \subseteq SUBSET Sites
  /\ Excluded \subseteq Sites
  /\ None \notin (Sites \X (0..MaxGen)) \cup (0..MaxGen) \cup Statuses

Gens  == 0..MaxGen
Tasks == Sites \X Gens
Ids   == Sites \X Gens

VARIABLES
  (* per task *)
  pc,       \* where the task is in `host`
  ident,    \* generation of the proc id it registered under
  enabled,  \* the local `enabled` flag
  child,    \* its OS process: "none" or "alive"
  inbox,    \* messages of the broadcast channel it has not received
  lagged,   \* the channel has overwritten messages it had not received
  (* PROC_THREAD_MAP, per proc id *)
  owner,    \* the task whose liveness pointer the entry holds, or None
  marked,   \* marked_for_removal
  hasPid,   \* pid is Some
  (* shared *)
  status,   \* site_status_map, for hosted processes
  hosted,   \* generation of the id the active configuration lists, or None
  exit,     \* app_state.exit
  halted,   \* main has returned and the process is gone
  sends     \* commands sent so far

taskVars == <<pc, ident, enabled, child>>
chanVars == <<inbox, lagged, sends>>
mapVars  == <<owner, marked, hasPid>>
hostVars == <<taskVars, chanVars, mapVars, status, hosted, exit, halted>>

\* "idleOn" and "idleOff" are the drain of the outer loop, entered with the flag
\* on or off (is_enabled_before); "drain" is the drain of the inner loop.
Points == {"unborn", "top", "check", "idleOn", "idleOff", "launch", "spawn", "run",
           "drain", "kill", "killMarked", "after", "done"}

OuterDrain == {"idleOn", "idleOff"}

(***************************************************************************)
(* ProcMessage.  StartAll, StopAll and the name "all" are bulk commands;   *)
(* any other name reaches the sites whose acceptable_names contain it.     *)
(***************************************************************************)
Message == [op : {"start", "stop"}, to : SUBSET Sites, bulk : BOOLEAN]

Bulk(op)     == [op |-> op, to |-> Sites, bulk |-> TRUE]
Named(op, A) == [op |-> op, to |-> A, bulk |-> FALSE]

Site(t) == t[1]
Id(t)   == <<t[1], ident[t]>>

Live(t)   == pc[t] \notin {"unborn", "done"}
Alive(t)  == child[t] = "alive"
Registered(i) == owner[i] # None
MarkedForRemoval(t) == Registered(Id(t)) /\ marked[Id(t)]

Goto(t, p)      == pc' = [pc EXCEPT ![t] = p]
SetStatus(s, v) == status' = [status EXCEPT ![s] = v]

(***************************************************************************)
(* broadcast::Sender::send.  Every live task holds a receiver; one that is *)
(* Capacity messages behind loses its oldest message and is told so by the *)
(* next try_recv.                                                          *)
(***************************************************************************)
Send(m) ==
  /\ sends < MaxSends
  /\ sends' = sends + 1
  /\ inbox' = [t \in Tasks |->
                 IF ~Live(t) THEN inbox[t]
                 ELSE IF Len(inbox[t]) = Capacity
                      THEN Append(Tail(inbox[t]), m)
                      ELSE Append(inbox[t], m)]
  /\ lagged' = [t \in Tasks |->
                 lagged[t] \/ (Live(t) /\ Len(inbox[t]) = Capacity)]

-----------------------------------------------------------------------------
(***************************************************************************)
(* Commands.  They come from the API and the /START and /STOP endpoints,   *)
(* from requests to a site that is not running, and from the terminal UI,  *)
(* which also edits the status map before it sends.                        *)
(***************************************************************************)
Command ==
  /\ \E op \in {"start", "stop"} :
       \/ Send(Bulk(op))
       \/ \E A \in Aliases : Send(Named(op, A))
  /\ UNCHANGED <<taskVars, mapVars, status, hosted, exit, halted>>

\* A proxied request for a configured site wakes it up unless its status says
\* that it runs or is about to.
RequestWakes(s) ==
  /\ hosted[s] # None
  /\ status[s] \notin {"Running", "Faulty", "Starting"}
  /\ Send(Named("start", {s}))
  /\ UNCHANGED <<taskVars, mapVars, status, hosted, exit, halted>>

\* Keys 'z' and 's' of the terminal UI.
TuiStopAll ==
  /\ status' = [s \in Sites |->
                  IF status[s] \in {"Faulty", "Running"} THEN "Stopping" ELSE status[s]]
  /\ Send(Bulk("stop"))
  /\ UNCHANGED <<taskVars, mapVars, hosted, exit, halted>>

TuiStartAll ==
  /\ status' = [s \in Sites |->
                  IF status[s] = "Running" /\ s \notin Excluded THEN "Starting" ELSE status[s]]
  /\ Send(Bulk("start"))
  /\ UNCHANGED <<taskVars, mapVars, hosted, exit, halted>>

\* A click on a site in the terminal UI.
TuiToggle(s) ==
  /\ \/ /\ status[s] = "Faulty"  /\ SetStatus(s, "Stopped")  /\ Send(Named("stop", {s}))
     \/ /\ status[s] = "Stopped" /\ SetStatus(s, "Starting") /\ Send(Named("start", {s}))
     \/ /\ status[s] = "Running" /\ SetStatus(s, "Stopping") /\ Send(Named("stop", {s}))
  /\ UNCHANGED <<taskVars, mapVars, hosted, exit, halted>>

-----------------------------------------------------------------------------
(***************************************************************************)
(* The host task.                                                          *)
(***************************************************************************)

\* Mutant: a waiting task does not look at its mark.
Top_IgnoresMark(t) ==
  /\ pc[t] = "top"
  /\ hasPid' = [hasPid EXCEPT ![Id(t)] = FALSE]
  /\ Goto(t, "check")
  /\ UNCHANGED <<ident, enabled, child, chanVars, owner, marked, status, hosted, exit, halted>>

\* Head of the outer loop: a task marked for removal leaves for good.
Top(t) ==
  /\ pc[t] = "top"
  /\ hasPid' = [hasPid EXCEPT ![Id(t)] = FALSE]
  /\ IF MarkedForRemoval(t)
     THEN Goto(t, "done") /\ SetStatus(Site(t), None)
     ELSE Goto(t, "check") /\ UNCHANGED status
  /\ UNCHANGED <<ident, enabled, child, chanVars, owner, marked, hosted, exit, halted>>

IdlePoint(t) == IF enabled[t] THEN "idleOn" ELSE "idleOff"

\* Mutant: a waiting task does not look at the exit flag.
Check_IgnoresExit(t) ==
  /\ pc[t] = "check"
  /\ SetStatus(Site(t), "Stopped")
  /\ Goto(t, IdlePoint(t))
  /\ UNCHANGED <<ident, enabled, child, chanVars, mapVars, hosted, exit, halted>>

Check(t) ==
  /\ pc[t] = "check"
  /\ SetStatus(Site(t), "Stopped")
  /\ Goto(t, IF exit THEN "done" ELSE IdlePoint(t))
  /\ UNCHANGED <<ident, enabled, child, chanVars, mapVars, hosted, exit, halted>>

\* One message of a drain.  Only the drain of the outer loop refuses a bulk
\* start for an excluded site.
Obey(t, m, refuses) ==
  IF Site(t) \notin m.to THEN enabled[t]
  ELSE IF m.op = "stop" THEN FALSE
  ELSE enabled[t] \/ ~(refuses /\ m.bulk /\ Site(t) \in Excluded)

Receive(t) ==
  /\ pc[t] \in OuterDrain \cup {"drain"}
  /\ ~lagged[t]
  /\ inbox[t] # <<>>
  /\ enabled' = [enabled EXCEPT ![t] = Obey(t, Head(inbox[t]), pc[t] \in OuterDrain)]
  /\ inbox' = [inbox EXCEPT ![t] = Tail(@)]
  /\ UNCHANGED <<pc, ident, child, lagged, sends, mapVars, status, hosted, exit, halted>>

\* The drain ends on an empty queue, and also on the first Err(Lagged).
Drained(t) ==
  /\ lagged[t] \/ inbox[t] = <<>>
  /\ lagged' = [lagged EXCEPT ![t] = FALSE]
  /\ UNCHANGED <<inbox, sends>>

\* A task that has just been disabled says so; a disabled one stays where it is.
DrainedIdle(t) ==
  /\ pc[t] \in OuterDrain
  /\ Drained(t)
  /\ \/ enabled[t] /\ Goto(t, "launch") /\ UNCHANGED status
     \/ /\ ~enabled[t] /\ Goto(t, "top")
        /\ IF pc[t] = "idleOn" THEN SetStatus(Site(t), "Stopped") ELSE UNCHANGED status
  /\ UNCHANGED <<ident, enabled, child, mapVars, hosted, exit, halted>>

\* Port selection and binary lookup, which can each send the task back to the
\* head of the loop.
NoPort(t) ==
  /\ pc[t] = "launch"
  /\ Goto(t, "top")
  /\ UNCHANGED <<ident, enabled, child, chanVars, mapVars, status, hosted, exit, halted>>

NoBinary(t) ==
  /\ pc[t] = "launch"
  /\ SetStatus(Site(t), "Faulty")
  /\ Goto(t, "top")
  /\ UNCHANGED <<ident, enabled, child, chanVars, mapVars, hosted, exit, halted>>

Prepare(t) ==
  /\ pc[t] = "launch"
  /\ SetStatus(Site(t), "Starting")
  /\ Goto(t, "spawn")
  /\ UNCHANGED <<ident, enabled, child, chanVars, mapVars, hosted, exit, halted>>

Spawn(t) ==
  /\ pc[t] = "spawn"
  /\ child' = [child EXCEPT ![t] = "alive"]
  /\ SetStatus(Site(t), "Running")
  /\ hasPid' = [hasPid EXCEPT ![Id(t)] = Registered(Id(t))]
  /\ Goto(t, "run")
  /\ UNCHANGED <<ident, enabled, chanVars, owner, marked, hosted, exit, halted>>

SpawnFails(t) ==
  /\ pc[t] = "spawn"
  /\ SetStatus(Site(t), "Faulty")
  /\ Goto(t, "after")
  /\ UNCHANGED <<ident, enabled, child, chanVars, mapVars, hosted, exit, halted>>

\* Head of the inner loop: try_wait, the exit flag, the live configuration.
Replaced(t) == hosted[Site(t)] \notin {None, ident[t]}

\* Mutant: the end of the process is not reported.
ChildGone_Silent(t) ==
  /\ pc[t] = "run" /\ ~Alive(t)
  /\ Goto(t, "after")
  /\ UNCHANGED <<ident, enabled, child, chanVars, mapVars, status, hosted, exit, halted>>

ChildGone(t) ==
  /\ pc[t] = "run" /\ ~Alive(t)
  /\ SetStatus(Site(t), "Stopped")
  /\ Goto(t, "after")
  /\ UNCHANGED <<ident, enabled, child, chanVars, mapVars, hosted, exit, halted>>

\* Mutant: the task leaves on exit and forgets its process.
StopOnExit_NoKill(t) ==
  /\ pc[t] = "run" /\ Alive(t) /\ exit
  /\ SetStatus(Site(t), "Stopping")
  /\ Goto(t, "done")
  /\ UNCHANGED <<ident, enabled, child, chanVars, mapVars, hosted, exit, halted>>

StopOnExit(t) ==
  /\ pc[t] = "run" /\ Alive(t) /\ exit
  /\ SetStatus(Site(t), "Stopping")
  /\ Goto(t, "kill")
  /\ UNCHANGED <<ident, enabled, child, chanVars, mapVars, hosted, exit, halted>>

StopReplaced(t) ==
  /\ pc[t] = "run" /\ Alive(t) /\ ~exit /\ Replaced(t)
  /\ SetStatus(Site(t), "Stopping")
  /\ Goto(t, "kill")
  /\ UNCHANGED <<ident, enabled, child, chanVars, mapVars, hosted, exit, halted>>

StillRunning(t) ==
  /\ pc[t] = "run" /\ Alive(t) /\ ~exit /\ ~Replaced(t)
  /\ SetStatus(Site(t), "Running")
  /\ Goto(t, "drain")
  /\ UNCHANGED <<ident, enabled, child, chanVars, mapVars, hosted, exit, halted>>

\* Mutant: a running task looks at its mark only.
DrainedRunning_KeepsDisabled(t) ==
  /\ pc[t] = "drain"
  /\ Drained(t)
  /\ \/ MarkedForRemoval(t) /\ Goto(t, "killMarked") /\ SetStatus(Site(t), "Stopping")
     \/ ~MarkedForRemoval(t) /\ Goto(t, "run") /\ UNCHANGED status
  /\ UNCHANGED <<ident, enabled, child, mapVars, hosted, exit, halted>>

\* The drain of the inner loop runs straight into its tail: removal, then
\* disablement, then around again.
DrainedRunning(t) ==
  /\ pc[t] = "drain"
  /\ Drained(t)
  /\ \/ /\ MarkedForRemoval(t)
        /\ Goto(t, "killMarked") /\ SetStatus(Site(t), "Stopping")
     \/ /\ ~MarkedForRemoval(t) /\ ~enabled[t]
        /\ Goto(t, "kill") /\ SetStatus(Site(t), "Stopping")
     \/ /\ ~MarkedForRemoval(t) /\ enabled[t]
        /\ Goto(t, "run") /\ UNCHANGED status
  /\ UNCHANGED <<ident, enabled, child, mapVars, hosted, exit, halted>>

\* Mutant: a marked task does not wait for its process to end.
Killed_TooEarly(t) ==
  /\ pc[t] \in {"kill", "killMarked"}
  /\ child' = [child EXCEPT ![t] = IF pc[t] = "kill" THEN "none" ELSE @]
  /\ IF pc[t] = "kill"
     THEN Goto(t, "after") /\ SetStatus(Site(t), "Stopped")
     ELSE Goto(t, "done") /\ UNCHANGED status
  /\ UNCHANGED <<ident, enabled, chanVars, mapVars, hosted, exit, halted>>

\* The bounded SIGINT, SIGTERM, SIGKILL ladder is over: the process is gone.
\* A task marked for removal returns from here; its status stays as it is.
Killed(t) ==
  /\ pc[t] \in {"kill", "killMarked"}
  /\ child' = [child EXCEPT ![t] = "none"]
  /\ IF pc[t] = "kill"
     THEN Goto(t, "after") /\ SetStatus(Site(t), "Stopped")
     ELSE Goto(t, "done") /\ UNCHANGED status
  /\ UNCHANGED <<ident, enabled, chanVars, mapVars, hosted, exit, halted>>

\* Mutant: an enabled task gives up when its process ends.
After_GivesUp(t) ==
  /\ pc[t] = "after"
  /\ \/ enabled[t] /\ Goto(t, "done")
     \/ ~enabled[t] /\ Goto(t, "top")
  /\ UNCHANGED <<ident, enabled, child, chanVars, mapVars, status, hosted, exit, halted>>

\* Behind the inner loop: leave on exit, else go around and start again.
After(t) ==
  /\ pc[t] = "after"
  /\ \/ /\ enabled[t] /\ exit
        /\ Goto(t, "done") /\ UNCHANGED status
     \/ /\ enabled[t] /\ ~exit
        /\ Goto(t, "top") /\ SetStatus(Site(t), "Faulty")
     \/ /\ ~enabled[t]
        /\ Goto(t, "top") /\ UNCHANGED status
  /\ UNCHANGED <<ident, enabled, child, chanVars, mapVars, hosted, exit, halted>>

HostStep(t) ==
  \/ Top(t) \/ Check(t) \/ Receive(t) \/ DrainedIdle(t)
  \/ NoPort(t) \/ NoBinary(t) \/ Prepare(t) \/ Spawn(t) \/ SpawnFails(t)
  \/ ChildGone(t) \/ StopOnExit(t) \/ StopReplaced(t) \/ StillRunning(t)
  \/ DrainedRunning(t) \/ Killed(t) \/ After(t)

-----------------------------------------------------------------------------
(***************************************************************************)
(* The world around the tasks.                                             *)
(***************************************************************************)

\* The hosted process ends on its own.
ChildExits(t) ==
  /\ Alive(t)
  /\ child' = [child EXCEPT ![t] = "none"]
  /\ UNCHANGED <<pc, ident, enabled, chanVars, mapVars, status, hosted, exit, halted>>

\* Mutant: the sweep drops every entry without a process.
Stale_NoPid(i) == Registered(i) /\ ~hasPid[i]

\* One sweep of the Janitor over PROC_THREAD_MAP.
Stale(i) == Registered(i) /\ ~Live(owner[i])

Janitor ==
  /\ \E i \in Ids : Stale(i)
  /\ owner'  = [i \in Ids |-> IF Stale(i) THEN None ELSE owner[i]]
  /\ marked' = [i \in Ids |-> marked[i] /\ ~Stale(i)]
  /\ hasPid' = [i \in Ids |-> hasPid[i] /\ ~Stale(i)]
  /\ UNCHANGED <<taskVars, chanVars, status, hosted, exit, halted>>

RequestExit ==
  /\ ~exit
  /\ exit' = TRUE
  /\ UNCHANGED <<taskVars, chanVars, mapVars, status, hosted, halted>>

\* main waits for the last receiver of the channel; after three seconds an
\* empty PROC_THREAD_MAP is enough.
Halt ==
  /\ exit
  /\ \/ \A t \in Tasks : ~Live(t)
     \/ \A i \in Ids : ~Registered(i)
  /\ halted' = TRUE
  /\ UNCHANGED <<taskVars, chanVars, mapVars, status, hosted, exit>>

(***************************************************************************)
(* tokio::spawn of `host` for the sites S in pass k: the task subscribes   *)
(* and, on its first poll, registers itself.  en[s] is auto_start, id[s]   *)
(* the generation of the proc id in the resolved configuration.            *)
(***************************************************************************)
SpawnHosts(S, k, id, en) ==
  LET New    == {<<s, k>> : s \in S}
      NewIds == {<<s, id[s]>> : s \in S}
  IN /\ pc'      = [t \in Tasks |-> IF t \in New THEN "top" ELSE pc[t]]
     /\ ident'   = [t \in Tasks |-> IF t \in New THEN id[Site(t)] ELSE ident[t]]
     /\ enabled' = [t \in Tasks |-> IF t \in New THEN en[Site(t)] ELSE enabled[t]]
     /\ inbox'   = [t \in Tasks |-> IF t \in New THEN <<>> ELSE inbox[t]]
     /\ lagged'  = [t \in Tasks |-> IF t \in New THEN FALSE ELSE lagged[t]]
     /\ owner'   = [i \in Ids |-> IF i \in NewIds THEN <<i[1], k>> ELSE owner[i]]
     /\ marked'  = [i \in Ids |-> marked[i] /\ i \notin NewIds]
     /\ hasPid'  = [i \in Ids |-> hasPid[i] /\ i \notin NewIds]

HostInit(S, en) ==
  /\ pc      = [t \in Tasks |-> IF t \in S \X {0} THEN "top" ELSE "unborn"]
  /\ ident   = [t \in Tasks |-> 0]
  /\ enabled = [t \in Tasks |-> IF t \in S \X {0} THEN en[Site(t)] ELSE FALSE]
  /\ child   = [t \in Tasks |-> "none"]
  /\ inbox   = [t \in Tasks |-> <<>>]
  /\ lagged  = [t \in Tasks |-> FALSE]
  /\ owner   = [i \in Ids |-> IF i \in S \X {0} THEN i ELSE None]
  /\ marked  = [i \in Ids |-> FALSE]
  /\ hasPid  = [i \in Ids |-> FALSE]
  /\ status  = [s \in Sites |-> None]
  /\ hosted  = [s \in Sites |-> IF s \in S THEN 0 ELSE None]
  /\ exit    = FALSE
  /\ halted  = FALSE
  /\ sends   = 0

HostNext ==
  /\ ~halted
  /\ \/ Command
     \/ \E s \in Sites : RequestWakes(s) \/ TuiToggle(s)
     \/ TuiStopAll \/ TuiStartAll
     \/ \E t \in Tasks : HostStep(t) \/ ChildExits(t)
     \/ Janitor \/ RequestExit \/ Halt
=============================================================================
