-------------------------- MODULE HotReloadProofs --------------------------
(***************************************************************************)
(* Proofs about HotReload, for any sites, versions, number of passes,      *)
(* channel capacity and number of commands and edits: types and the map,   *)
(* one process per site and the refinement of SiteSupervisor, and last     *)
(* that what runs is what is configured and the status map says so.        *)
(***************************************************************************)
EXTENDS HotReload, TLAPS

-----------------------------------------------------------------------------
(***************************************************************************)
(* Types.                                                                  *)
(***************************************************************************)

\* Every message the program sends is a Message.
LEMMA BulkIsMessage ==
  ASSUME NEW op \in {"start", "stop"}
  PROVE  Bulk(op) \in Message
  BY DEF Bulk, Message

LEMMA NamedIsMessage ==
  ASSUME NEW op \in {"start", "stop"}, NEW A \in SUBSET Sites
  PROVE  Named(op, A) \in Message
  BY DEF Named, Message

\* Sending keeps the channel well-formed, also when a receiver lags.
LEMMA SendType ==
  ASSUME TypeOK, NEW m \in Message, Send(m)
  PROVE  /\ inbox' \in [Tasks -> Seq(Message)]
         /\ lagged' \in [Tasks -> BOOLEAN]
         /\ sends' \in Nat
<1>1. \A t \in Tasks : inbox[t] \in Seq(Message)
  BY DEF TypeOK
<1>2. \A t \in Tasks : Append(inbox[t], m) \in Seq(Message)
  BY <1>1
<1>3. \A t \in Tasks : Len(inbox[t]) = Capacity => Append(Tail(inbox[t]), m) \in Seq(Message)
  <2>1. TAKE t \in Tasks
  <2>2. HAVE Len(inbox[t]) = Capacity
  <2>3. inbox[t] # << >>
    BY <2>2, HostAssumption, <1>1 DEF HostAssumption
  <2> QED BY <2>3, <1>1
<1>4. inbox' \in [Tasks -> Seq(Message)]
  BY <1>1, <1>2, <1>3 DEF Send
<1>5. lagged' \in [Tasks -> BOOLEAN]
  <2>1. \A t \in Tasks : (lagged[t] \/ (Live(t) /\ Len(inbox[t]) = Capacity)) \in BOOLEAN
    OBVIOUS
  <2> QED BY <2>1, Zenon DEF Send
<1> QED BY <1>4, <1>5 DEF Send, TypeOK

LEMMA TypeInit == Init => TypeOK
<1> SUFFICES ASSUME Init PROVE TypeOK
  OBVIOUS
<1> DEFINE on == [s \in Sites |-> config[s] \in AutoStart]
<1>0. HostInit(Listed(config), on)
  BY DEF Init
<1>a. 0 \in Gens
  BY HostAssumption DEF HostAssumption, Gens
<1>b. \A t \in Tasks : Site(t) \in Sites
  BY DEF Tasks, Site
<1>1. /\ pc \in [Tasks -> Points]
      /\ ident \in [Tasks -> Gens]
      /\ child \in [Tasks -> {"none", "alive"}]
      /\ lagged \in [Tasks -> BOOLEAN]
      /\ marked \in [Ids -> BOOLEAN]
      /\ hasPid \in [Ids -> BOOLEAN]
  BY <1>0, <1>a DEF HostInit, Points
<1>2. enabled \in [Tasks -> BOOLEAN]
  <2>1. \A t \in Tasks : on[Site(t)] \in BOOLEAN
    <3>1. \A s \in Sites : (config[s] \in AutoStart) \in BOOLEAN
      OBVIOUS
    <3>2. on \in [Sites -> BOOLEAN]
      BY <3>1, Zenon
    <3> HIDE DEF on
    <3> QED BY <3>2, <1>b
  <2>2. \A t \in Tasks :
          (IF t \in Listed(config) \X {0} THEN on[Site(t)] ELSE FALSE) \in BOOLEAN
    BY <2>1, Zenon
  <2> QED BY <1>0, <2>2, Zenon DEF HostInit
<1>3. inbox \in [Tasks -> Seq(Message)]
  BY <1>0 DEF HostInit
<1>4. owner \in [Ids -> Tasks \cup {None}]
  BY <1>0 DEF HostInit, Ids, Tasks
<1>5. /\ status \in [Sites -> Statuses \cup {None}]
      /\ hosted \in [Sites -> Gens \cup {None}]
      /\ exit \in BOOLEAN /\ halted \in BOOLEAN /\ sends \in Nat
  BY <1>0, <1>a DEF HostInit
<1>6. conf \in [Tasks -> Versions \cup {None}]
  BY <1>b DEF Init, Contents
<1>7. /\ file \in Contents \cup {Broken} /\ edits \in Nat /\ events \in Nat
      /\ config \in Contents /\ next \in Contents /\ aborted \in BOOLEAN
      /\ rpc \in {"idle", "read", "mark", "await", "spawn", "swap"}
      /\ gen \in Gens /\ nextIds \in [Sites -> Gens] /\ modified \in SUBSET Sites
  BY <1>a DEF Init
<1> QED BY <1>1, <1>2, <1>3, <1>4, <1>5, <1>6, <1>7 DEF TypeOK

\* The steps of a host task.
LEMMA TypeHostStep ==
  ASSUME TypeOK, NEW t \in Tasks, HostStep(t), UNCHANGED reloadVars
  PROVE  TypeOK'
<1> Site(t) \in Sites /\ Id(t) \in Ids
  BY DEF TypeOK, Tasks, Ids, Site, Id
<1>0. TypeOK /\ UNCHANGED reloadVars
  OBVIOUS
<1> USE <1>0 DEF TypeOK, reloadVars, diskVars, planVars, taskVars, chanVars, mapVars,
            Points, Statuses, Goto, SetStatus
<1>1. CASE Top(t)
  BY <1>1 DEF Top
<1>2. CASE Check(t)
  BY <1>2 DEF Check, IdlePoint
<1>3. CASE Receive(t)
  <2>1. inbox[t] \in Seq(Message) /\ inbox[t] # << >>
    BY <1>3 DEF Receive
  <2>2. Tail(inbox[t]) \in Seq(Message)
    BY <2>1
  <2>3. inbox' \in [Tasks -> Seq(Message)]
    BY <2>2, <1>3 DEF Receive
  <2>4. Obey(t, Head(inbox[t]), pc[t] \in OuterDrain) \in BOOLEAN
    <3>1. enabled[t] \in BOOLEAN
      OBVIOUS
    <3> QED BY <3>1, Zenon DEF Obey
  <2>5. enabled' \in [Tasks -> BOOLEAN]
    BY <2>4, <1>3 DEF Receive
  <2> QED BY <2>3, <2>5, <1>3 DEF Receive
<1>4. CASE DrainedIdle(t)
  BY <1>4 DEF DrainedIdle, Drained, OuterDrain
<1>5. CASE NoPort(t)
  BY <1>5 DEF NoPort
<1>6. CASE NoBinary(t)
  BY <1>6 DEF NoBinary
<1>7. CASE Prepare(t)
  BY <1>7 DEF Prepare
<1>8. CASE Spawn(t)
  <2>1. Registered(Id(t)) \in BOOLEAN
    BY DEF Registered
  <2> QED BY <1>8, <2>1 DEF Spawn
<1>9. CASE SpawnFails(t)
  BY <1>9 DEF SpawnFails
<1>10. CASE ChildGone(t)
  BY <1>10 DEF ChildGone
<1>11. CASE StopOnExit(t)
  BY <1>11 DEF StopOnExit
<1>12. CASE StopReplaced(t)
  BY <1>12 DEF StopReplaced
<1>13. CASE StillRunning(t)
  BY <1>13 DEF StillRunning
<1>14. CASE DrainedRunning(t)
  BY <1>14 DEF DrainedRunning, Drained
<1>15. CASE Killed(t)
  BY <1>15 DEF Killed
<1>16. CASE After(t)
  BY <1>16 DEF After
<1> QED
  BY <1>1, <1>2, <1>3, <1>4, <1>5, <1>6, <1>7, <1>8, <1>9, <1>10, <1>11, <1>12,
     <1>13, <1>14, <1>15, <1>16 DEF HostStep

\* Commands, the hosted processes, the Janitor and the shutdown.
LEMMA TypeWorldStep ==
  ASSUME TypeOK, UNCHANGED reloadVars,
         \/ Command
         \/ \E s \in Sites : RequestWakes(s) \/ TuiToggle(s)
         \/ TuiStopAll \/ TuiStartAll
         \/ \E t \in Tasks : ChildExits(t)
         \/ Janitor \/ RequestExit \/ Halt
  PROVE  TypeOK'
<1>0. TypeOK /\ UNCHANGED reloadVars
  OBVIOUS
<1> DEFINE Sent == /\ inbox' \in [Tasks -> Seq(Message)]
                   /\ lagged' \in [Tasks -> BOOLEAN]
                   /\ sends' \in Nat
<1>1. CASE Command
  <2>1. PICK op \in {"start", "stop"} :
          Send(Bulk(op)) \/ \E A \in Aliases : Send(Named(op, A))
    BY <1>1 DEF Command
  <2>2. Sent
    <3>1. CASE Send(Bulk(op))
      BY <3>1, BulkIsMessage, SendType, <1>0
    <3>2. ASSUME NEW A \in Aliases, Send(Named(op, A))
          PROVE  Sent
      <4>1. A \in SUBSET Sites
        BY HostAssumption DEF HostAssumption
      <4> QED BY <3>2, <4>1, NamedIsMessage, SendType, <1>0
    <3> QED BY <2>1, <3>1, <3>2
  <2> QED BY <1>0, <1>1, <2>2
          DEF Command, TypeOK, reloadVars, diskVars, planVars, taskVars, mapVars
<1>2. ASSUME NEW s \in Sites, RequestWakes(s) PROVE TypeOK'
  <2>1. Sent
    BY <1>2, NamedIsMessage, SendType, <1>0 DEF RequestWakes
  <2> QED BY <1>0, <1>2, <2>1
          DEF RequestWakes, TypeOK, reloadVars, diskVars, planVars, taskVars, mapVars
<1>3. ASSUME NEW s \in Sites, TuiToggle(s) PROVE TypeOK'
  <2>1. Sent
    BY <1>3, NamedIsMessage, SendType, <1>0 DEF TuiToggle
  <2>2. status' \in [Sites -> Statuses \cup {None}]
    BY <1>0, <1>3 DEF TuiToggle, SetStatus, TypeOK, Statuses
  <2> QED BY <1>0, <1>3, <2>1, <2>2
          DEF TuiToggle, TypeOK, reloadVars, diskVars, planVars, taskVars, mapVars
<1>4. CASE TuiStopAll
  <2>1. Sent
    BY <1>4, BulkIsMessage, SendType, <1>0 DEF TuiStopAll
  <2>2. status' \in [Sites -> Statuses \cup {None}]
    BY <1>0, <1>4 DEF TuiStopAll, TypeOK, Statuses
  <2> QED BY <1>0, <1>4, <2>1, <2>2
          DEF TuiStopAll, TypeOK, reloadVars, diskVars, planVars, taskVars, mapVars
<1>5. CASE TuiStartAll
  <2>1. Sent
    BY <1>5, BulkIsMessage, SendType, <1>0 DEF TuiStartAll
  <2>2. status' \in [Sites -> Statuses \cup {None}]
    BY <1>0, <1>5 DEF TuiStartAll, TypeOK, Statuses
  <2> QED BY <1>0, <1>5, <2>1, <2>2
          DEF TuiStartAll, TypeOK, reloadVars, diskVars, planVars, taskVars, mapVars
<1>6. ASSUME NEW t \in Tasks, ChildExits(t) PROVE TypeOK'
  BY <1>0, <1>6 DEF ChildExits, TypeOK, reloadVars, diskVars, planVars, chanVars, mapVars
<1>7. CASE Janitor
  <2>1. owner' \in [Ids -> Tasks \cup {None}]
    BY <1>0, <1>7 DEF Janitor, TypeOK
  <2>2. marked' \in [Ids -> BOOLEAN] /\ hasPid' \in [Ids -> BOOLEAN]
    <3>1. \A i \in Ids : /\ (marked[i] /\ ~Stale(i)) \in BOOLEAN
                         /\ (hasPid[i] /\ ~Stale(i)) \in BOOLEAN
      OBVIOUS
    <3> QED BY <3>1, <1>7, Zenon DEF Janitor
  <2> QED BY <1>0, <1>7, <2>1, <2>2
          DEF Janitor, TypeOK, reloadVars, diskVars, planVars, taskVars, chanVars
<1>8. CASE RequestExit
  BY <1>0, <1>8 DEF RequestExit, TypeOK, reloadVars, diskVars, planVars,
                    taskVars, chanVars, mapVars
<1>9. CASE Halt
  BY <1>0, <1>9 DEF Halt, TypeOK, reloadVars, diskVars, planVars,
                    taskVars, chanVars, mapVars
<1> QED BY <1>1, <1>2, <1>3, <1>4, <1>5, <1>6, <1>7, <1>8, <1>9

\* Spawning hosts, for any ids and flags of the right type.
LEMMA SpawnType ==
  ASSUME TypeOK, NEW S \in SUBSET Sites, NEW k \in Gens,
         NEW id \in [Sites -> Gens], NEW en \in [Sites -> BOOLEAN],
         SpawnHosts(S, k, id, en)
  PROVE  /\ pc' \in [Tasks -> Points]
         /\ ident' \in [Tasks -> Gens]
         /\ enabled' \in [Tasks -> BOOLEAN]
         /\ inbox' \in [Tasks -> Seq(Message)]
         /\ lagged' \in [Tasks -> BOOLEAN]
         /\ owner' \in [Ids -> Tasks \cup {None}]
         /\ marked' \in [Ids -> BOOLEAN]
         /\ hasPid' \in [Ids -> BOOLEAN]
<1> DEFINE New    == {<<s, k>> : s \in S}
           NewIds == {<<s, id[s]>> : s \in S}
<1>1. \A t \in Tasks : Site(t) \in Sites
  BY DEF Tasks, Site
<1>2. pc' \in [Tasks -> Points] /\ ident' \in [Tasks -> Gens]
  BY <1>1 DEF SpawnHosts, TypeOK, Points
<1>3. enabled' \in [Tasks -> BOOLEAN]
  <2>1. \A t \in Tasks : enabled[t] \in BOOLEAN /\ en[Site(t)] \in BOOLEAN
    BY <1>1 DEF TypeOK
  <2>2. \A t \in Tasks :
          (IF t \in New THEN en[Site(t)] ELSE enabled[t]) \in BOOLEAN
    BY <2>1, Zenon
  <2>3. enabled' = [t \in Tasks |-> IF t \in New THEN en[Site(t)] ELSE enabled[t]]
    BY DEF SpawnHosts
  <2> HIDE DEF New
  <2> QED BY <2>2, <2>3, Zenon
<1>4. inbox' \in [Tasks -> Seq(Message)] /\ lagged' \in [Tasks -> BOOLEAN]
  <2>1. inbox' = [t \in Tasks |-> IF t \in New THEN << >> ELSE inbox[t]]
    BY DEF SpawnHosts
  <2>2. lagged' = [t \in Tasks |-> IF t \in New THEN FALSE ELSE lagged[t]]
    BY DEF SpawnHosts
  <2>3. inbox \in [Tasks -> Seq(Message)] /\ lagged \in [Tasks -> BOOLEAN]
    BY DEF TypeOK
  <2> HIDE DEF New
  <2>4. inbox' \in [Tasks -> Seq(Message)]
    BY <2>1, <2>3
  <2>5. lagged' \in [Tasks -> BOOLEAN]
    BY <2>2, <2>3
  <2> QED BY <2>4, <2>5
<1>5. owner' \in [Ids -> Tasks \cup {None}]
  <2>1. \A i \in Ids : <<i[1], k>> \in Tasks
    BY DEF Ids, Tasks
  <2> QED BY <2>1 DEF SpawnHosts, TypeOK
<1>6. marked' \in [Ids -> BOOLEAN] /\ hasPid' \in [Ids -> BOOLEAN]
  <2>1. \A i \in Ids : /\ (marked[i] /\ i \notin NewIds) \in BOOLEAN
                       /\ (hasPid[i] /\ i \notin NewIds) \in BOOLEAN
    OBVIOUS
  <2> QED BY <2>1, Zenon DEF SpawnHosts
<1> QED BY <1>2, <1>3, <1>4, <1>5, <1>6

\* The writers of the file and the passes of the monitor.
LEMMA TypeReloadStep ==
  ASSUME TypeOK, EditFile \/ (\E s \in Sites : ApiDelete(s)) \/ Monitor
  PROVE  TypeOK'
<1>0. TypeOK
  OBVIOUS
<1>1. CASE EditFile
  BY <1>0, <1>1 DEF EditFile, Write, TypeOK, hostVars, taskVars, chanVars, mapVars, planVars
<1>2. ASSUME NEW s \in Sites, ApiDelete(s) PROVE TypeOK'
  <2>1. file' \in Contents
    BY <1>0, <1>2 DEF ApiDelete, Write, Contents, TypeOK
  <2> QED BY <1>0, <1>2, <2>1
          DEF ApiDelete, Write, SetStatus, TypeOK, taskVars, chanVars, mapVars, planVars
<1>3. CASE TakeEvent
  BY <1>0, <1>3 DEF TakeEvent, TypeOK, hostVars, taskVars, chanVars, mapVars, planVars
<1>4. CASE NothingToDo \/ PlanFails
  BY <1>0, <1>4 DEF NothingToDo, PlanFails, TypeOK, hostVars, taskVars, chanVars, mapVars,
                    diskVars, planVars
<1>5. CASE Plan
  <2>1. PICK ids \in [Sites -> Gens] : nextIds' = ids /\ modified' = Changed(file, ids)
    BY <1>5 DEF Plan
  <2>2. modified' \in SUBSET Sites
    BY <2>1 DEF Changed, Listed
  <2>3. gen' \in Gens
    BY <1>0, <1>5, HostAssumption DEF Plan, TypeOK, Gens, HostAssumption
  <2>4. next' \in Contents
    BY <1>0, <1>5 DEF Plan, TypeOK
  <2> QED BY <1>0, <1>5, <2>1, <2>2, <2>3, <2>4
          DEF Plan, TypeOK, hostVars, taskVars, chanVars, mapVars, diskVars
<1>6. CASE Mark
  <2>1. marked' \in [Ids -> BOOLEAN]
    <3>1. \A i \in Ids : (marked[i] \/ Outgoing(i)) \in BOOLEAN
      OBVIOUS
    <3> QED BY <1>6, <3>1, Zenon DEF Mark
  <2> QED BY <1>0, <1>6, <2>1 DEF Mark, TypeOK, taskVars, chanVars, diskVars, planVars
<1>7. CASE Await
  BY <1>0, <1>7 DEF Await, TypeOK, hostVars, taskVars, chanVars, mapVars, diskVars, planVars
<1>8. ASSUME NEW S \in SUBSET Sites, StartHosts(S)
      PROVE  /\ pc' \in [Tasks -> Points]
             /\ ident' \in [Tasks -> Gens]
             /\ enabled' \in [Tasks -> BOOLEAN]
             /\ inbox' \in [Tasks -> Seq(Message)]
             /\ lagged' \in [Tasks -> BOOLEAN]
             /\ owner' \in [Ids -> Tasks \cup {None}]
             /\ marked' \in [Ids -> BOOLEAN]
             /\ hasPid' \in [Ids -> BOOLEAN]
             /\ status' \in [Sites -> Statuses \cup {None}]
             /\ conf' \in [Tasks -> Versions \cup {None}]
  <2> DEFINE en == [s \in Sites |-> next[s] \in AutoStart]
  <2>1. en \in [Sites -> BOOLEAN]
    <3>1. \A s \in Sites : (next[s] \in AutoStart) \in BOOLEAN
      OBVIOUS
    <3> QED BY <3>1, Zenon
  <2>2. gen \in Gens /\ nextIds \in [Sites -> Gens] /\ next \in Contents
    BY <1>0 DEF TypeOK
  <2>3. SpawnHosts(S, gen, nextIds, en)
    BY <1>8 DEF StartHosts
  <2>4. conf' \in [Tasks -> Versions \cup {None}]
    <3>1. \A t \in Tasks : Site(t) \in Sites
      BY DEF Tasks, Site
    <3> QED BY <1>0, <1>8, <3>1, <2>2 DEF StartHosts, TypeOK, Contents
  <2>5. status' \in [Sites -> Statuses \cup {None}]
    BY <1>0, <1>8 DEF StartHosts, TypeOK
  <2> HIDE DEF en
  <2> QED BY <1>0, <2>1, <2>2, <2>3, <2>4, <2>5, SpawnType
<1>9. CASE SpawnAll
  <2>1. modified \in SUBSET Sites /\ StartHosts(modified)
    BY <1>0, <1>9 DEF SpawnAll, TypeOK
  <2> QED BY <1>0, <1>8, <1>9, <2>1 DEF SpawnAll, TypeOK, diskVars, planVars
<1>10. CASE SpawnFewer
  <2>1. PICK S \in SUBSET modified : StartHosts(S)
    BY <1>10 DEF SpawnFewer
  <2>2. S \in SUBSET Sites
    BY <1>0, <2>1 DEF TypeOK
  <2> QED BY <1>0, <1>8, <1>10, <2>1, <2>2 DEF SpawnFewer, TypeOK, diskVars, planVars
<1>11. CASE Swap
  BY <1>0, <1>11 DEF Swap, TypeOK, taskVars, chanVars, mapVars, diskVars, planVars
<1> QED BY <1>1, <1>2, <1>3, <1>4, <1>5, <1>6, <1>7, <1>9, <1>10, <1>11 DEF Monitor

LEMMA TypeStep == TypeOK /\ [Next]_vars => TypeOK'
<1> SUFFICES ASSUME TypeOK, [Next]_vars PROVE TypeOK'
  OBVIOUS
<1>0. TypeOK
  OBVIOUS
<1>1. CASE HostNext /\ UNCHANGED reloadVars
  BY <1>0, <1>1, TypeHostStep, TypeWorldStep DEF HostNext
<1>2. CASE EditFile \/ (\E s \in Sites : ApiDelete(s)) \/ Monitor
  BY <1>0, <1>2, TypeReloadStep
<1>3. CASE UNCHANGED vars
  BY <1>0, <1>3 DEF vars, hostVars, reloadVars, taskVars, chanVars, mapVars, diskVars,
                    planVars, TypeOK
<1> QED BY <1>1, <1>2, <1>3 DEF Next, Terminated

\* Whatever the sizes, no step of a host task, of the monitor or of a user takes
\* a variable of the supervisor outside the values it may have.
THEOREM TypeCorrect == Spec => []TypeOK
<1>1. Init => TypeOK
  BY TypeInit
<1>2. TypeOK /\ [Next]_vars => TypeOK'
  BY TypeStep
<1> QED BY <1>1, <1>2, PTL DEF Spec

-----------------------------------------------------------------------------
(***************************************************************************)
(* The inductive invariant.  None of the safety properties is inductive by *)
(* itself: that reload overwrites no entry of a live task and starts no    *)
(* second one needs the order of generations and what the monitor knows    *)
(* about outgoing tasks at each of its own steps.                          *)
(***************************************************************************)

\* A process belongs to a task between its launch and the end of its kill.
AliveIsHosted == \A t \in Tasks :
  Alive(t) => pc[t] \in {"run", "drain", "kill", "killMarked"}

\* Only the newest generation of a site can be live.
LiveIsNewest == \A t, u \in Tasks :
  Live(t) /\ pc[u] # "unborn" /\ Site(t) = Site(u) => u[2] <= t[2]

\* No task is newer than the last pass, nor as new as one that has yet to spawn.
PassOrder == \A t \in Tasks :
  pc[t] # "unborn" => /\ t[2] <= gen
                      /\ rpc \in {"mark", "await", "spawn"} => t[2] < gen

\* The monitor waits for marked tasks, and spawns where nothing is left.
OutgoingLeave == \A t \in Tasks :
  Live(t) /\ Site(t) \in modified => /\ rpc = "await" => marked[Id(t)]
                                     /\ rpc # "spawn"

\* When main has returned no task is left.
HaltedIsQuiet == halted => \A t \in Tasks : ~Live(t)

TaskInv ==
  /\ LiveTaskIsMapped
  /\ AliveIsHosted
  /\ LiveIsNewest
  /\ PassOrder
  /\ OutgoingLeave
  /\ HaltedIsQuiet

LEMMA InvInit == Init => TaskInv
<1> SUFFICES ASSUME Init PROVE TaskInv
  OBVIOUS
<1>1. TypeOK
  BY TypeInit
<1>2. \A t \in Tasks : /\ pc[t] # "unborn" => pc[t] = "top" /\ t[2] = 0
                       /\ pc[t] # "unborn" => owner[t] = t
                       /\ ident[t] = 0 /\ child[t] = "none"
  BY DEF Init, HostInit, Ids, Tasks, Listed
<1>3. gen = 0 /\ rpc = "idle" /\ modified = {} /\ ~halted
  BY DEF Init, HostInit
<1>4. LiveTaskIsMapped
  BY <1>2 DEF LiveTaskIsMapped, Live, Id, Tasks
<1>5. LiveIsNewest /\ PassOrder
  BY <1>2, <1>3 DEF LiveIsNewest, PassOrder, Live
<1> QED
  BY <1>2, <1>3, <1>4, <1>5
     DEF TaskInv, AliveIsHosted, OutgoingLeave, HaltedIsQuiet, Alive

\* A step that only moves a live task t keeps the invariant if its process is
\* where it belongs afterwards.
LEMMA InvTaskMoves ==
  ASSUME TypeOK, TaskInv, NEW t \in Tasks, Live(t), ~halted,
         NEW p \in Points \ {"unborn"}, Goto(t, p),
         \A u \in Tasks \ {t} : child'[u] = child[u],
         Alive(t)' => p \in {"run", "drain", "kill", "killMarked"},
         UNCHANGED <<ident, owner, marked, halted, reloadVars>>
  PROVE  TaskInv'
<1> USE DEF TypeOK, TaskInv, reloadVars, planVars, Goto
<1>1. \A u \in Tasks : /\ pc'[u] = IF u = t THEN p ELSE pc[u]
                       /\ Live(u)' => Live(u)
                       /\ pc'[u] # "unborn" => pc[u] # "unborn"
                       /\ Id(u)' = Id(u)
  BY DEF Live, Id
<1>2. LiveTaskIsMapped'
  BY <1>1 DEF LiveTaskIsMapped
<1>3. AliveIsHosted'
  BY <1>1 DEF AliveIsHosted, Alive
<1>4. LiveIsNewest'
  BY <1>1 DEF LiveIsNewest
<1>5. PassOrder'
  BY <1>1 DEF PassOrder
<1>6. OutgoingLeave'
  BY <1>1 DEF OutgoingLeave
<1>7. HaltedIsQuiet'
  BY DEF HaltedIsQuiet
<1> QED BY <1>2, <1>3, <1>4, <1>5, <1>6, <1>7

LEMMA InvHostStep ==
  ASSUME TypeOK, TaskInv, ~halted, NEW t \in Tasks, HostStep(t), UNCHANGED reloadVars
  PROVE  TaskInv'
<1>0. TypeOK /\ TaskInv /\ ~halted /\ UNCHANGED reloadVars
  OBVIOUS
<1> DEFINE Moves(p) ==
      /\ Live(t)
      /\ Goto(t, p)
      /\ \A u \in Tasks \ {t} : child'[u] = child[u]
      /\ Alive(t)' => p \in {"run", "drain", "kill", "killMarked"}
      /\ UNCHANGED <<ident, owner, marked, halted>>
<1>1. ASSUME NEW p \in Points \ {"unborn"}, Moves(p) PROVE TaskInv'
  BY <1>0, <1>1, InvTaskMoves
<1>2. Alive(t) => pc[t] \in {"run", "drain", "kill", "killMarked"}
  BY <1>0 DEF TaskInv, AliveIsHosted
<1> USE DEF taskVars, chanVars, mapVars, Live, Alive, Points
<1>3. CASE Top(t)
  <2>1. Moves("done") \/ Moves("check")
    BY <1>2, <1>3 DEF Top
  <2> QED BY <1>1, <2>1
<1>4. CASE Check(t)
  <2>1. Moves("done") \/ Moves("idleOn") \/ Moves("idleOff")
    BY <1>2, <1>4 DEF Check, IdlePoint
  <2> QED BY <1>1, <2>1
<1>5. CASE Receive(t)
  <2>1. Moves(pc[t])
    BY <1>0, <1>2, <1>5 DEF Receive, OuterDrain, Goto, TypeOK
  <2> QED BY <1>1, <2>1, <1>5 DEF Receive, OuterDrain
<1>6. CASE DrainedIdle(t)
  <2>1. Moves("launch") \/ Moves("top")
    BY <1>2, <1>6 DEF DrainedIdle, OuterDrain
  <2> QED BY <1>1, <2>1
<1>7. CASE NoPort(t) \/ NoBinary(t)
  <2>1. Moves("top")
    BY <1>2, <1>7 DEF NoPort, NoBinary
  <2> QED BY <1>1, <2>1
<1>8. CASE Prepare(t)
  <2>1. Moves("spawn")
    BY <1>2, <1>8 DEF Prepare
  <2> QED BY <1>1, <2>1
<1>9. CASE Spawn(t)
  <2>1. Moves("run")
    BY <1>0, <1>9 DEF Spawn, TypeOK
  <2> QED BY <1>1, <2>1
<1>10. CASE SpawnFails(t) \/ ChildGone(t)
  <2>1. Moves("after")
    BY <1>2, <1>10 DEF SpawnFails, ChildGone
  <2> QED BY <1>1, <2>1
<1>11. CASE StopOnExit(t) \/ StopReplaced(t)
  <2>1. Moves("kill")
    BY <1>11 DEF StopOnExit, StopReplaced
  <2> QED BY <1>1, <2>1
<1>12. CASE StillRunning(t)
  <2>1. Moves("drain")
    BY <1>12 DEF StillRunning
  <2> QED BY <1>1, <2>1
<1>13. CASE DrainedRunning(t)
  <2>1. Moves("killMarked") \/ Moves("kill") \/ Moves("run")
    BY <1>13 DEF DrainedRunning
  <2> QED BY <1>1, <2>1
<1>14. CASE Killed(t)
  <2>1. Moves("after") \/ Moves("done")
    BY <1>0, <1>14 DEF Killed, TypeOK
  <2> QED BY <1>1, <2>1
<1>15. CASE After(t)
  <2>1. Moves("done") \/ Moves("top")
    BY <1>2, <1>15 DEF After
  <2> QED BY <1>1, <2>1
<1> QED
  BY <1>3, <1>4, <1>5, <1>6, <1>7, <1>8, <1>9, <1>10, <1>11, <1>12, <1>13, <1>14,
     <1>15 DEF HostStep

\* A step that leaves the tasks, the map and the monitor's plan alone.
LEMMA InvFrame ==
  ASSUME TaskInv,
         UNCHANGED <<pc, ident, child, owner, marked, halted, gen, rpc, modified>>
  PROVE  TaskInv'
  BY DEF TaskInv, LiveTaskIsMapped, AliveIsHosted, LiveIsNewest, PassOrder, OutgoingLeave,
         HaltedIsQuiet, Live, Alive, Id

LEMMA InvWorldStep ==
  ASSUME TypeOK, TaskInv, UNCHANGED reloadVars,
         \/ Command
         \/ \E s \in Sites : RequestWakes(s) \/ TuiToggle(s)
         \/ TuiStopAll \/ TuiStartAll
         \/ \E t \in Tasks : ChildExits(t)
         \/ Janitor \/ RequestExit \/ Halt
  PROVE  TaskInv'
<1>0. TypeOK /\ TaskInv /\ UNCHANGED reloadVars
  OBVIOUS
<1> USE DEF reloadVars, planVars, taskVars, mapVars
<1>1. CASE \/ Command
           \/ \E s \in Sites : RequestWakes(s) \/ TuiToggle(s)
           \/ TuiStopAll \/ TuiStartAll \/ RequestExit
  BY <1>0, <1>1, InvFrame
     DEF Command, RequestWakes, TuiToggle, TuiStopAll, TuiStartAll, RequestExit
<1>2. ASSUME NEW t \in Tasks, ChildExits(t) PROVE TaskInv'
  <2>1. \A u \in Tasks : Alive(u)' => Alive(u)
    BY <1>0, <1>2 DEF ChildExits, Alive, TypeOK
  <2> QED
    BY <1>0, <1>2, <2>1
       DEF ChildExits, TaskInv, LiveTaskIsMapped, AliveIsHosted, LiveIsNewest, PassOrder,
           OutgoingLeave, HaltedIsQuiet, Live, Id
<1>3. CASE Janitor
  <2>1. \A t \in Tasks : Live(t) => owner[Id(t)] = t /\ Id(t) \in Ids
    BY <1>0 DEF TaskInv, LiveTaskIsMapped, TypeOK, Id, Ids, Tasks
  <2>2. \A t \in Tasks : Live(t) => ~Stale(Id(t))
    BY <2>1 DEF Stale
  <2>3. \A t \in Tasks : Live(t) => owner'[Id(t)] = t /\ marked'[Id(t)] = marked[Id(t)]
    BY <1>0, <1>3, <2>1, <2>2 DEF Janitor, TypeOK
  <2> QED
    BY <1>0, <1>3, <2>3, SMTT(30)
       DEF Janitor, TaskInv, LiveTaskIsMapped, AliveIsHosted, LiveIsNewest, PassOrder,
           OutgoingLeave, HaltedIsQuiet, Live, Alive, Id
<1>4. CASE Halt
  <2>1. \A t \in Tasks : ~Live(t)
    <3>1. SUFFICES ASSUME NEW t \in Tasks, Live(t), \A i \in Ids : ~Registered(i)
                   PROVE  FALSE
      BY <1>4 DEF Halt
    <3>2. owner[Id(t)] = t /\ Id(t) \in Ids
      BY <1>0, <3>1 DEF TaskInv, LiveTaskIsMapped, TypeOK, Id, Ids, Tasks
    <3>3. None \notin Tasks
      BY HostAssumption DEF HostAssumption, Tasks, Gens
    <3> QED BY <3>1, <3>2, <3>3 DEF Registered
  <2> QED
    BY <1>0, <1>4, <2>1
       DEF Halt, TaskInv, LiveTaskIsMapped, AliveIsHosted, LiveIsNewest, PassOrder,
           OutgoingLeave, HaltedIsQuiet, Live, Alive, Id
<1> QED BY <1>0, <1>1, <1>2, <1>3, <1>4

\* New hosts start where no task of the site is left, as its newest generation.
LEMMA InvStartHosts ==
  ASSUME TypeOK, TaskInv, ~halted, rpc = "spawn", NEW S \in SUBSET modified,
         StartHosts(S), rpc' \in {"swap", "idle"},
         UNCHANGED <<child, halted, gen, modified>>
  PROVE  TaskInv'
<1> DEFINE New == {<<s, gen>> : s \in S}
<1>0. TypeOK /\ TaskInv /\ gen \in Gens /\ gen \in Nat /\ S \subseteq Sites
  BY DEF TypeOK, Gens
<1>1. \A t \in Tasks : Site(t) \in S => ~Live(t)
  BY DEF TaskInv, OutgoingLeave
<1>2. \A t \in Tasks : t \in New <=> Site(t) \in S /\ t[2] = gen
  BY DEF Site, Tasks
<1>3. /\ pc' = [t \in Tasks |-> IF t \in New THEN "top" ELSE pc[t]]
      /\ ident' = [t \in Tasks |-> IF t \in New THEN nextIds[Site(t)] ELSE ident[t]]
      /\ owner' = [i \in Ids |-> IF i \in {<<s, nextIds[s]>> : s \in S}
                                 THEN <<i[1], gen>> ELSE owner[i]]
  BY DEF StartHosts, SpawnHosts
<1>4. \A t \in Tasks : pc[t] # "unborn" => t[2] < gen
  BY DEF TaskInv, PassOrder
<1>5. \A t \in Tasks : t \notin New => /\ Live(t)' <=> Live(t)
                                       /\ pc'[t] = pc[t]
                                       /\ Id(t)' = Id(t)
  BY <1>3 DEF Live, Id
<1>6. LiveTaskIsMapped'
  <2>1. SUFFICES ASSUME NEW t \in Tasks, Live(t)' PROVE owner'[Id(t)'] = t
    BY DEF LiveTaskIsMapped
  <2>2. CASE t \in New
    <3>1. Id(t)' = <<Site(t), nextIds[Site(t)]>> /\ Site(t) \in S
      BY <1>2, <1>3, <2>2 DEF Id, Site
    <3>2. Id(t)' \in Ids
      BY <1>0, <3>1 DEF Ids, TypeOK
    <3>3. owner'[Id(t)'] = <<Site(t), gen>>
      BY <1>3, <3>1, <3>2
    <3> QED BY <1>2, <2>2, <3>3 DEF Site, Tasks
  <2>3. CASE t \notin New
    <3>1. Live(t) /\ Id(t)' = Id(t) /\ Site(t) \notin S /\ Id(t) \in Ids
      BY <1>0, <1>1, <1>5, <2>1, <2>3 DEF Id, Ids, Tasks, TypeOK
    <3>2. owner'[Id(t)] = owner[Id(t)]
      BY <1>3, <3>1 DEF Id, Site
    <3> QED BY <1>0, <3>1, <3>2 DEF TaskInv, LiveTaskIsMapped
  <2> QED BY <2>2, <2>3
<1>7. AliveIsHosted'
  <2>1. \A t \in Tasks : t \in New => ~Alive(t)
    BY <1>0, <1>1, <1>2 DEF TaskInv, AliveIsHosted, Live
  <2> QED BY <1>0, <1>5, <2>1 DEF TaskInv, AliveIsHosted, Alive
<1>8. LiveIsNewest'
  <2>1. SUFFICES ASSUME NEW t \in Tasks, NEW u \in Tasks, Live(t)', pc'[u] # "unborn",
                        Site(t) = Site(u)
                 PROVE  u[2] <= t[2]
    BY DEF LiveIsNewest, Site
  <2>2. CASE t \in New
    BY <1>0, <1>2, <1>3, <1>4, <2>1, <2>2 DEF Tasks, Gens
  <2>3. CASE t \notin New
    <3>1. Live(t) /\ u \notin New
      BY <1>1, <1>2, <1>5, <2>1, <2>3
    <3> QED BY <1>0, <1>5, <2>1, <3>1 DEF TaskInv, LiveIsNewest
  <2> QED BY <2>2, <2>3
<1>9. PassOrder'
  BY <1>0, <1>2, <1>3, <1>4 DEF PassOrder, Tasks, Gens
<1>10. OutgoingLeave'
  BY DEF OutgoingLeave
<1>11. HaltedIsQuiet'
  BY DEF HaltedIsQuiet
<1> QED BY <1>6, <1>7, <1>8, <1>9, <1>10, <1>11 DEF TaskInv

LEMMA InvReloadStep ==
  ASSUME TypeOK, TaskInv, ~halted, EditFile \/ (\E s \in Sites : ApiDelete(s)) \/ Monitor
  PROVE  TaskInv'
<1>0. TypeOK /\ TaskInv /\ ~halted
  OBVIOUS
<1> USE DEF hostVars, diskVars, planVars, taskVars, chanVars, mapVars
<1>1. CASE EditFile \/ \E s \in Sites : ApiDelete(s)
  BY <1>0, <1>1, InvFrame DEF EditFile, ApiDelete
<1>2. CASE TakeEvent \/ NothingToDo \/ PlanFails
  BY <1>0, <1>2
     DEF TakeEvent, NothingToDo, PlanFails, TaskInv, LiveTaskIsMapped, AliveIsHosted,
         LiveIsNewest, PassOrder, OutgoingLeave, HaltedIsQuiet, Live, Alive, Id
<1>3. CASE Plan
  <2>1. \A t \in Tasks : pc[t] # "unborn" => t[2] < gen'
    BY <1>0, <1>3 DEF Plan, TaskInv, PassOrder, Tasks, Gens, TypeOK
  <2> QED
    BY <1>0, <1>3, <2>1
       DEF Plan, TaskInv, LiveTaskIsMapped, AliveIsHosted, LiveIsNewest, PassOrder,
           OutgoingLeave, HaltedIsQuiet, Live, Alive, Id, Tasks, Gens, TypeOK
<1>4. CASE Mark
  <2>1. \A t \in Tasks : Live(t) /\ Site(t) \in modified => marked'[Id(t)]
    <3>1. SUFFICES ASSUME NEW t \in Tasks, Live(t), Site(t) \in modified
                   PROVE  marked'[Id(t)]
      OBVIOUS
    <3>2. owner[Id(t)] = t /\ Id(t) \in Ids /\ Id(t)[1] = Site(t)
      BY <1>0, <3>1 DEF TaskInv, LiveTaskIsMapped, TypeOK, Id, Ids, Tasks, Site
    <3>3. None \notin Tasks
      BY HostAssumption DEF HostAssumption, Tasks, Gens
    <3>4. Outgoing(Id(t))
      BY <3>1, <3>2, <3>3 DEF Outgoing, Registered
    <3> QED BY <1>4, <3>2, <3>4 DEF Mark
  <2> QED
    BY <1>0, <1>4, <2>1
       DEF Mark, TaskInv, LiveTaskIsMapped, AliveIsHosted, LiveIsNewest, PassOrder,
           OutgoingLeave, HaltedIsQuiet, Live, Alive, Id, Site
<1>5. CASE Await
  <2>1. \A t \in Tasks : Site(t) \in modified => ~Live(t)
    <3>1. SUFFICES ASSUME NEW t \in Tasks, Live(t), Site(t) \in modified
                   PROVE  FALSE
      OBVIOUS
    <3>2. owner[Id(t)] = t /\ Id(t) \in Ids /\ marked[Id(t)]
      BY <1>0, <1>5, <3>1
         DEF Await, TaskInv, LiveTaskIsMapped, OutgoingLeave, TypeOK, Id, Ids, Tasks
    <3>3. None \notin Tasks
      BY HostAssumption DEF HostAssumption, Tasks, Gens
    <3> QED BY <1>5, <3>2, <3>3 DEF Await, Registered
  <2> QED
    BY <1>0, <1>5, <2>1
       DEF Await, TaskInv, LiveTaskIsMapped, AliveIsHosted, LiveIsNewest, PassOrder,
           OutgoingLeave, HaltedIsQuiet, Live, Alive, Id
<1>6. CASE SpawnAll
  BY <1>0, <1>6, InvStartHosts DEF SpawnAll
<1>7. CASE SpawnFewer
  BY <1>0, <1>7, InvStartHosts DEF SpawnFewer
<1>8. CASE Swap
  BY <1>0, <1>8
     DEF Swap, TaskInv, LiveTaskIsMapped, AliveIsHosted, LiveIsNewest, PassOrder,
         OutgoingLeave, HaltedIsQuiet, Live, Alive, Id
<1> QED BY <1>1, <1>2, <1>3, <1>4, <1>5, <1>6, <1>7, <1>8 DEF Monitor

LEMMA InvStep == TypeOK /\ TaskInv /\ [Next]_vars => TaskInv'
<1> SUFFICES ASSUME TypeOK, TaskInv, [Next]_vars PROVE TaskInv'
  OBVIOUS
<1>0. TypeOK /\ TaskInv
  OBVIOUS
<1>1. CASE HostNext /\ UNCHANGED reloadVars
  BY <1>0, <1>1, InvHostStep, InvWorldStep DEF HostNext
<1>2. CASE ~halted /\ (EditFile \/ (\E s \in Sites : ApiDelete(s)) \/ Monitor)
  BY <1>0, <1>2, InvReloadStep
<1>3. CASE UNCHANGED vars
  BY <1>0, <1>3, InvFrame DEF vars, hostVars, reloadVars, taskVars, mapVars, planVars
<1> QED BY <1>1, <1>2, <1>3 DEF Next, Terminated

LEMMA InvCorrect == Spec => [](TypeOK /\ TaskInv)
<1>1. Init => TypeOK /\ TaskInv
  BY TypeInit, InvInit
<1>2. TypeOK /\ TaskInv /\ [Next]_vars => (TypeOK /\ TaskInv)'
  BY TypeStep, InvStep
<1> QED BY <1>1, <1>2, PTL DEF Spec

-----------------------------------------------------------------------------
(***************************************************************************)
(* The safety properties.                                                  *)
(***************************************************************************)

\* The branch that calls a missing PROC_THREAD_MAP entry a bug in odd-box is dead.
THEOREM MappedCorrect == Spec => []LiveTaskIsMapped
<1>1. TypeOK /\ TaskInv => LiveTaskIsMapped
  BY DEF TaskInv
<1> QED BY <1>1, InvCorrect, PTL

\* Two live tasks of a site are the same one.
LEMMA OneLiveTaskPerSite ==
  ASSUME TypeOK, TaskInv, NEW t \in Tasks, NEW u \in Tasks,
         Live(t), Live(u), Site(t) = Site(u)
  PROVE  t = u
<1>1. u[2] <= t[2] /\ t[2] <= u[2]
  BY DEF TaskInv, LiveIsNewest, Live
<1> QED BY <1>1, HostAssumption DEF Tasks, Gens, Site, HostAssumption

\* A process is the process of a live task.
LEMMA AliveIsLive ==
  ASSUME TaskInv, NEW t \in Tasks, Alive(t)
  PROVE  Live(t)
  BY DEF TaskInv, AliveIsHosted, Live

\* However many reloads, commands and crashes: never two processes for one site.
THEOREM OneProcessCorrect == Spec => []OneProcessPerSite
<1>1. TypeOK /\ TaskInv => OneProcessPerSite
  BY OneLiveTaskPerSite, AliveIsLive DEF OneProcessPerSite
<1> QED BY <1>1, InvCorrect, PTL

\* No hosted process survives odd-box when main returns.
THEOREM NoOrphanCorrect == Spec => []NoOrphan
<1>1. TypeOK /\ TaskInv => NoOrphan
  BY AliveIsLive DEF NoOrphan, TaskInv, HaltedIsQuiet
<1> QED BY <1>1, InvCorrect, PTL

-----------------------------------------------------------------------------
(***************************************************************************)
(* The supervisor and hot-reload implement SiteSupervisor.                 *)
(***************************************************************************)
procBar  == [s \in Sites |-> {k \in Gens : Alive(<<s, k>>)}]
takenBar == [s \in Sites |-> {k \in Gens : pc[<<s, k>>] # "unborn"}]

LEMMA TaskPair ==
  /\ \A s \in Sites, k \in Gens : <<s, k>> \in Tasks /\ Site(<<s, k>>) = s
  /\ \A t \in Tasks : Site(t) \in Sites /\ t[2] \in Gens /\ t = <<Site(t), t[2]>>
  BY DEF Tasks, Site

LEMMA RefineInit == Init => Supervisor!AbsInit
<1> SUFFICES ASSUME Init PROVE Supervisor!AbsInit
  OBVIOUS
<1>1. procBar = [s \in Sites |-> {}]
  BY TaskPair DEF Init, HostInit, Alive, procBar
<1>2. takenBar \in [Sites -> {{}, {0}}]
  <2>1. \A s \in Sites, k \in Gens : pc[<<s, k>>] # "unborn" => k = 0
    BY TaskPair DEF Init, HostInit
  <2>2. \A s \in Sites : {k \in Gens : pc[<<s, k>>] # "unborn"} \in {{}, {0}}
    BY <2>1
  <2> QED BY <2>2 DEF takenBar
<1>3. halted = FALSE
  BY DEF Init, HostInit
<1> QED BY <1>1, <1>2, <1>3 DEF Supervisor!AbsInit, procBar, takenBar

\* A step that starts, ends and unveils nothing is a stutter.
LEMMA RefineStutter ==
  ASSUME \A t \in Tasks : /\ Alive(t)' <=> Alive(t)
                          /\ pc'[t] # "unborn" <=> pc[t] # "unborn",
         UNCHANGED halted
  PROVE  UNCHANGED Supervisor!absVars
<1>1. procBar' = procBar
  BY TaskPair DEF procBar
<1>2. takenBar' = takenBar
  BY TaskPair DEF takenBar
<1> QED BY <1>1, <1>2 DEF Supervisor!absVars, procBar, takenBar

\* The end of a process, for whatever reason, is End.
LEMMA RefineEnd ==
  ASSUME TypeOK, TaskInv, ~halted, NEW t \in Tasks, child' = [child EXCEPT ![t] = "none"],
         \A u \in Tasks : pc'[u] # "unborn" <=> pc[u] # "unborn",
         UNCHANGED halted
  PROVE  [Supervisor!AbsNext]_(Supervisor!absVars)
<1>0. TypeOK /\ TaskInv /\ Site(t) \in Sites
  BY TaskPair
<1>1. \A u \in Tasks : Alive(u)' <=> Alive(u) /\ u # t
  BY <1>0 DEF Alive, TypeOK
<1>2. CASE ~Alive(t)
  BY <1>1, <1>2, RefineStutter
<1>3. CASE Alive(t)
  <2>1. takenBar' = takenBar
    BY TaskPair DEF takenBar
  <2>2. \A u \in Tasks : Alive(u) /\ Site(u) = Site(t) => u = t
    BY <1>0, <1>3, AliveIsLive, OneLiveTaskPerSite
  <2>3. procBar' = [procBar EXCEPT ![Site(t)] = {}]
    <3>1. \A s \in Sites : s # Site(t) =>
            {k \in Gens : Alive(<<s, k>>)'} = {k \in Gens : Alive(<<s, k>>)}
      BY <1>1, TaskPair
    <3>2. {k \in Gens : Alive(<<Site(t), k>>)'} = {}
      BY <1>0, <1>1, <2>2, TaskPair
    <3> QED BY <3>1, <3>2 DEF procBar
  <2>4. procBar[Site(t)] # {}
    BY <1>0, <1>3, TaskPair DEF procBar
  <2>5. Supervisor!End(Site(t))
    BY <2>1, <2>3, <2>4 DEF Supervisor!End, procBar, takenBar
  <2> QED BY <1>0, <2>5 DEF Supervisor!AbsNext
<1> QED BY <1>2, <1>3

LEMMA RefineHostStep ==
  ASSUME TypeOK, TaskInv, ~halted, NEW t \in Tasks, HostStep(t)
  PROVE  [Supervisor!AbsNext]_(Supervisor!absVars)
<1>0. TypeOK /\ TaskInv /\ ~halted
  OBVIOUS
<1> USE DEF taskVars, Goto
<1>1. /\ \A u \in Tasks : pc'[u] # "unborn" <=> pc[u] # "unborn"
      /\ halted' = halted
  <2>1. /\ pc[t] # "unborn" /\ halted' = halted
        /\ \/ pc' = pc
           \/ \E p \in Points \ {"unborn"} : pc' = [pc EXCEPT ![t] = p]
    <3> USE DEF Points
    <3>1. CASE Receive(t)
      BY <3>1 DEF Receive, OuterDrain
    <3>2. CASE Top(t) \/ Check(t) \/ DrainedIdle(t)
      BY <3>2 DEF Top, Check, IdlePoint, DrainedIdle, OuterDrain
    <3>3. CASE NoPort(t) \/ NoBinary(t) \/ Prepare(t) \/ Spawn(t) \/ SpawnFails(t)
      BY <3>3 DEF NoPort, NoBinary, Prepare, Spawn, SpawnFails
    <3>4. CASE ChildGone(t) \/ StopOnExit(t) \/ StopReplaced(t) \/ StillRunning(t)
      BY <3>4 DEF ChildGone, StopOnExit, StopReplaced, StillRunning
    <3>5. CASE DrainedRunning(t) \/ Killed(t) \/ After(t)
      BY <3>5 DEF DrainedRunning, Killed, After
    <3> QED BY <3>1, <3>2, <3>3, <3>4, <3>5 DEF HostStep
  <2> QED BY <1>0, <2>1 DEF TypeOK
<1>2. CASE Spawn(t)
  <2>1. Site(t) \in Sites /\ t[2] \in Gens /\ Live(t)
    BY <1>2, TaskPair DEF Spawn, Live
  <2>2. \A u \in Tasks : Alive(u)' <=> Alive(u) \/ u = t
    BY <1>0, <1>2 DEF Spawn, Alive, TypeOK
  <2>3. \A u \in Tasks : Site(u) = Site(t) => ~Alive(u)
    <3>1. ~Alive(t)
      BY <1>0, <1>2 DEF Spawn, TaskInv, AliveIsHosted
    <3> QED BY <1>0, <2>1, <3>1, AliveIsLive, OneLiveTaskPerSite
  <2>4. procBar[Site(t)] = {}
    BY <2>1, <2>3, TaskPair DEF procBar
  <2>5. procBar' = [procBar EXCEPT ![Site(t)] = {t[2]}]
    <3>1. \A s \in Sites : s # Site(t) =>
            {k \in Gens : Alive(<<s, k>>)'} = {k \in Gens : Alive(<<s, k>>)}
      BY <2>2, TaskPair
    <3>2. {k \in Gens : Alive(<<Site(t), k>>)'} = {t[2]}
      BY <2>1, <2>2, <2>3, TaskPair
    <3> QED BY <3>1, <3>2 DEF procBar
  <2>6. takenBar' = takenBar
    BY <1>1, TaskPair DEF takenBar
  <2>7. Supervisor!Newest(Site(t), t[2])
    <3>1. t[2] \in takenBar[Site(t)]
      BY <2>1, TaskPair DEF takenBar, Live
    <3>2. \A j \in takenBar[Site(t)] : j <= t[2]
      BY <1>0, <2>1, TaskPair DEF takenBar, TaskInv, LiveIsNewest
    <3> QED BY <3>1, <3>2 DEF Supervisor!Newest, takenBar
  <2>8. Supervisor!Launch(Site(t), t[2])
    BY <1>1, <2>4, <2>5, <2>6, <2>7 DEF Supervisor!Launch, procBar, takenBar
  <2> QED BY <1>0, <2>1, <2>8 DEF Supervisor!AbsNext
<1>3. CASE Killed(t)
  BY <1>0, <1>1, <1>3, RefineEnd DEF Killed
<1>4. CASE ~Spawn(t) /\ ~Killed(t)
  <2>1. child' = child
    BY <1>4 DEF HostStep, Top, Check, Receive, DrainedIdle, NoPort, NoBinary, Prepare,
                SpawnFails, ChildGone, StopOnExit, StopReplaced, StillRunning,
                DrainedRunning, After
  <2> QED BY <1>1, <2>1, RefineStutter DEF Alive
<1> QED BY <1>2, <1>3, <1>4

LEMMA RefineStartHosts ==
  ASSUME TypeOK, TaskInv, ~halted, rpc = "spawn", NEW S \in SUBSET modified,
         StartHosts(S), UNCHANGED <<child, halted>>
  PROVE  [Supervisor!AbsNext]_(Supervisor!absVars)
<1>0. /\ TypeOK /\ TaskInv /\ ~halted
      /\ gen \in Gens /\ gen \in Nat /\ S \in SUBSET Sites
  BY DEF TypeOK, Gens
<1>1. procBar' = procBar
  BY DEF procBar, Alive
<1>2. \A t \in Tasks : pc'[t] # "unborn" <=> pc[t] # "unborn" \/ (Site(t) \in S /\ t[2] = gen)
  BY DEF StartHosts, SpawnHosts, Tasks, Site
<1>3. takenBar' = [s \in Sites |-> IF s \in S THEN takenBar[s] \cup {gen} ELSE takenBar[s]]
  <2>1. \A s \in Sites : s \in S =>
          {k \in Gens : pc'[<<s, k>>] # "unborn"}
            = {k \in Gens : pc[<<s, k>>] # "unborn"} \cup {gen}
    BY <1>0, <1>2, TaskPair
  <2>2. \A s \in Sites : s \notin S =>
          {k \in Gens : pc'[<<s, k>>] # "unborn"} = {k \in Gens : pc[<<s, k>>] # "unborn"}
    BY <1>2, TaskPair
  <2> QED BY <2>1, <2>2 DEF takenBar
<1>4. \A s \in S : procBar[s] = {}
  <2>1. \A t \in Tasks : Site(t) \in S => ~Alive(t)
    BY <1>0, AliveIsLive DEF TaskInv, OutgoingLeave
  <2> QED BY <1>0, <2>1, TaskPair DEF procBar
<1>5. \A s \in S : \A j \in takenBar[s] : j < gen
  BY <1>0, TaskPair DEF takenBar, TaskInv, PassOrder
<1>6. PICK k \in Gens : k = gen
  BY <1>0
<1>7. Supervisor!TakeOver(S, k)
  BY <1>1, <1>3, <1>4, <1>5, <1>6 DEF Supervisor!TakeOver, procBar, takenBar
<1> QED BY <1>0, <1>7 DEF Supervisor!AbsNext

LEMMA RefineStep ==
  ASSUME TypeOK, TaskInv, [Next]_vars
  PROVE  [Supervisor!AbsNext]_(Supervisor!absVars)
<1>0. TypeOK /\ TaskInv
  OBVIOUS
<1> USE DEF hostVars, taskVars
<1>1. CASE ~halted /\ \E t \in Tasks : HostStep(t)
  BY <1>0, <1>1, RefineHostStep
<1>2. CASE ~halted /\ \E t \in Tasks : ChildExits(t)
  BY <1>0, <1>2, RefineEnd DEF ChildExits
<1>3. CASE ~halted /\ Halt
  <2>1. \A t \in Tasks : ~Live(t)
    <3>1. SUFFICES ASSUME NEW t \in Tasks, Live(t), \A i \in Ids : ~Registered(i)
                   PROVE  FALSE
      BY <1>3 DEF Halt
    <3>2. owner[Id(t)] = t /\ Id(t) \in Ids
      BY <1>0, <3>1 DEF TaskInv, LiveTaskIsMapped, TypeOK, Id, Ids, Tasks
    <3>3. None \notin Tasks
      BY HostAssumption DEF HostAssumption, Tasks, Gens
    <3> QED BY <3>1, <3>2, <3>3 DEF Registered
  <2>2. \A s \in Sites : procBar[s] = {}
    BY <1>0, <2>1, AliveIsLive, TaskPair DEF procBar
  <2>3. halted' = TRUE /\ procBar' = procBar /\ takenBar' = takenBar
    BY <1>3 DEF Halt, procBar, takenBar, Alive
  <2>4. Supervisor!GoDown
    BY <2>2, <2>3 DEF Supervisor!GoDown, procBar, takenBar
  <2> QED BY <1>3, <2>4 DEF Supervisor!AbsNext
<1>4. CASE SpawnAll /\ ~halted
  BY <1>0, <1>4, RefineStartHosts DEF SpawnAll
<1>5. CASE SpawnFewer /\ ~halted
  BY <1>0, <1>5, RefineStartHosts DEF SpawnFewer
<1>6. CASE UNCHANGED <<pc, child, halted>>
  BY <1>6, RefineStutter DEF Alive
<1>7. CASE \/ Command
           \/ \E s \in Sites : RequestWakes(s) \/ TuiToggle(s)
           \/ TuiStopAll \/ TuiStartAll \/ Janitor \/ RequestExit
  BY <1>6, <1>7 DEF Command, RequestWakes, TuiToggle, TuiStopAll, TuiStartAll, Janitor,
                    RequestExit
<1>8. CASE \/ EditFile \/ \E s \in Sites : ApiDelete(s)
           \/ TakeEvent \/ NothingToDo \/ Plan \/ PlanFails \/ Mark \/ Await \/ Swap
  BY <1>6, <1>8 DEF EditFile, ApiDelete, TakeEvent, NothingToDo, Plan, PlanFails, Mark,
                    Await, Swap
<1>9. CASE UNCHANGED vars
  BY <1>6, <1>9 DEF vars
<1> QED
  BY <1>1, <1>2, <1>3, <1>4, <1>5, <1>7, <1>8, <1>9
     DEF Next, HostNext, Monitor, Terminated

\* Every behaviour of the tasks, map, channel and monitor is one of the abstract
\* supervisor: launches only by the newest generation and only on an empty site,
\* hand-over only of an empty site, nothing left when odd-box is down.
THEOREM SupervisorImplemented == Spec => ImplementsSupervisor
<1>1. Init => Supervisor!AbsInit
  BY RefineInit
<1>2. TypeOK /\ TaskInv /\ [Next]_vars => [Supervisor!AbsNext]_(Supervisor!absVars)
  BY RefineStep
<1> QED BY <1>1, <1>2, InvCorrect, PTL DEF Spec, ImplementsSupervisor, Supervisor!AbsSpec

-----------------------------------------------------------------------------
(***************************************************************************)
(* What runs is what is configured and what the status map says.           *)
(***************************************************************************)
LEMMA NoneIsNoTask == None \notin Tasks
  BY HostAssumption DEF HostAssumption, Tasks, Gens

LEMMA NoneIsNoStatus == None \notin Statuses
  BY HostAssumption DEF HostAssumption

\* A live task has its entry, and an entry of its own site.
LEMMA LiveIsRegistered ==
  ASSUME TypeOK, TaskInv, NEW t \in Tasks, Live(t)
  PROVE  /\ Id(t) \in Ids /\ Id(t)[1] = Site(t)
         /\ owner[Id(t)] = t /\ Registered(Id(t))
  BY NoneIsNoTask DEF TaskInv, LiveTaskIsMapped, TypeOK, Id, Ids, Tasks, Site, Registered

\* New hosts start where no live task is.
LEMMA NewHostsAreNew ==
  ASSUME TypeOK, TaskInv, rpc = "spawn", NEW S \in SUBSET modified, StartHosts(S)
  PROVE  /\ \A t \in Tasks : Site(t) \in S => ~Live(t)
         /\ \A t \in Tasks :
              LET new == Site(t) \in S /\ t[2] = gen
              IN /\ pc'[t] = IF new THEN "top" ELSE pc[t]
                 /\ ident'[t] = IF new THEN nextIds[Site(t)] ELSE ident[t]
                 /\ conf'[t] = IF new THEN next[Site(t)] ELSE conf[t]
         /\ \A i \in Ids :
              LET new == i[1] \in S /\ i[2] = nextIds[i[1]]
              IN /\ owner'[i] = IF new THEN <<i[1], gen>> ELSE owner[i]
                 /\ marked'[i] = (marked[i] /\ ~new)
         /\ \A s \in S : <<s, gen>> \in Tasks
<1>1. \A t \in Tasks : Site(t) \in S => ~Live(t)
  BY DEF TaskInv, OutgoingLeave
<1>2. \A t \in Tasks : /\ t \in {<<s, gen>> : s \in S} <=> Site(t) \in S /\ t[2] = gen
                       /\ t \in S \X {gen} <=> Site(t) \in S /\ t[2] = gen
  BY DEF Site, Tasks
<1>3. \A i \in Ids : i \in {<<s, nextIds[s]>> : s \in S} <=> i[1] \in S /\ i[2] = nextIds[i[1]]
  BY DEF Ids
<1>4. S \subseteq Sites /\ gen \in Gens
  BY DEF TypeOK
<1> QED BY <1>1, <1>2, <1>3, <1>4 DEF StartHosts, SpawnHosts, Tasks

-----------------------------------------------------------------------------
(***************************************************************************)
(* Running.                                                                *)
(***************************************************************************)

\* A step of task t that ends at p keeps the property when it says Running only
\* at p in the inner loop, and says something else when it leaves it.
LEMMA RunningMoves ==
  ASSUME TypeOK, RunningIsHosted, NEW t \in Tasks, NEW p \in Points, Goto(t, p),
         \/ /\ p \in {"run", "drain"}
            /\ UNCHANGED status \/ SetStatus(Site(t), "Running")
         \/ /\ pc[t] \notin {"run", "drain"} /\ UNCHANGED status
         \/ \E v \in {"Stopped", "Starting", "Stopping", "Faulty", None} :
              SetStatus(Site(t), v)
  PROVE  RunningIsHosted'
<1>0. Site(t) \in Sites
  BY DEF Tasks, Site
<1>1. None # "Running"
  BY NoneIsNoStatus DEF Statuses
<1> SUFFICES ASSUME NEW s \in Sites, status'[s] = "Running"
             PROVE  \E u \in Tasks : Site(u) = s /\ pc'[u] \in {"run", "drain"}
  BY DEF RunningIsHosted, Site
<1>2. \A u \in Tasks : pc'[u] = IF u = t THEN p ELSE pc[u]
  BY DEF Goto, TypeOK
<1>3. CASE p \in {"run", "drain"} /\ s = Site(t)
  BY <1>2, <1>3
<1>4. CASE s # Site(t)
  <2>1. status[s] = "Running"
    BY <1>0, <1>4 DEF SetStatus, TypeOK
  <2>2. PICK u \in Tasks : Site(u) = s /\ pc[u] \in {"run", "drain"}
    BY <2>1 DEF RunningIsHosted
  <2> QED BY <1>2, <1>4, <2>2
<1>5. CASE s = Site(t) /\ p \notin {"run", "drain"}
  <2>1. CASE pc[t] \notin {"run", "drain"} /\ UNCHANGED status
    <3>1. PICK u \in Tasks : Site(u) = s /\ pc[u] \in {"run", "drain"}
      BY <2>1 DEF RunningIsHosted
    <3> QED BY <1>2, <2>1, <3>1
  <2>2. CASE \E v \in {"Stopped", "Starting", "Stopping", "Faulty", None} :
               SetStatus(Site(t), v)
    BY <1>0, <1>1, <1>5, <2>2 DEF SetStatus, TypeOK
  <2> QED BY <1>5, <2>1, <2>2
<1> QED BY <1>3, <1>4, <1>5

LEMMA RunningHostStep ==
  ASSUME TypeOK, RunningIsHosted, NEW t \in Tasks, HostStep(t)
  PROVE  RunningIsHosted'
<1>0. TypeOK /\ RunningIsHosted
  OBVIOUS
<1> DEFINE Moves(p) ==
      /\ Goto(t, p)
      /\ \/ /\ p \in {"run", "drain"}
            /\ UNCHANGED status \/ SetStatus(Site(t), "Running")
         \/ /\ pc[t] \notin {"run", "drain"} /\ UNCHANGED status
         \/ \E v \in {"Stopped", "Starting", "Stopping", "Faulty", None} :
              SetStatus(Site(t), v)
<1>1. ASSUME NEW p \in Points, Moves(p) PROVE RunningIsHosted'
  BY <1>0, <1>1, RunningMoves
<1> USE DEF Points
<1>2. CASE Top(t)
  <2>1. Moves("done") \/ Moves("check")
    BY <1>2 DEF Top
  <2> QED BY <1>1, <2>1
<1>3. CASE Check(t)
  <2>1. Moves("done") \/ Moves("idleOn") \/ Moves("idleOff")
    BY <1>3 DEF Check, IdlePoint
  <2> QED BY <1>1, <2>1
<1>4. CASE Receive(t)
  BY <1>0, <1>4 DEF Receive, RunningIsHosted
<1>5. CASE DrainedIdle(t)
  <2>1. Moves("launch") \/ Moves("top")
    BY <1>5 DEF DrainedIdle, OuterDrain
  <2> QED BY <1>1, <2>1
<1>6. CASE NoPort(t) \/ NoBinary(t)
  <2>1. Moves("top")
    BY <1>6 DEF NoPort, NoBinary
  <2> QED BY <1>1, <2>1
<1>7. CASE Prepare(t)
  <2>1. Moves("spawn")
    BY <1>7 DEF Prepare
  <2> QED BY <1>1, <2>1
<1>8. CASE Spawn(t)
  <2>1. Moves("run")
    BY <1>8 DEF Spawn
  <2> QED BY <1>1, <2>1
<1>9. CASE SpawnFails(t) \/ ChildGone(t)
  <2>1. Moves("after")
    BY <1>9 DEF SpawnFails, ChildGone
  <2> QED BY <1>1, <2>1
<1>10. CASE StopOnExit(t) \/ StopReplaced(t)
  <2>1. Moves("kill")
    BY <1>10 DEF StopOnExit, StopReplaced
  <2> QED BY <1>1, <2>1
<1>11. CASE StillRunning(t)
  <2>1. Moves("drain")
    BY <1>11 DEF StillRunning
  <2> QED BY <1>1, <2>1
<1>12. CASE DrainedRunning(t)
  <2>1. Moves("killMarked") \/ Moves("kill") \/ Moves("run")
    BY <1>12 DEF DrainedRunning
  <2> QED BY <1>1, <2>1
<1>13. CASE Killed(t)
  <2>1. Moves("after") \/ Moves("done")
    BY <1>13 DEF Killed
  <2> QED BY <1>1, <2>1
<1>14. CASE After(t)
  <2>1. Moves("done") \/ Moves("top")
    BY <1>14 DEF After
  <2> QED BY <1>1, <2>1
<1> QED
  BY <1>2, <1>3, <1>4, <1>5, <1>6, <1>7, <1>8, <1>9, <1>10, <1>11, <1>12, <1>13,
     <1>14 DEF HostStep

\* Others than the task itself never write Running, and move no task out of its
\* inner loop.
LEMMA RunningFrame ==
  ASSUME RunningIsHosted,
         \A s \in Sites : status'[s] = "Running" => status[s] = "Running",
         \A t \in Tasks : pc[t] \in {"run", "drain"} => pc'[t] = pc[t]
  PROVE  RunningIsHosted'
  BY DEF RunningIsHosted, Site

LEMMA RunningStep == TypeOK /\ TaskInv /\ RunningIsHosted /\ [Next]_vars => RunningIsHosted'
<1> SUFFICES ASSUME TypeOK, TaskInv, RunningIsHosted, [Next]_vars PROVE RunningIsHosted'
  OBVIOUS
<1>0. TypeOK /\ TaskInv /\ RunningIsHosted
  OBVIOUS
<1>9. None # "Running"
  BY NoneIsNoStatus DEF Statuses
<1> USE DEF hostVars, taskVars
<1>1. CASE \E t \in Tasks : HostStep(t)
  BY <1>0, <1>1, RunningHostStep
<1>2. CASE \/ Command \/ (\E s \in Sites : RequestWakes(s))
           \/ (\E t \in Tasks : ChildExits(t)) \/ Janitor \/ RequestExit \/ Halt
  BY <1>0, <1>2, RunningFrame DEF Command, RequestWakes, ChildExits, Janitor, RequestExit, Halt
<1>3. CASE TuiStopAll \/ TuiStartAll
  BY <1>0, <1>3, RunningFrame DEF TuiStopAll, TuiStartAll
<1>4. ASSUME NEW s \in Sites, TuiToggle(s) PROVE RunningIsHosted'
  BY <1>0, <1>4, RunningFrame DEF TuiToggle, SetStatus, TypeOK
<1>5. CASE EditFile \/ (Monitor /\ ~SpawnAll /\ ~SpawnFewer)
  BY <1>0, <1>5, RunningFrame
     DEF EditFile, Monitor, TakeEvent, NothingToDo, Plan, PlanFails, Mark, Await, Swap
<1>6. ASSUME NEW s \in Sites, ApiDelete(s) PROVE RunningIsHosted'
  BY <1>0, <1>9, <1>6, RunningFrame DEF ApiDelete, SetStatus, TypeOK
<1>7. CASE SpawnAll \/ SpawnFewer
  <2>1. PICK S \in SUBSET modified : rpc = "spawn" /\ StartHosts(S)
    BY <1>7 DEF SpawnAll, SpawnFewer
  <2>2. \A t \in Tasks : pc[t] \in {"run", "drain"} => pc'[t] = pc[t]
    BY <1>0, <2>1, NewHostsAreNew DEF Live
  <2>3. \A s \in Sites : status'[s] = "Running" => status[s] = "Running"
    BY <1>9, <2>1 DEF StartHosts
  <2> QED BY <1>0, <2>2, <2>3, RunningFrame
<1>8. CASE UNCHANGED vars
  BY <1>0, <1>8, RunningFrame DEF vars
<1> QED
  BY <1>1, <1>2, <1>3, <1>4, <1>5, <1>6, <1>7, <1>8 DEF Next, HostNext, Monitor, Terminated

\* A status Running always has a task of the site behind it that watches over a
\* process, whatever commands, passes and crashes there were.
THEOREM RunningCorrect == Spec => []RunningIsHosted
<1>1. Init => RunningIsHosted
  BY NoneIsNoStatus DEF Init, HostInit, RunningIsHosted, Statuses
<1>2. TypeOK /\ TaskInv /\ RunningIsHosted /\ [Next]_vars => RunningIsHosted'
  BY RunningStep
<1> QED BY <1>1, <1>2, InvCorrect, PTL DEF Spec
-----------------------------------------------------------------------------
(***************************************************************************)
(* What runs is what is configured.  Between passes this is a property of  *)
(* the active configuration; during a pass it is split between the plan    *)
(* and the marks, and a pass that fails half-way breaks it for good, so    *)
(* the invariant speaks about behaviours without one and before exit.      *)
(***************************************************************************)

\* Some task runs the version that c lists for the site, under the id of ids.
Runs(s, c, ids) ==
  \E t \in Tasks : Live(t) /\ Site(t) = s /\ conf[t] = c[s] /\ ident[t] = ids[s]

\* c is what runs, and the status map has no other site.
RunsAll(c, ids) == \A s \in Sites :
  /\ c[s] # None => Runs(s, c, ids)
  /\ c[s] = None => /\ \A t \in Tasks : Live(t) => Site(t) # s
                    /\ status[s] = None

\* Marks are there while the monitor waits only; an entry without a mark is that
\* of a live task, under the id the task knows.
MarksAreAwaited == \A i \in Ids :
  Registered(i) => /\ rpc # "await" => ~marked[i]
                   /\ ~marked[i] => Live(owner[i])
                   /\ Id(owner[i]) = i

\* Only a task marked for removal leaves from its kill.
LeavingIsMarked == \A t \in Tasks : pc[t] = "killMarked" => marked[Id(t)]

ConfigRuns == rpc \in {"idle", "read", "mark"} => RunsAll(config, hosted)

\* The sites a pass leaves alone run the new version already; the others are on
\* their way out while the monitor waits, and gone when it spawns.
PlanIsUnderWay == rpc \in {"mark", "await", "spawn"} =>
  /\ modified \subseteq Listed(next)
  /\ \A s \in Listed(next) \ modified : Runs(s, next, nextIds)
  /\ \A t \in Tasks : Live(t) /\ Site(t) \in Listed(next) \ modified => ~marked[Id(t)]
  /\ \A t \in Tasks : Live(t) /\ next[Site(t)] = None => /\ rpc = "await" => marked[Id(t)]
                                                         /\ rpc # "spawn"

PlanRuns == rpc = "swap" => RunsAll(next, nextIds)

MatchParts ==
  /\ MarksAreAwaited
  /\ LeavingIsMarked
  /\ ConfigRuns
  /\ PlanIsUnderWay
  /\ PlanRuns

MatchInv == ~exit /\ ~aborted => MatchParts

LEMMA MatchInit == Init => MatchInv
<1> SUFFICES ASSUME Init PROVE MatchParts
  BY DEF MatchInv
<1>1. \A t \in Tasks : /\ pc[t] = IF Site(t) \in Listed(config) /\ t[2] = 0 THEN "top" ELSE "unborn"
                       /\ ident[t] = 0
                       /\ t[2] = 0 => conf[t] = config[Site(t)]
  BY DEF Init, HostInit, Tasks, Site, Listed
<1>2. \A i \in Ids : /\ owner[i] = IF i[1] \in Listed(config) /\ i[2] = 0 THEN i ELSE None
                     /\ ~marked[i] /\ i \in Tasks
  BY DEF Init, HostInit, Ids, Tasks, Listed
<1>3. rpc = "idle" /\ \A s \in Sites : status[s] = None
  BY DEF Init, HostInit
<1>4. MarksAreAwaited
  <2> SUFFICES ASSUME NEW i \in Ids, Registered(i)
               PROVE  ~marked[i] /\ Live(owner[i]) /\ Id(owner[i]) = i
    BY DEF MarksAreAwaited
  <2>1. owner[i] = i /\ i[1] \in Listed(config) /\ i[2] = 0 /\ i \in Tasks
    BY <1>2 DEF Registered
  <2>2. Id(i) = i
    BY <1>1, <2>1 DEF Id, Tasks
  <2> QED BY <1>1, <1>2, <2>1, <2>2 DEF Live, Site
<1>5. LeavingIsMarked
  BY <1>1 DEF LeavingIsMarked
<1>6. ConfigRuns
  <2>1. ASSUME NEW s \in Sites, config[s] # None PROVE Runs(s, config, hosted)
    <3>1. 0 \in Gens /\ hosted[s] = 0
      BY <2>1, HostAssumption DEF Init, HostInit, Listed, Gens, HostAssumption
    <3>2. <<s, 0>> \in Tasks /\ Site(<<s, 0>>) = s /\ <<s, 0>>[2] = 0
      BY <3>1 DEF Tasks, Site
    <3>3. s \in Listed(config)
      BY <2>1 DEF Listed
    <3> QED BY <1>1, <3>1, <3>2, <3>3 DEF Runs, Live
  <2>2. \A t \in Tasks : Live(t) => config[Site(t)] # None
    BY <1>1 DEF Live, Listed
  <2> QED BY <1>3, <2>1, <2>2 DEF ConfigRuns, RunsAll
<1> QED BY <1>3, <1>4, <1>5, <1>6 DEF MatchParts, PlanIsUnderWay, PlanRuns

\* Everything that happens around the monitor: tasks may end when they are marked,
\* entries may go, and a status is only written by a live task.
LEMMA MatchFrame ==
  ASSUME TypeOK, TaskInv, MatchParts,
         \A t \in Tasks : Live(t)' => Live(t),
         \A t \in Tasks : Live(t) => Live(t)' \/ marked[Id(t)],
         \A t \in Tasks : Live(t) => marked'[Id(t)] = marked[Id(t)],
         \A t \in Tasks : pc'[t] = "killMarked" => pc[t] = "killMarked" \/ marked[Id(t)],
         \A i \in Ids : Registered(i)' => owner'[i] = owner[i] /\ marked'[i] = marked[i],
         \A s \in Sites : status'[s] # None =>
           status[s] # None \/ \E t \in Tasks : Live(t) /\ Site(t) = s,
         UNCHANGED <<ident, hosted, config, conf, rpc, planVars>>
  PROVE  MatchParts'
<1>0. TypeOK /\ TaskInv /\ MatchParts
  OBVIOUS
<1> USE DEF planVars
<1>1. \A t \in Tasks : Id(t)' = Id(t) /\ Site(t)' = Site(t)
  BY DEF Id, Site
<1>2. \A t \in Tasks : Live(t) => Id(t) \in Ids /\ Registered(Id(t))
  BY <1>0, LiveIsRegistered
<1>3. \A t \in Tasks : Live(t) /\ ~marked[Id(t)] => Live(t)'
  OBVIOUS
<1>4. rpc # "await" => \A t \in Tasks : Live(t) => Live(t)'
  BY <1>0, <1>2, <1>3 DEF MatchParts, MarksAreAwaited
<1>5. MarksAreAwaited'
  <2> SUFFICES ASSUME NEW i \in Ids, Registered(i)'
               PROVE  /\ rpc # "await" => ~marked'[i]
                      /\ ~marked'[i] => Live(owner[i])'
                      /\ Id(owner[i])' = i
    BY DEF MarksAreAwaited
  <2>1. Registered(i) /\ owner'[i] = owner[i] /\ marked'[i] = marked[i] /\ owner[i] \in Tasks
    BY <1>0 DEF Registered, TypeOK
  <2>2. /\ rpc # "await" => ~marked[i]
        /\ ~marked[i] => Live(owner[i])
        /\ Id(owner[i]) = i
    BY <1>0, <2>1 DEF MatchParts, MarksAreAwaited
  <2>3. Id(owner[i])' = i
    BY <1>1, <2>1, <2>2 DEF Id
  <2>4. ~marked[i] => Live(owner[i])'
    <3> SUFFICES ASSUME ~marked[i] PROVE Live(owner[i])'
      OBVIOUS
    <3>1. PICK t \in Tasks : t = owner[i]
      BY <2>1
    <3>2. Live(t)'
      BY <1>3, <2>2, <3>1
    <3> QED BY <2>1, <3>1, <3>2 DEF Live
  <2> QED BY <2>1, <2>2, <2>3, <2>4
<1>6. LeavingIsMarked'
  <2> SUFFICES ASSUME NEW t \in Tasks, pc'[t] = "killMarked" PROVE marked'[Id(t)]
    BY <1>1 DEF LeavingIsMarked
  <2>1. Live(t) /\ marked[Id(t)]
    BY <1>0 DEF MatchParts, LeavingIsMarked, Live
  <2> QED BY <2>1
<1>7. ASSUME NEW c, NEW ids, rpc # "await", RunsAll(c, ids)
      PROVE  /\ \A s \in Sites : c[s] # None =>
                  \E t \in Tasks : Live(t)' /\ Site(t) = s /\ conf[t] = c[s] /\ ident[t] = ids[s]
             /\ \A s \in Sites : c[s] = None =>
                  (\A t \in Tasks : Live(t)' => Site(t) # s) /\ status'[s] = None
  BY <1>4, <1>7 DEF RunsAll, Runs
<1>8. ConfigRuns'
  <2> SUFFICES ASSUME rpc \in {"idle", "read", "mark"} PROVE RunsAll(config, hosted)'
    BY DEF ConfigRuns
  <2>1. RunsAll(config, hosted) /\ rpc # "await"
    BY <1>0 DEF MatchParts, ConfigRuns
  <2>2. /\ \A s \in Sites : config[s] # None =>
             \E t \in Tasks : /\ Live(t)' /\ Site(t) = s
                            /\ conf[t] = config[s] /\ ident[t] = hosted[s]
        /\ \A s \in Sites : config[s] = None =>
             (\A t \in Tasks : Live(t)' => Site(t) # s) /\ status'[s] = None
    BY <1>7, <2>1
  <2> QED BY <1>1, <2>2 DEF RunsAll, Runs
<1>9. PlanIsUnderWay'
  <2> SUFFICES ASSUME rpc \in {"mark", "await", "spawn"}
               PROVE  /\ modified \subseteq Listed(next)
                      /\ \A s \in Listed(next) \ modified : Runs(s, next, nextIds)'
                      /\ \A t \in Tasks : Live(t)' /\ Site(t) \in Listed(next) \ modified
                                            => ~marked'[Id(t)]
                      /\ \A t \in Tasks : Live(t)' /\ next[Site(t)] = None
                                            => /\ rpc = "await" => marked'[Id(t)]
                                               /\ rpc # "spawn"
    BY <1>1 DEF PlanIsUnderWay, Listed
  <2>1. /\ modified \subseteq Listed(next)
        /\ \A s \in Listed(next) \ modified : Runs(s, next, nextIds)
        /\ \A t \in Tasks : Live(t) /\ Site(t) \in Listed(next) \ modified => ~marked[Id(t)]
        /\ \A t \in Tasks : Live(t) /\ next[Site(t)] = None => /\ rpc = "await" => marked[Id(t)]
                                                               /\ rpc # "spawn"
    BY <1>0 DEF MatchParts, PlanIsUnderWay
  <2>2. ASSUME NEW s \in Listed(next) \ modified PROVE Runs(s, next, nextIds)'
    <3>1. PICK t \in Tasks : /\ Live(t) /\ Site(t) = s
                             /\ conf[t] = next[s] /\ ident[t] = nextIds[s]
      BY <2>1 DEF Runs
    <3>2. Live(t)'
      BY <1>3, <2>1, <3>1
    <3> QED BY <1>1, <3>1, <3>2 DEF Runs
  <2> QED BY <2>1, <2>2
<1>10. PlanRuns'
  <2> SUFFICES ASSUME rpc = "swap" PROVE RunsAll(next, nextIds)'
    BY DEF PlanRuns
  <2>1. RunsAll(next, nextIds)
    BY <1>0 DEF MatchParts, PlanRuns
  <2>2. /\ \A s \in Sites : next[s] # None =>
             \E t \in Tasks : /\ Live(t)' /\ Site(t) = s
                            /\ conf[t] = next[s] /\ ident[t] = nextIds[s]
        /\ \A s \in Sites : next[s] = None =>
             (\A t \in Tasks : Live(t)' => Site(t) # s) /\ status'[s] = None
    BY <1>7, <2>1
  <2> QED BY <1>1, <2>2 DEF RunsAll, Runs
<1> QED BY <1>5, <1>6, <1>8, <1>9, <1>10 DEF MatchParts
\* A task that moves to p leaves, or is about to, only when it is marked.
LEMMA MatchMoves ==
  ASSUME TypeOK, TaskInv, MatchParts, NEW t \in Tasks, Live(t),
         NEW p \in Points \ {"unborn"}, Goto(t, p),
         p \in {"done", "killMarked"} => marked[Id(t)],
         UNCHANGED status \/ \E v : SetStatus(Site(t), v),
         UNCHANGED <<ident, owner, marked, hosted, reloadVars>>
  PROVE  MatchParts'
<1>0. TypeOK /\ TaskInv /\ MatchParts
  OBVIOUS
<1>1. \A u \in Tasks : pc'[u] = IF u = t THEN p ELSE pc[u]
  BY DEF Goto, TypeOK
<1>2. \A s \in Sites : s # Site(t) => status'[s] = status[s]
  BY DEF SetStatus, TypeOK
<1>3. \A u \in Tasks : Live(u)' => Live(u)
  BY <1>1 DEF Live
<1>4. \A u \in Tasks : Live(u) => Live(u)' \/ marked[Id(u)]
  BY <1>1 DEF Live
<1> QED BY <1>0, <1>1, <1>2, <1>3, <1>4, MatchFrame DEF reloadVars, Registered

LEMMA MatchHostStep ==
  ASSUME TypeOK, TaskInv, MatchParts, ~exit, NEW t \in Tasks, HostStep(t),
         UNCHANGED reloadVars
  PROVE  MatchParts'
<1>0. TypeOK /\ TaskInv /\ MatchParts /\ ~exit /\ UNCHANGED reloadVars
  OBVIOUS
<1> DEFINE Moves(p) ==
      /\ Live(t)
      /\ Goto(t, p)
      /\ p \in {"done", "killMarked"} => marked[Id(t)]
      /\ UNCHANGED status \/ \E v : SetStatus(Site(t), v)
      /\ UNCHANGED <<ident, owner, marked, hosted>>
<1>1. ASSUME NEW p \in Points \ {"unborn"}, Moves(p) PROVE MatchParts'
  BY <1>0, <1>1, MatchMoves
<1> USE DEF taskVars, chanVars, mapVars, Live, Points
<1>2. CASE Top(t)
  <2>1. Moves("done") \/ Moves("check")
    BY <1>2 DEF Top, MarkedForRemoval
  <2> QED BY <1>1, <2>1
<1>3. CASE Check(t)
  <2>1. Moves("idleOn") \/ Moves("idleOff")
    BY <1>0, <1>3 DEF Check, IdlePoint
  <2> QED BY <1>1, <2>1
<1>4. CASE Receive(t)
  <2>1. Moves(pc[t])
    BY <1>0, <1>4 DEF Receive, OuterDrain, Goto, TypeOK
  <2> QED BY <1>1, <2>1, <1>4 DEF Receive, OuterDrain
<1>5. CASE DrainedIdle(t)
  <2>1. Moves("launch") \/ Moves("top")
    BY <1>5 DEF DrainedIdle, OuterDrain
  <2> QED BY <1>1, <2>1
<1>6. CASE NoPort(t) \/ NoBinary(t)
  <2>1. Moves("top")
    BY <1>6 DEF NoPort, NoBinary
  <2> QED BY <1>1, <2>1
<1>7. CASE Prepare(t)
  <2>1. Moves("spawn")
    BY <1>7 DEF Prepare
  <2> QED BY <1>1, <2>1
<1>8. CASE Spawn(t)
  <2>1. Moves("run")
    BY <1>8 DEF Spawn
  <2> QED BY <1>1, <2>1
<1>9. CASE SpawnFails(t) \/ ChildGone(t)
  <2>1. Moves("after")
    BY <1>9 DEF SpawnFails, ChildGone
  <2> QED BY <1>1, <2>1
<1>10. CASE StopOnExit(t) \/ StopReplaced(t)
  <2>1. Moves("kill")
    BY <1>10 DEF StopOnExit, StopReplaced
  <2> QED BY <1>1, <2>1
<1>11. CASE StillRunning(t)
  <2>1. Moves("drain")
    BY <1>11 DEF StillRunning
  <2> QED BY <1>1, <2>1
<1>12. CASE DrainedRunning(t)
  <2>1. Moves("killMarked") \/ Moves("kill") \/ Moves("run")
    BY <1>12 DEF DrainedRunning, MarkedForRemoval
  <2> QED BY <1>1, <2>1
<1>13. CASE Killed(t)
  <2>1. Moves("after") \/ Moves("done")
    BY <1>0, <1>13 DEF Killed, MatchParts, LeavingIsMarked
  <2> QED BY <1>1, <2>1
<1>14. CASE After(t)
  <2>1. Moves("top")
    BY <1>0, <1>14 DEF After
  <2> QED BY <1>1, <2>1
<1> QED
  BY <1>2, <1>3, <1>4, <1>5, <1>6, <1>7, <1>8, <1>9, <1>10, <1>11, <1>12, <1>13,
     <1>14 DEF HostStep

LEMMA MatchWorldStep ==
  ASSUME TypeOK, TaskInv, MatchParts, UNCHANGED reloadVars,
         \/ Command
         \/ \E s \in Sites : RequestWakes(s) \/ TuiToggle(s)
         \/ TuiStopAll \/ TuiStartAll
         \/ \E t \in Tasks : ChildExits(t)
         \/ Janitor \/ RequestExit \/ Halt
  PROVE  MatchParts'
<1>0. TypeOK /\ TaskInv /\ MatchParts /\ UNCHANGED reloadVars
  OBVIOUS
<1> USE DEF reloadVars, taskVars, mapVars, Live, Registered
<1>1. CASE \/ Command \/ (\E s \in Sites : RequestWakes(s)) \/ (\E t \in Tasks : ChildExits(t))
           \/ RequestExit \/ Halt
  BY <1>0, <1>1, MatchFrame DEF Command, RequestWakes, ChildExits, RequestExit, Halt
<1>2. CASE TuiStopAll \/ TuiStartAll
  <2>1. \A s \in Sites : status'[s] # None => status[s] # None
    BY <1>2, NoneIsNoStatus DEF TuiStopAll, TuiStartAll, Statuses
  <2> QED BY <1>0, <1>2, <2>1, MatchFrame DEF TuiStopAll, TuiStartAll
<1>3. ASSUME NEW s \in Sites, TuiToggle(s) PROVE MatchParts'
  <2>1. status[s] # None /\ \A r \in Sites : r # s => status'[r] = status[r]
    BY <1>0, <1>3, NoneIsNoStatus DEF TuiToggle, SetStatus, TypeOK, Statuses
  <2> QED BY <1>0, <1>3, <2>1, MatchFrame DEF TuiToggle
<1>4. CASE Janitor
  <2>1. \A i \in Ids : Registered(i)' => owner'[i] = owner[i] /\ ~Stale(i)
    BY <1>4 DEF Janitor
  <2>2. \A i \in Ids : ~Stale(i) => marked'[i] = marked[i]
    <3>1. \A i \in Ids : marked[i] \in BOOLEAN /\ marked'[i] = (marked[i] /\ ~Stale(i))
      BY <1>0, <1>4 DEF Janitor, TypeOK
    <3> QED BY <3>1
  <2>3. \A t \in Tasks : Live(t) => Id(t) \in Ids /\ ~Stale(Id(t))
    BY <1>0, LiveIsRegistered DEF Stale
  <2> QED BY <1>0, <1>4, <2>1, <2>2, <2>3, MatchFrame DEF Janitor
<1> QED BY <1>0, <1>1, <1>2, <1>3, <1>4
\* Comparing puts a site on the list unless its task already runs the new version.
LEMMA MatchPlan ==
  ASSUME TypeOK, TaskInv, MatchParts, Plan
  PROVE  MatchParts'
<1>0. TypeOK /\ TaskInv /\ MatchParts
  OBVIOUS
<1> USE DEF Plan, hostVars, taskVars, mapVars
<1>1. PICK ids \in [Sites -> Gens] :
        /\ \A s \in Sites : Existing(s) # {} => <<s, ids[s]>> \in Existing(s)
        /\ nextIds' = ids /\ modified' = Changed(file, ids) /\ next' = file
  OBVIOUS
<1>2. \A i \in Ids : Registered(i) => /\ ~marked[i] /\ owner[i] \in Tasks
                                      /\ Live(owner[i]) /\ Id(owner[i]) = i
  BY <1>0 DEF MatchParts, MarksAreAwaited, Registered, TypeOK
<1>3. \A t \in Tasks : Live(t) => ~marked[Id(t)]
  BY <1>0, <1>2, LiveIsRegistered
<1>4. ASSUME NEW s \in Listed(file), s \notin Changed(file, ids)
      PROVE  \E t \in Tasks : /\ Live(t) /\ Site(t) = s
                              /\ conf[t] = file[s] /\ ident[t] = ids[s]
  <2>1. Existing(s) # {} /\ conf[owner[<<s, ids[s]>>]] = file[s] /\ s \in Sites
    BY <1>4 DEF Changed, Listed
  <2>2. <<s, ids[s]>> \in Ids /\ Registered(<<s, ids[s]>>)
    BY <1>1, <2>1 DEF Existing
  <2>3. PICK t \in Tasks : t = owner[<<s, ids[s]>>]
    BY <1>2, <2>2
  <2>4. Live(t) /\ Id(t) = <<s, ids[s]>> /\ conf[t] = file[s]
    BY <1>2, <2>1, <2>2, <2>3
  <2> QED BY <2>4 DEF Id, Site
<1>5. Changed(file, ids) \subseteq Listed(file)
  BY DEF Changed
<1>6. PlanIsUnderWay'
  BY <1>1, <1>3, <1>4, <1>5 DEF PlanIsUnderWay, Listed, Runs, Live, Id
<1>7. MarksAreAwaited' /\ LeavingIsMarked' /\ ConfigRuns' /\ PlanRuns'
  BY <1>0 DEF MatchParts, MarksAreAwaited, LeavingIsMarked, ConfigRuns, PlanRuns, RunsAll,
              Runs, Registered, Live, Id
<1> QED BY <1>6, <1>7 DEF MatchParts

\* Marking reaches every live task that is not to stay, and no other.
LEMMA MatchMark ==
  ASSUME TypeOK, TaskInv, MatchParts, Mark
  PROVE  MatchParts'
<1>0. TypeOK /\ TaskInv /\ MatchParts
  OBVIOUS
<1> USE DEF Mark, taskVars, planVars
<1>1. \A i \in Ids : marked'[i] = (marked[i] \/ Outgoing(i))
  OBVIOUS
<1>2. \A t \in Tasks : Live(t) => /\ Id(t) \in Ids /\ ~marked[Id(t)]
                                  /\ Registered(Id(t)) /\ Id(t)[1] = Site(t)
  BY <1>0, LiveIsRegistered DEF MatchParts, MarksAreAwaited
<1>3. \A t \in Tasks : Live(t) =>
        marked'[Id(t)] = (Site(t) \in modified \/ next[Site(t)] = None)
  BY <1>1, <1>2 DEF Outgoing
<1>4. PlanIsUnderWay'
  BY <1>0, <1>3 DEF MatchParts, PlanIsUnderWay, Listed, Runs, Live, Id
<1>5. MarksAreAwaited'
  BY <1>0, <1>1 DEF MatchParts, MarksAreAwaited, Registered, Live, Id
<1>6. LeavingIsMarked'
  BY <1>0, <1>2 DEF MatchParts, LeavingIsMarked, Live, Id
<1> QED BY <1>4, <1>5, <1>6 DEF MatchParts, ConfigRuns, PlanRuns

\* When no entry is marked any more, the outgoing tasks are gone.
LEMMA MatchAwait ==
  ASSUME TypeOK, TaskInv, MatchParts, Await
  PROVE  MatchParts'
<1>0. TypeOK /\ TaskInv /\ MatchParts
  OBVIOUS
<1> USE DEF Await, hostVars, taskVars, mapVars, planVars
<1>1. \A t \in Tasks : Live(t) => ~marked[Id(t)]
  BY <1>0, LiveIsRegistered
<1>2. PlanIsUnderWay'
  BY <1>0, <1>1 DEF MatchParts, PlanIsUnderWay, Listed, Runs, Live, Id
<1>3. MarksAreAwaited' /\ LeavingIsMarked'
  BY <1>0 DEF MatchParts, MarksAreAwaited, LeavingIsMarked, Registered, Live, Id
<1> QED BY <1>2, <1>3 DEF MatchParts, ConfigRuns, PlanRuns

\* With all its hosts spawned the new configuration is what runs.
LEMMA MatchSpawnAll ==
  ASSUME TypeOK, TaskInv, MatchParts, SpawnAll
  PROVE  MatchParts'
<1>0. TypeOK /\ TaskInv /\ MatchParts /\ modified \in SUBSET modified
  OBVIOUS
<1> USE DEF SpawnAll, planVars
<1> DEFINE new(t) == Site(t) \in modified /\ t[2] = gen
<1>1. /\ \A t \in Tasks : Site(t) \in modified => ~Live(t)
      /\ \A t \in Tasks : /\ pc'[t] = IF new(t) THEN "top" ELSE pc[t]
                          /\ ident'[t] = IF new(t) THEN nextIds[Site(t)] ELSE ident[t]
                          /\ conf'[t] = IF new(t) THEN next[Site(t)] ELSE conf[t]
      /\ \A i \in Ids :
           /\ owner'[i] = IF i[1] \in modified /\ i[2] = nextIds[i[1]]
                          THEN <<i[1], gen>> ELSE owner[i]
           /\ marked'[i] = (marked[i] /\ ~(i[1] \in modified /\ i[2] = nextIds[i[1]]))
      /\ \A s \in modified : <<s, gen>> \in Tasks
  BY <1>0, NewHostsAreNew
<1>2. \A t \in Tasks : Live(t) => /\ ~new(t) /\ Live(t)' /\ ident'[t] = ident[t]
                                  /\ conf'[t] = conf[t] /\ ~marked[Id(t)]
  BY <1>0, <1>1, LiveIsRegistered DEF Live, MatchParts, MarksAreAwaited
<1>3. \A t \in Tasks : Live(t)' => Live(t) \/ new(t)
  BY <1>1 DEF Live
<1>4. MarksAreAwaited'
  <2> SUFFICES ASSUME NEW i \in Ids, Registered(i)'
               PROVE  ~marked'[i] /\ Live(owner[i])' /\ Id(owner[i])' = i
    BY DEF MarksAreAwaited
  <2>1. CASE i[1] \in modified /\ i[2] = nextIds[i[1]]
    <3>1. PICK t \in Tasks : t = <<i[1], gen>> /\ owner'[i] = t
      BY <1>1, <2>1
    <3>2. new(t) /\ Site(t) = i[1]
      BY <2>1, <3>1 DEF Site
    <3>3. pc'[t] = "top" /\ ident'[t] = i[2] /\ ~marked'[i]
      BY <1>1, <2>1, <3>2
    <3> QED BY <3>1, <3>3 DEF Live, Id, Ids
  <2>2. CASE ~(i[1] \in modified /\ i[2] = nextIds[i[1]])
    <3>1. owner'[i] = owner[i]
      BY <1>1, <2>2
    <3>2. Registered(i)
      BY <3>1 DEF Registered
    <3>3. owner'[i] = owner[i] /\ Registered(i) /\ owner[i] \in Tasks
      BY <1>0, <3>1, <3>2 DEF Registered, TypeOK
    <3>4. marked'[i] = (marked[i] /\ ~(i[1] \in modified /\ i[2] = nextIds[i[1]]))
      BY <1>1
    <3>5. ~marked[i] /\ Live(owner[i]) /\ Id(owner[i]) = i
      BY <1>0, <3>3 DEF MatchParts, MarksAreAwaited
    <3>6. PICK t \in Tasks : t = owner[i]
      BY <3>3
    <3>7. Live(t)' /\ ident'[t] = ident[t]
      BY <1>2, <3>5, <3>6
    <3> QED BY <3>3, <3>4, <3>5, <3>6, <3>7 DEF Live, Id
  <2> QED BY <2>1, <2>2
<1>5. LeavingIsMarked'
  <2> SUFFICES ASSUME NEW t \in Tasks, pc'[t] = "killMarked" PROVE FALSE
    BY DEF LeavingIsMarked
  <2>1. pc[t] = "killMarked" /\ Live(t)
    BY <1>1 DEF Live
  <2> QED BY <1>0, <1>2, <2>1 DEF MatchParts, LeavingIsMarked
<1>6. RunsAll(next, nextIds)'
  <2>1. /\ modified \subseteq Listed(next)
        /\ \A s \in Listed(next) \ modified : Runs(s, next, nextIds)
        /\ \A t \in Tasks : Live(t) => next[Site(t)] # None
    BY <1>0, rpc = "spawn" DEF MatchParts, PlanIsUnderWay
  <2>2. ASSUME NEW s \in Sites, next[s] # None PROVE Runs(s, next, nextIds)'
    <3>1. CASE s \in modified
      <4>1. PICK t \in Tasks : t = <<s, gen>>
        BY <1>1, <3>1
      <4>2. Site(t) = s /\ new(t)
        BY <3>1, <4>1 DEF Site
      <4>3. pc'[t] = "top" /\ ident'[t] = nextIds[s] /\ conf'[t] = next[s]
        BY <1>1, <4>2
      <4> QED BY <4>2, <4>3 DEF Runs, Live, Site
    <3>2. CASE s \notin modified
      <4>1. PICK t \in Tasks : /\ Live(t) /\ Site(t) = s
                               /\ conf[t] = next[s] /\ ident[t] = nextIds[s]
        BY <2>1, <2>2, <3>2 DEF Listed, Runs
      <4>2. Live(t)' /\ ident'[t] = ident[t] /\ conf'[t] = conf[t]
        BY <1>2, <4>1
      <4> QED BY <4>1, <4>2 DEF Runs, Site
    <3> QED BY <3>1, <3>2
  <2>3. \A t \in Tasks : Live(t)' => next[Site(t)] # None
    BY <1>3, <2>1 DEF Listed
  <2>4. \A s \in Sites : next[s] = None => status'[s] = None
    BY DEF StartHosts
  <2> QED BY <2>2, <2>3, <2>4 DEF RunsAll, Site
<1> QED BY <1>4, <1>5, <1>6 DEF MatchParts, ConfigRuns, PlanIsUnderWay, PlanRuns

LEMMA MatchReloadStep ==
  ASSUME TypeOK, TaskInv, MatchParts, ~aborted',
         EditFile \/ (\E s \in Sites : ApiDelete(s)) \/ Monitor
  PROVE  MatchParts'
<1>0. TypeOK /\ TaskInv /\ MatchParts /\ ~aborted'
  OBVIOUS
<1>1. CASE EditFile
  BY <1>0, <1>1, MatchFrame DEF EditFile, hostVars, taskVars, mapVars, Live, Registered
<1>2. ASSUME NEW s \in Sites, ApiDelete(s) PROVE MatchParts'
  <2>1. \A r \in Sites : status'[r] # None => status[r] # None
    BY <1>0, <1>2 DEF ApiDelete, SetStatus, TypeOK
  <2> QED BY <1>0, <1>2, <2>1, MatchFrame DEF ApiDelete, taskVars, mapVars, Live, Registered
<1>3. CASE TakeEvent \/ NothingToDo \/ PlanFails
  BY <1>0, <1>3
     DEF TakeEvent, NothingToDo, PlanFails, hostVars, taskVars, mapVars, MatchParts,
         MarksAreAwaited, LeavingIsMarked, ConfigRuns, PlanIsUnderWay, PlanRuns, RunsAll,
         Runs, Registered, Live, Id
<1>4. CASE Plan
  BY <1>0, <1>4, MatchPlan
<1>5. CASE Mark
  BY <1>0, <1>5, MatchMark
<1>6. CASE Await
  BY <1>0, <1>6, MatchAwait
<1>7. CASE SpawnAll
  BY <1>0, <1>7, MatchSpawnAll
<1>8. CASE SpawnFewer
  BY <1>0, <1>8 DEF SpawnFewer
<1>9. CASE Swap
  <2>1. RunsAll(next, nextIds) /\ config' = next
    BY <1>0, <1>9 DEF Swap, MatchParts, PlanRuns
  <2>2. \A s \in Sites : next[s] # None => hosted'[s] = nextIds[s]
    BY <1>9 DEF Swap
  <2>3. ConfigRuns'
    BY <1>9, <2>1, <2>2 DEF Swap, taskVars, ConfigRuns, RunsAll, Runs, Live, Site
  <2>4. MarksAreAwaited' /\ LeavingIsMarked'
    BY <1>0, <1>9 DEF Swap, taskVars, mapVars, MatchParts, MarksAreAwaited, LeavingIsMarked,
                      Registered, Live, Id
  <2> QED BY <1>9, <2>3, <2>4 DEF Swap, MatchParts, PlanIsUnderWay, PlanRuns
<1> QED BY <1>1, <1>2, <1>3, <1>4, <1>5, <1>6, <1>7, <1>8, <1>9 DEF Monitor

LEMMA MatchStep == TypeOK /\ TaskInv /\ MatchInv /\ [Next]_vars => MatchInv'
<1> SUFFICES ASSUME TypeOK, TaskInv, MatchInv, [Next]_vars, ~exit', ~aborted'
             PROVE  MatchParts'
  BY DEF MatchInv
<1> USE DEF hostVars, reloadVars
<1>0. ~exit /\ ~aborted
  <2>1. exit' = exit \/ exit' = TRUE
    <3>1. CASE HostNext
      <4>1. ASSUME NEW t \in Tasks, HostStep(t) PROVE exit' = exit
        BY <4>1 DEF HostStep, Top, Check, Receive, DrainedIdle, NoPort, NoBinary, Prepare,
                    Spawn, SpawnFails, ChildGone, StopOnExit, StopReplaced, StillRunning,
                    DrainedRunning, Killed, After
      <4> QED
        BY <3>1, <4>1 DEF HostNext, Command, RequestWakes, TuiToggle, TuiStopAll, TuiStartAll,
                          ChildExits, Janitor, RequestExit, Halt
    <3>2. CASE EditFile \/ (\E s \in Sites : ApiDelete(s)) \/ Monitor \/ UNCHANGED vars
      BY <3>2 DEF EditFile, ApiDelete, Monitor, TakeEvent, NothingToDo, Plan, PlanFails, Mark,
                  Await, SpawnAll, SpawnFewer, Swap, vars
    <3> QED BY <3>1, <3>2 DEF Next, Terminated
  <2>2. aborted' = aborted \/ aborted' = TRUE
    BY DEF Next, Terminated, EditFile, ApiDelete, Monitor, TakeEvent, NothingToDo, Plan,
           PlanFails, Mark, Await, SpawnAll, SpawnFewer, Swap, vars
  <2> QED BY <2>1, <2>2
<1>1. TypeOK /\ TaskInv /\ MatchParts
  BY <1>0 DEF MatchInv
<1>2. CASE HostNext /\ UNCHANGED reloadVars
  BY <1>0, <1>1, <1>2, MatchHostStep, MatchWorldStep DEF HostNext
<1>3. CASE EditFile \/ (\E s \in Sites : ApiDelete(s)) \/ Monitor
  BY <1>1, <1>3, MatchReloadStep
<1>4. CASE UNCHANGED vars
  BY <1>1, <1>4, MatchFrame DEF vars, taskVars, mapVars, Live, Registered
<1> QED BY <1>2, <1>3, <1>4 DEF Next, Terminated

LEMMA MatchCorrect == Spec => [](TypeOK /\ TaskInv /\ MatchInv)
<1>1. TypeOK /\ TaskInv /\ MatchInv /\ [Next]_vars => MatchInv'
  BY MatchStep
<1> QED BY <1>1, MatchInit, InvCorrect, PTL DEF Spec

\* Between two passes exactly the configured tasks are live, however many passes,
\* commands, ends of processes and writers of the file there were.
THEOREM HostsMatchCorrect == Spec => []HostsMatchConfig
<1>1. ASSUME TypeOK, TaskInv, MatchInv, rpc = "idle", ~exit, ~aborted, NEW s \in Sites
      PROVE  /\ config[s] # None => \E t \in Tasks : Live(t) /\ Site(t) = s
             /\ \A t \in Tasks : Live(t) /\ Site(t) = s =>
                  /\ config[s] # None /\ conf[t] = config[s]
                  /\ ident[t] = hosted[s] /\ ~marked[Id(t)]
  <2>1. RunsAll(config, hosted) /\ MarksAreAwaited
    BY <1>1 DEF MatchInv, MatchParts, ConfigRuns
  <2>2. ASSUME NEW t \in Tasks, Live(t), Site(t) = s
        PROVE  /\ config[s] # None /\ conf[t] = config[s]
               /\ ident[t] = hosted[s] /\ ~marked[Id(t)]
    <3>1. config[s] # None
      BY <2>1, <2>2 DEF RunsAll
    <3>2. PICK u \in Tasks : /\ Live(u) /\ Site(u) = s
                             /\ conf[u] = config[s] /\ ident[u] = hosted[s]
      BY <2>1, <3>1 DEF RunsAll, Runs
    <3>3. u = t
      BY <1>1, <2>2, <3>2, OneLiveTaskPerSite
    <3>4. ~marked[Id(t)]
      BY <1>1, <2>1, <2>2, LiveIsRegistered DEF MarksAreAwaited
    <3> QED BY <3>1, <3>2, <3>3, <3>4
  <2> QED BY <2>1, <2>2 DEF RunsAll, Runs
<1>2. TypeOK /\ TaskInv /\ MatchInv => HostsMatchConfig
  BY <1>1 DEF HostsMatchConfig
<1> QED BY <1>2, MatchCorrect, PTL

\* Between two passes the status map names configured sites only.
THEOREM NoStrayCorrect == Spec => []NoStrayStatus
<1>1. MatchInv => NoStrayStatus
  BY DEF MatchInv, MatchParts, ConfigRuns, RunsAll, NoStrayStatus
<1> QED BY <1>1, MatchCorrect, PTL
=============================================================================
