----------------------------- MODULE Listeners -----------------------------
(***************************************************************************)
(* The two listeners of the proxy (proxy.rs): `listen` restarts both when  *)
(* the configured addresses change, each takes a permit of the connection  *)
(* semaphore, forgets it, accepts, and hands the connection to a task that *)
(* puts the permit back when it ends.                                      *)
(*                                                                         *)
(* A listener runs inside tokio::select! with its cancellation token, so a *)
(* cancelled one ends at whatever await it has reached.                    *)
(***************************************************************************)
EXTENDS Naturals, FiniteSets

CONSTANTS
  Conns,       \* clients' connections
  Limit,       \* permits of ACTIVE_TCP_CONNECTIONS_SEMAPHORE (200)
  Addrs,       \* pairs of bind addresses the configuration may name
  Contested,   \* those that cannot always be bound
  MaxChanges,  \* changes of the configured addresses (bound)
  None

ASSUME ListenerAssumption ==
  /\ IsFiniteSet(Conns)
  /\ Limit \in Nat
  /\ Contested \subseteq Addrs
  /\ MaxChanges \in Nat
  /\ None \notin Addrs \cup Conns

Listener == {"http", "https"}

VARIABLES
  main,      \* where `listen` is: "check", "stopHttp", "stopHttps", "start"
  want,      \* addresses of the active configuration
  next,      \* addresses `listen` has read from it
  addr,      \* previous_bind_addr: addresses of the last start, or None
  at,        \* where each listener task is
  token,     \* its cancellation token is cancelled
  taken,     \* the connection it has accepted and not handed on, or None
  conn,      \* per connection: "out", a listener (in its backlog), "taken", "served"
  permits,
  lost,      \* permits that nobody will put back
  starts,    \* starts of the listeners
  changes,   \* changes of the configured addresses
  exit

mainVars   == <<main, next, addr, starts>>
taskVars   == <<at, token, taken>>
permitVars == <<permits, lost>>
confVars   == <<want, changes>>
vars == <<mainVars, taskVars, conn, permitVars, confVars, exit>>

\* "unborn", then "bind", "top" (head of the loop), "acquire" (waiting for a permit),
\* "accept", "handOn" (reading the configuration for the new task), "ended".
Points == {"unborn", "bind", "top", "acquire", "accept", "handOn", "ended"}

Listening(l) == at[l] \in {"top", "acquire", "accept", "handOn"}

Goto(l, p) == at' = [at EXCEPT ![l] = p]

-----------------------------------------------------------------------------
(* The loop of `listen`, every five seconds. *)

\* Mutant of Check: restarts although nothing has changed.
Check_EveryTime ==
  /\ main = "check"
  /\ next' = want
  /\ IF addr = None
     THEN main' = "start" /\ UNCHANGED token
     ELSE main' = "stopHttp" /\ token' = [token EXCEPT !["http"] = TRUE]
  /\ UNCHANGED <<addr, starts, at, taken, conn, permitVars, confVars, exit>>

\* Mutant of Check: the addresses are only looked at once.
Check_OnlyFirst ==
  /\ main = "check" /\ addr = None
  /\ next' = want
  /\ main' = "start"
  /\ UNCHANGED <<addr, starts, taskVars, conn, permitVars, confVars, exit>>

\* Nothing to do unless there are no tasks or the addresses have changed; then the
\* http listener is cancelled first, if there is one.
Check ==
  /\ main = "check"
  /\ addr # want
  /\ next' = want
  /\ IF addr = None
     THEN main' = "start" /\ UNCHANGED token
     ELSE main' = "stopHttp" /\ token' = [token EXCEPT !["http"] = TRUE]
  /\ UNCHANGED <<addr, starts, at, taken, conn, permitVars, confVars, exit>>

\* http_task.await, then the same for https.
HttpStopped ==
  /\ main = "stopHttp" /\ at["http"] = "ended"
  /\ main' = "stopHttps"
  /\ token' = [token EXCEPT !["https"] = TRUE]
  /\ UNCHANGED <<next, addr, starts, at, taken, conn, permitVars, confVars, exit>>

HttpsStopped ==
  /\ main = "stopHttps" /\ at["https"] = "ended"
  /\ main' = "start"
  /\ UNCHANGED <<next, addr, starts, taskVars, conn, permitVars, confVars, exit>>

\* New tokens, new tasks.
Start ==
  /\ main = "start"
  /\ main' = "check"
  /\ addr' = next
  /\ starts' = starts + 1
  /\ at' = [l \in Listener |-> "bind"]
  /\ token' = [l \in Listener |-> FALSE]
  /\ UNCHANGED <<next, taken, conn, permitVars, confVars, exit>>

MainStep == Check \/ HttpStopped \/ HttpsStopped \/ Start

-----------------------------------------------------------------------------
(* A listener task. *)

\* A failed bind ends the task with an error; nobody looks at it before the
\* addresses change.
Bind(l) ==
  /\ at[l] = "bind"
  /\ \/ Goto(l, "top")
     \/ addr \in Contested /\ Goto(l, "ended")
  /\ UNCHANGED <<mainVars, token, taken, conn, permitVars, confVars, exit>>

\* A listener that ends resets the connections of its backlog, and its own.
Dropped(l) ==
  [c \in Conns |-> IF conn[c] = l \/ c = taken[l] THEN "out" ELSE conn[c]]

\* Mutant of End: the accepted connection is not let go.
End_KeepsTaken(l) ==
  /\ Goto(l, "ended")
  /\ conn' = Dropped(l)
  /\ UNCHANGED taken

End(l) ==
  /\ Goto(l, "ended")
  /\ conn' = Dropped(l)
  /\ taken' = [taken EXCEPT ![l] = None]

\* The cancellation token and the exit flag are looked at here only.
Top(l) ==
  /\ at[l] = "top"
  /\ IF token[l] \/ exit THEN End(l) ELSE Goto(l, "acquire") /\ UNCHANGED <<taken, conn>>
  /\ UNCHANGED <<mainVars, token, permitVars, confVars, exit>>

\* acquire().await, then permit.forget().
Acquire(l) ==
  /\ at[l] = "acquire" /\ permits > 0
  /\ permits' = permits - 1
  /\ Goto(l, "accept")
  /\ UNCHANGED <<mainVars, token, taken, conn, lost, confVars, exit>>

Accept(l, c) ==
  /\ at[l] = "accept" /\ conn[c] = l
  /\ conn' = [conn EXCEPT ![c] = "taken"]
  /\ taken' = [taken EXCEPT ![l] = c]
  /\ Goto(l, "handOn")
  /\ UNCHANGED <<mainVars, token, permitVars, confVars, exit>>

\* Mutant of AcceptFails: the permit is not put back.
AcceptFails_NoPermit(l) ==
  /\ at[l] = "accept"
  /\ \E c \in Conns : conn[c] = l /\ conn' = [conn EXCEPT ![c] = "out"]
  /\ Goto(l, "top")
  /\ UNCHANGED <<mainVars, token, taken, permitVars, confVars, exit>>

\* accept() fails for a connection that is already gone.
AcceptFails(l) ==
  /\ at[l] = "accept"
  /\ \E c \in Conns : conn[c] = l /\ conn' = [conn EXCEPT ![c] = "out"]
  /\ permits' = permits + 1
  /\ Goto(l, "top")
  /\ UNCHANGED <<mainVars, token, taken, lost, confVars, exit>>

\* The new task gets a copy of the configuration and is spawned.
HandOn(l) ==
  /\ at[l] = "handOn"
  /\ conn' = [conn EXCEPT ![taken[l]] = "served"]
  /\ taken' = [taken EXCEPT ![l] = None]
  /\ Goto(l, "top")
  /\ UNCHANGED <<mainVars, token, permitVars, confVars, exit>>

\* The token fires at an await, or before the first poll; the permit of a listener that has one is gone.
Cancelled(l) ==
  /\ token[l] /\ at[l] \in {"bind", "acquire", "accept", "handOn"}
  /\ End(l)
  /\ lost' = IF at[l] \in {"bind", "acquire"} THEN lost ELSE lost + 1
  /\ UNCHANGED <<mainVars, token, permits, confVars, exit>>

-----------------------------------------------------------------------------
\* Mutant of Served: the permit is not put back.
Served_NoPermit(c) ==
  /\ conn[c] = "served"
  /\ conn' = [conn EXCEPT ![c] = "out"]
  /\ UNCHANGED <<mainVars, taskVars, permitVars, confVars, exit>>

\* handle_new_tcp_stream ends and the task puts a permit back.
Served(c) ==
  /\ conn[c] = "served"
  /\ conn' = [conn EXCEPT ![c] = "out"]
  /\ permits' = permits + 1
  /\ UNCHANGED <<mainVars, taskVars, lost, confVars, exit>>

\* A client connects to the socket of a listener.
Connect(c, l) ==
  /\ conn[c] = "out" /\ Listening(l)
  /\ conn' = [conn EXCEPT ![c] = l]
  /\ UNCHANGED <<mainVars, taskVars, permitVars, confVars, exit>>

Reconfigure(a) ==
  /\ changes < MaxChanges /\ a # want
  /\ want' = a
  /\ changes' = changes + 1
  /\ UNCHANGED <<mainVars, taskVars, conn, permitVars, exit>>

Exit ==
  /\ ~exit /\ exit' = TRUE
  /\ UNCHANGED <<mainVars, taskVars, conn, permitVars, confVars>>

-----------------------------------------------------------------------------
Init ==
  /\ main = "check"
  /\ want \in Addrs
  /\ next = want
  /\ addr = None
  /\ at = [l \in Listener |-> "unborn"]
  /\ token = [l \in Listener |-> FALSE]
  /\ taken = [l \in Listener |-> None]
  /\ conn = [c \in Conns |-> "out"]
  /\ permits = Limit
  /\ lost = 0
  /\ starts = 0
  /\ changes = 0
  /\ exit = FALSE

ListenerStep(l) ==
  \/ Bind(l) \/ Top(l) \/ Acquire(l) \/ AcceptFails(l) \/ HandOn(l) \/ Cancelled(l)
  \/ \E c \in Conns : Accept(l, c)

Next ==
  \/ MainStep
  \/ \E l \in Listener : ListenerStep(l)
  \/ \E c \in Conns : Served(c) \/ \E l \in Listener : Connect(c, l)
  \/ \E a \in Addrs : Reconfigure(a)
  \/ Exit

\* `listen` and the listeners are polled for ever.  The semaphore and the backlog
\* are first-in first-out, so a waiter is not overtaken for ever; a token that
\* fires is seen.  Connections are assumed to end.
Fairness ==
  /\ WF_vars(MainStep)
  /\ \A l \in Listener :
       /\ WF_vars(Bind(l) \/ Top(l) \/ HandOn(l))
       /\ SF_vars(Acquire(l))
       /\ SF_vars(Cancelled(l))
       /\ \A c \in Conns : SF_vars(Accept(l, c))
  /\ \A c \in Conns : WF_vars(Served(c))

Spec == Init /\ [][Next]_vars /\ Fairness

-----------------------------------------------------------------------------
\* Values stay in their types, and an accepted connection is with exactly the
\* listener that hands it on (proxy.rs).
TypeOK ==
  /\ main \in {"check", "stopHttp", "stopHttps", "start"}
  /\ want \in Addrs /\ next \in Addrs /\ addr \in Addrs \cup {None}
  /\ at \in [Listener -> Points]
  /\ token \in [Listener -> BOOLEAN]
  /\ taken \in [Listener -> Conns \cup {None}]
  /\ \A l \in Listener : (at[l] = "handOn") <=> (taken[l] # None)
  /\ \A l \in Listener : taken[l] # None => conn[taken[l]] = "taken"
  /\ conn \in [Conns -> Listener \cup {"out", "taken", "served"}]
  /\ permits \in Nat /\ lost \in Nat
  /\ starts \in Nat
  /\ changes \in 0..MaxChanges
  /\ exit \in BOOLEAN

Serving  == {c \in Conns : conn[c] = "served"}
Holding  == {l \in Listener : at[l] \in {"accept", "handOn"}}

\* Every permit is free, with a connection, with a listener or lost: through
\* accept errors, cancellation at any await and connections that end during a
\* restart nothing is put back twice or taken for nothing.
PermitsConserved ==
  permits + Cardinality(Serving) + Cardinality(Holding) + lost = Limit

\* A restart costs a permit per listener it replaces, and nothing else loses one:
\* after Limit \div 2 changes of the addresses the proxy may accept nothing any more.
LossPerChange == lost <= 2 * changes

(***************************************************************************)
(* Why these hold.                                                         *)
(***************************************************************************)
\* A connection is with one listener at most.
TakenOnce ==
  \A l, m \in Listener : l # m /\ taken[l] # None => taken[l] # taken[m]

\* `listen` only starts tasks when those of the last start have ended.
StoppedInOrder ==
  /\ addr = None => main \in {"check", "start"} /\ \A l \in Listener : at[l] = "unborn"
  /\ main = "stopHttps" => at["http"] = "ended"
  /\ main = "start" => \A l \in Listener : at[l] \in {"unborn", "ended"}

\* Tokens are cancelled in order, and only during a restart.
TokensInOrder ==
  \/ main = "check" /\ \A l \in Listener : ~token[l]
  \/ main = "stopHttp" /\ token["http"] /\ ~token["https"]
  \/ main = "stopHttps" /\ token["http"] /\ token["https"]
  \/ main = "start" /\ ((addr = None /\ \A l \in Listener : ~token[l])
                         \/ (addr # None /\ \A l \in Listener : token[l]))

\* Restarts that have begun, from the configuration `listen` has read last.
Restarts == IF main = "check" THEN IF starts = 0 THEN 0 ELSE starts - 1 ELSE starts
Current  == IF main = "check" THEN addr ELSE next

\* Every restart answers a change; one more is due when the addresses differ.
RestartPerChange ==
  /\ addr = None <=> starts = 0
  /\ addr # None \/ main = "start" => Restarts + (IF Current = want THEN 0 ELSE 1) <= changes
  /\ addr = None => lost = 0

Gone(l) == IF at[l] = "ended" THEN 1 ELSE 0

\* A restart has lost at most a permit per listener it has stopped so far.
LossSoFar ==
  /\ main \in {"check", "start"} => lost <= 2 * Restarts
  /\ main = "stopHttp"  => lost + 2 <= 2 * Restarts + Gone("http")
  /\ main = "stopHttps" => lost + 1 <= 2 * Restarts + Gone("https")

\* Inductive.
PermitInv ==
  /\ TypeOK
  /\ TakenOnce
  /\ StoppedInOrder
  /\ TokensInOrder
  /\ RestartPerChange
  /\ LossSoFar
  /\ PermitsConserved

BindFailed(l) == at[l] = "ended" /\ ~token[l] /\ ~exit

\* The listeners come to listen on the addresses of the last configuration, or
\* their bind has failed, however often the addresses changed during a restart.
ListenersFollow ==
  <>[](exit \/ (addr = want /\ \A l \in Listener : Listening(l) \/ BindFailed(l)))

\* A client in the backlog is served or reset: restarts and the permits they lose
\* do not stop the listeners, as long as two permits are left.  An idle listener
\* keeps one, so with a single permit the other listener would starve.
ClientsAnswered ==
  \A c \in Conns : (conn[c] \in Listener /\ ~exit) ~> (conn[c] \in {"served", "out"} \/ exit)
=============================================================================
