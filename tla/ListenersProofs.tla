-------------------------- MODULE ListenersProofs --------------------------
(***************************************************************************)
(* Permits of the connection semaphore are conserved, and only restarts of *)
(* the listeners lose any: for every limit, any set of connections and     *)
(* addresses and any number of changes.                                    *)
(***************************************************************************)
EXTENDS Listeners, FiniteSetTheorems, TLAPS

USE DEF Listener, Points, mainVars, taskVars, permitVars, confVars, vars

\* The parts of the invariant that no count enters.
Shape == TypeOK /\ TakenOnce /\ StoppedInOrder /\ TokensInOrder

\* The sets that hold permits are finite.
LEMMA HoldersFinite ==
  ASSUME TypeOK
  PROVE  /\ IsFiniteSet(Serving) /\ Cardinality(Serving) \in Nat
         /\ IsFiniteSet(Holding) /\ Cardinality(Holding) \in Nat
<1>1. IsFiniteSet({}) /\ IsFiniteSet({"http"}) /\ IsFiniteSet({"http", "https"})
  <2>1. IsFiniteSet({})
    BY FS_EmptySet
  <2>2. IsFiniteSet({} \cup {"http"})
    BY <2>1, FS_AddElement
  <2>3. IsFiniteSet(({} \cup {"http"}) \cup {"https"})
    BY <2>2, FS_AddElement
  <2>4. {} \cup {"http"} = {"http"} /\ ({} \cup {"http"}) \cup {"https"} = {"http", "https"}
    OBVIOUS
  <2> QED
    BY <2>1, <2>2, <2>3, <2>4
<1>2. Holding \in SUBSET {"http", "https"}
  BY DEF Holding
<1>3. Serving \in SUBSET Conns
  BY DEF Serving
<1>4. IsFiniteSet(Serving) /\ IsFiniteSet(Holding)
  BY <1>1, <1>2, <1>3, FS_Subset, ListenerAssumption
<1> QED
  BY <1>4, FS_CardinalityType

-----------------------------------------------------------------------------
\* What dropping the backlog of a listener does to connections.
LEMMA DroppedConns ==
  ASSUME TypeOK, TakenOnce, NEW l \in Listener
  PROVE  /\ Dropped(l) \in [Conns -> Listener \cup {"out", "taken", "served"}]
         /\ \A c \in Conns : Dropped(l)[c] = "served" <=> conn[c] = "served"
         /\ \A m \in Listener \ {l} : taken[m] # None => Dropped(l)[taken[m]] = "taken"
<1>1. \A c \in Conns : c = taken[l] => conn[c] = "taken"
  BY ListenerAssumption DEF TypeOK
<1>2. \A m \in Listener \ {l} : taken[m] # None =>
        taken[m] \in Conns /\ conn[taken[m]] = "taken" /\ taken[m] # taken[l]
  BY DEF TypeOK, TakenOnce
<1>3. \A c \in Conns : Dropped(l)[c] = IF conn[c] = l \/ c = taken[l] THEN "out" ELSE conn[c]
  BY DEF Dropped
<1>4. Dropped(l) \in [Conns -> Listener \cup {"out", "taken", "served"}]
  BY DEF Dropped, TypeOK
<1>5. \A c \in Conns : conn[c] \in Listener \cup {"out", "taken", "served"}
  BY DEF TypeOK
<1>6. ASSUME NEW c \in Conns PROVE Dropped(l)[c] = "served" <=> conn[c] = "served"
  <2>1. CASE conn[c] = l
    BY <2>1, <1>3
  <2>2. CASE c = taken[l]
    BY <2>2, <1>3, <1>1
  <2>3. CASE ~(conn[c] = l \/ c = taken[l])
    BY <2>3, <1>3
  <2> QED
    BY <2>1, <2>2, <2>3
<1>7. ASSUME NEW m \in Listener \ {l}, taken[m] # None PROVE Dropped(l)[taken[m]] = "taken"
  <2>1. taken[m] \in Conns /\ conn[taken[m]] = "taken" /\ taken[m] # taken[l]
    BY <1>2, <1>7
  <2> QED
    BY <2>1, <1>3
<1> QED
  BY <1>4, <1>6, <1>7

\* start-up.
LEMMA InitPermits == Init => PermitInv
<1> SUFFICES ASSUME Init PROVE PermitInv
  OBVIOUS
<1>1. TypeOK
  <2>1. changes \in 0..MaxChanges /\ permits \in Nat
    BY ListenerAssumption DEF Init
  <2>2. conn \in [Conns -> Listener \cup {"out", "taken", "served"}]
    BY DEF Init
  <2>3. /\ at \in [Listener -> Points] /\ token \in [Listener -> BOOLEAN]
        /\ taken \in [Listener -> Conns \cup {None}]
        /\ \A l \in Listener : at[l] = "unborn" /\ taken[l] = None
    BY DEF Init
  <2> QED
    BY <2>1, <2>2, <2>3 DEF Init, TypeOK
<1>2. Serving = {} /\ Holding = {}
  BY DEF Init, Serving, Holding
<1>3. PermitsConserved
  BY <1>2, FS_EmptySet, ListenerAssumption DEF PermitsConserved, Init
<1>4. TakenOnce /\ StoppedInOrder /\ TokensInOrder
  BY DEF Init, TakenOnce, StoppedInOrder, TokensInOrder
<1>5. RestartPerChange /\ LossSoFar
  BY DEF Init, RestartPerChange, LossSoFar, Gone, Restarts
<1> QED
  BY <1>1, <1>3, <1>4, <1>5 DEF PermitInv

-----------------------------------------------------------------------------
\* The loop of `listen` keeps the shape.
LEMMA MainShape ==
  ASSUME Shape, MainStep
  PROVE  Shape'
<1>1. CASE Check
  <2>1. TypeOK'
    BY <1>1 DEF Shape, TypeOK, Check
  <2>2. TakenOnce' /\ StoppedInOrder'
    BY <1>1 DEF Shape, TakenOnce, StoppedInOrder, Check
  <2>3. TokensInOrder'
    BY <1>1 DEF Shape, TypeOK, TokensInOrder, Check
  <2> QED
    BY <2>1, <2>2, <2>3 DEF Shape
<1>2. CASE HttpStopped
  BY <1>2 DEF Shape, TypeOK, TakenOnce, StoppedInOrder, TokensInOrder, HttpStopped
<1>3. CASE HttpsStopped
  BY <1>3 DEF Shape, TypeOK, TakenOnce, StoppedInOrder, TokensInOrder, HttpsStopped
<1>4. CASE Start
  <2>1. \A l \in Listener : at[l] \in {"unborn", "ended"}
    BY <1>4 DEF Shape, StoppedInOrder, Start
  <2>2. TypeOK'
    BY <1>4, <2>1 DEF Shape, TypeOK, Start
  <2>3. addr' # None
    BY <1>4, ListenerAssumption DEF Shape, TypeOK, Start
  <2> QED
    BY <1>4, <2>2, <2>3 DEF Shape, TakenOnce, StoppedInOrder, TokensInOrder, Start
<1> QED
  BY <1>1, <1>2, <1>3, <1>4 DEF MainStep

\* A listener that ends keeps the shape.
LEMMA EndShape ==
  ASSUME Shape, NEW l \in Listener, End(l), at[l] \in {"bind", "top", "acquire", "accept", "handOn"},
         permits' \in Nat, lost' \in Nat,
         UNCHANGED <<mainVars, token, confVars, exit>>
  PROVE  Shape'
<1>1. TypeOK'
  <2>1. conn' \in [Conns -> Listener \cup {"out", "taken", "served"}]
    BY DroppedConns DEF Shape, End
  <2>2. /\ at' \in [Listener -> Points] /\ at'[l] = "ended"
        /\ \A m \in Listener \ {l} : at'[m] = at[m]
    BY DEF Shape, TypeOK, End, Goto
  <2>3. /\ taken' \in [Listener -> Conns \cup {None}] /\ taken'[l] = None
        /\ \A m \in Listener \ {l} : taken'[m] = taken[m]
    BY DEF Shape, TypeOK, End
  <2>4. \A m \in Listener : taken'[m] # None => conn'[taken'[m]] = "taken"
    BY <2>3, DroppedConns DEF Shape, End
  <2>5. \A m \in Listener : (at'[m] = "handOn") <=> (taken'[m] # None)
    BY <2>2, <2>3 DEF Shape, TypeOK
  <2> QED
    BY <2>1, <2>2, <2>3, <2>4, <2>5 DEF Shape, TypeOK
<1>2. TakenOnce'
  BY DEF Shape, TypeOK, TakenOnce, End
<1>3. StoppedInOrder'
  BY DEF Shape, TypeOK, StoppedInOrder, End, Goto
<1>4. TokensInOrder'
  BY DEF Shape, TokensInOrder
<1> QED
  BY <1>1, <1>2, <1>3, <1>4 DEF Shape

\* A listener's own steps keep the shape.
LEMMA ListenerShape ==
  ASSUME Shape, NEW l \in Listener, ListenerStep(l)
  PROVE  Shape'
<1>1. CASE Bind(l)
  BY <1>1 DEF Shape, TypeOK, TakenOnce, StoppedInOrder, TokensInOrder, Bind, Goto
<1>2. CASE Top(l)
  <2>1. CASE token[l] \/ exit
    BY <1>2, <2>1, EndShape DEF Top, Shape, TypeOK
  <2>2. CASE ~(token[l] \/ exit)
    BY <1>2, <2>2 DEF Shape, TypeOK, TakenOnce, StoppedInOrder, TokensInOrder, Top, Goto
  <2> QED
    BY <2>1, <2>2
<1>3. CASE Acquire(l)
  BY <1>3 DEF Shape, TypeOK, TakenOnce, StoppedInOrder, TokensInOrder, Acquire, Goto
<1>4. ASSUME NEW c \in Conns, Accept(l, c) PROVE Shape'
  <2>1. \A m \in Listener : taken[m] # c
    BY <1>4, ListenerAssumption DEF Shape, TypeOK, Accept
  <2>2. c # None
    BY ListenerAssumption
  <2>3. TypeOK'
    BY <1>4, <2>1, <2>2 DEF Shape, TypeOK, Accept, Goto
  <2>4. TakenOnce'
    BY <1>4, <2>1 DEF Shape, TypeOK, TakenOnce, Accept
  <2> QED
    BY <1>4, <2>3, <2>4 DEF Shape, TypeOK, StoppedInOrder, TokensInOrder, Accept, Goto
<1>5. CASE AcceptFails(l)
  <2>1. PICK c \in Conns : conn[c] = l /\ conn' = [conn EXCEPT ![c] = "out"]
    BY <1>5 DEF AcceptFails
  <2>2. \A m \in Listener : taken[m] # None => taken[m] # c
    BY <2>1 DEF Shape, TypeOK
  <2>3. TypeOK'
    BY <1>5, <2>1, <2>2 DEF Shape, TypeOK, AcceptFails, Goto
  <2> QED
    BY <1>5, <2>3 DEF Shape, TypeOK, TakenOnce, StoppedInOrder, TokensInOrder, AcceptFails, Goto
<1>6. CASE HandOn(l)
  <2>1. taken[l] \in Conns
    BY <1>6, ListenerAssumption DEF Shape, TypeOK, HandOn
  <2>2. \A m \in Listener \ {l} : taken[m] # None => taken[m] # taken[l]
    BY DEF Shape, TakenOnce
  <2>3. TypeOK'
    BY <1>6, <2>1, <2>2 DEF Shape, TypeOK, HandOn, Goto
  <2>4. TakenOnce'
    BY <1>6 DEF Shape, TypeOK, TakenOnce, HandOn
  <2> QED
    BY <1>6, <2>3, <2>4 DEF Shape, TypeOK, StoppedInOrder, TokensInOrder, HandOn, Goto
<1>7. CASE Cancelled(l)
  <2>1. lost' \in Nat /\ permits' \in Nat
    BY <1>7 DEF Cancelled, Shape, TypeOK
  <2> QED
    BY <1>7, <2>1, EndShape DEF Cancelled
<1> QED
  BY <1>1, <1>2, <1>3, <1>4, <1>5, <1>6, <1>7 DEF ListenerStep

\* Clients, the file, exit.
LEMMA RestShape ==
  ASSUME Shape,
         \/ \E c \in Conns : Served(c) \/ \E l \in Listener : Connect(c, l)
         \/ \E a \in Addrs : Reconfigure(a)
         \/ Exit
         \/ UNCHANGED vars
  PROVE  Shape'
<1>1. ASSUME NEW c \in Conns, Served(c) PROVE Shape'
  BY <1>1 DEF Shape, TypeOK, TakenOnce, StoppedInOrder, TokensInOrder, Served
<1>2. ASSUME NEW c \in Conns, NEW l \in Listener, Connect(c, l) PROVE Shape'
  BY <1>2 DEF Shape, TypeOK, TakenOnce, StoppedInOrder, TokensInOrder, Connect
<1>3. ASSUME NEW a \in Addrs, Reconfigure(a) PROVE Shape'
  <2>1. changes' \in 0..MaxChanges
    BY <1>3, ListenerAssumption DEF Shape, TypeOK, Reconfigure
  <2> QED
    BY <1>3, <2>1 DEF Shape, TypeOK, TakenOnce, StoppedInOrder, TokensInOrder, Reconfigure
<1>4. CASE Exit \/ UNCHANGED vars
  BY <1>4 DEF Shape, TypeOK, TakenOnce, StoppedInOrder, TokensInOrder, Exit
<1> QED
  BY <1>1, <1>2, <1>3, <1>4

LEMMA ShapeStep == Shape /\ [Next]_vars => Shape'
BY MainShape, ListenerShape, RestShape DEF Next

-----------------------------------------------------------------------------
\* Every step conserves permits.
LEMMA CountStep ==
  ASSUME Shape, PermitsConserved, [Next]_vars
  PROVE  PermitsConserved'
<1> DEFINE S == Cardinality(Serving)
           H == Cardinality(Holding)
<1>0. /\ IsFiniteSet(Serving) /\ S \in Nat /\ IsFiniteSet(Holding) /\ H \in Nat
      /\ permits \in Nat /\ lost \in Nat /\ Limit \in Nat
      /\ permits + S + H + lost = Limit
  BY HoldersFinite, ListenerAssumption DEF Shape, TypeOK, PermitsConserved
<1>q. ASSUME UNCHANGED <<permits, lost>>, Serving' = Serving, Holding' = Holding
      PROVE  PermitsConserved'
  BY <1>q DEF PermitsConserved
<1>1. CASE MainStep
  <2>1. CASE Check \/ HttpStopped \/ HttpsStopped
    BY <1>q, <2>1 DEF Check, HttpStopped, HttpsStopped, Serving, Holding
  <2>2. CASE Start
    <3>1. Holding = {} /\ Holding' = {}
      BY <2>2 DEF Start, Shape, StoppedInOrder, Holding
    <3> QED
      BY <1>q, <2>2, <3>1 DEF Start, Serving
  <2> QED
    BY <1>1, <2>1, <2>2 DEF MainStep
<1>2. ASSUME NEW l \in Listener, Bind(l) PROVE PermitsConserved'
  <2>1. Holding' = Holding /\ Serving' = Serving
    BY <1>2 DEF Bind, Goto, Shape, TypeOK, Holding, Serving
  <2> QED
    BY <1>2, <1>q, <2>1 DEF Bind
<1>3. ASSUME NEW l \in Listener, Top(l) PROVE PermitsConserved'
  <2>1. Holding' = Holding
    BY <1>3 DEF Top, End, Goto, Shape, TypeOK, Holding
  <2>2. Serving' = Serving
    BY <1>3, DroppedConns DEF Top, End, Shape, Serving
  <2> QED
    BY <1>3, <1>q, <2>1, <2>2 DEF Top
<1>4. ASSUME NEW l \in Listener, Acquire(l) PROVE PermitsConserved'
  <2>1. Holding' = Holding \cup {l} /\ l \notin Holding /\ Serving' = Serving
    BY <1>4 DEF Acquire, Goto, Shape, TypeOK, Holding, Serving
  <2>2. Cardinality(Holding') = H + 1 /\ Cardinality(Serving') = S
    BY <1>0, <2>1, FS_AddElement
  <2> QED
    BY <1>0, <1>4, <2>2 DEF Acquire, PermitsConserved
<1>5. ASSUME NEW l \in Listener, NEW c \in Conns, Accept(l, c) PROVE PermitsConserved'
  <2>1. Holding' = Holding /\ Serving' = Serving
    BY <1>5 DEF Accept, Goto, Shape, TypeOK, Holding, Serving
  <2> QED
    BY <1>5, <1>q, <2>1 DEF Accept
<1>6. ASSUME NEW l \in Listener, AcceptFails(l) PROVE PermitsConserved'
  <2>1. Holding' = Holding \ {l} /\ l \in Holding /\ Serving' = Serving
    BY <1>6 DEF AcceptFails, Goto, Shape, TypeOK, Holding, Serving
  <2>2. Cardinality(Holding') = H - 1 /\ Cardinality(Serving') = S
    BY <1>0, <2>1, FS_RemoveElement
  <2> QED
    BY <1>0, <1>6, <2>2 DEF AcceptFails, PermitsConserved
<1>7. ASSUME NEW l \in Listener, HandOn(l) PROVE PermitsConserved'
  <2>1. Holding' = Holding \ {l} /\ l \in Holding
    BY <1>7 DEF HandOn, Goto, Shape, TypeOK, Holding
  <2>2. taken[l] \in Conns /\ conn[taken[l]] = "taken"
    BY <1>7, ListenerAssumption DEF HandOn, Shape, TypeOK
  <2>3. Serving' = Serving \cup {taken[l]} /\ taken[l] \notin Serving
    BY <1>7, <2>2 DEF HandOn, Shape, TypeOK, Serving
  <2>4. Cardinality(Holding') = H - 1 /\ Cardinality(Serving') = S + 1
    BY <1>0, <2>1, <2>3, FS_RemoveElement, FS_AddElement
  <2> QED
    BY <1>0, <1>7, <2>4 DEF HandOn, PermitsConserved
<1>8. ASSUME NEW l \in Listener, Cancelled(l) PROVE PermitsConserved'
  <2>1. Serving' = Serving
    BY <1>8, DroppedConns DEF Cancelled, End, Shape, Serving
  <2>2. Holding' = Holding \ {l} /\ (l \in Holding <=> at[l] \notin {"bind", "acquire"})
    BY <1>8 DEF Cancelled, End, Goto, Shape, TypeOK, Holding
  <2>3. Cardinality(Serving') = S
        /\ Cardinality(Holding') = IF at[l] \in {"bind", "acquire"} THEN H ELSE H - 1
    BY <1>0, <2>1, <2>2, FS_RemoveElement
  <2> QED
    BY <1>0, <1>8, <2>3 DEF Cancelled, PermitsConserved
<1>9. ASSUME NEW c \in Conns, Served(c) PROVE PermitsConserved'
  <2>1. Serving' = Serving \ {c} /\ c \in Serving /\ Holding' = Holding
    BY <1>9 DEF Served, Shape, TypeOK, Serving, Holding
  <2>2. Cardinality(Serving') = S - 1 /\ Cardinality(Holding') = H
    BY <1>0, <2>1, FS_RemoveElement
  <2> QED
    BY <1>0, <1>9, <2>2 DEF Served, PermitsConserved
<1>10. ASSUME NEW c \in Conns, NEW l \in Listener, Connect(c, l) PROVE PermitsConserved'
  <2>1. Serving' = Serving /\ Holding' = Holding
    BY <1>10 DEF Connect, Shape, TypeOK, Serving, Holding
  <2> QED
    BY <1>10, <1>q, <2>1 DEF Connect
<1>11. CASE (\E a \in Addrs : Reconfigure(a)) \/ Exit \/ UNCHANGED vars
  BY <1>11, <1>q DEF Reconfigure, Exit, Serving, Holding
<1> QED
  BY <1>1, <1>2, <1>3, <1>4, <1>5, <1>6, <1>7, <1>8, <1>9, <1>10, <1>11
     DEF Next, ListenerStep

-----------------------------------------------------------------------------
\* Restarts answer changes, and lose at most a permit per listener stopped.
LEMMA LossStep ==
  ASSUME Shape, RestartPerChange, LossSoFar, [Next]_vars
  PROVE  RestartPerChange' /\ LossSoFar'
<1>0. /\ starts \in Nat /\ lost \in Nat /\ changes \in Nat /\ Restarts \in Nat
      /\ main \in {"check", "stopHttp", "stopHttps", "start"}
      /\ at \in [Listener -> Points]
  BY ListenerAssumption DEF Shape, TypeOK, Restarts
<1>1. CASE Check
  BY <1>0, <1>1 DEF Check, Shape, TypeOK, StoppedInOrder,
    RestartPerChange, LossSoFar, Gone, Restarts, Current
<1>2. CASE HttpStopped
  BY <1>0, <1>2 DEF HttpStopped, Shape, StoppedInOrder,
    RestartPerChange, LossSoFar, Gone, Restarts, Current
<1>3. CASE HttpsStopped
  BY <1>0, <1>3 DEF HttpsStopped, Shape, StoppedInOrder,
    RestartPerChange, LossSoFar, Gone, Restarts, Current
<1>4. CASE Start
  <2>1. next # None
    BY ListenerAssumption DEF Shape, TypeOK
  <2> QED
    BY <1>0, <1>4, <2>1 DEF Start, Shape, StoppedInOrder,
    RestartPerChange, LossSoFar, Gone, Restarts, Current
<1>5. ASSUME NEW l \in Listener, Cancelled(l) PROVE RestartPerChange' /\ LossSoFar'
  <2>1. /\ token[l] /\ at[l] # "ended" /\ at[l] # "unborn"
        /\ at' = [at EXCEPT ![l] = "ended"]
        /\ lost' \in {lost, lost + 1}
        /\ UNCHANGED <<main, next, addr, starts, want, changes>>
    BY <1>5 DEF Cancelled, End, Goto
  <2>2. addr # None
    BY <2>1 DEF Shape, StoppedInOrder
  <2>3. /\ main \in {"stopHttp", "stopHttps"}
        /\ main = "stopHttp" => l = "http"
        /\ main = "stopHttps" => l = "https"
    BY <2>1, <2>2 DEF Shape, StoppedInOrder, TokensInOrder
  <2>4. RestartPerChange'
    BY <2>1, <2>2 DEF RestartPerChange, Restarts, Current
  <2>5. Gone(l) = 0 /\ Gone(l)' = 1
    BY <1>0, <2>1 DEF Gone
  <2>r. Restarts' = Restarts
    BY <2>1 DEF Restarts
  <2>n. lost \in Nat /\ Restarts \in Nat /\ (lost' = lost \/ lost' = lost + 1)
    BY <1>0, <2>1
  <2>6. LossSoFar'
    <3>1. CASE main = "stopHttp"
      <4>1. lost + 2 <= 2 * Restarts + 0
        BY <2>3, <2>5, <3>1 DEF LossSoFar
      <4>2. lost' + 2 <= 2 * Restarts' + 1
        BY <2>r, <2>n, <4>1
      <4> QED
        BY <2>1, <2>3, <2>5, <3>1, <4>2 DEF LossSoFar
    <3>2. CASE main = "stopHttps"
      <4>1. lost + 1 <= 2 * Restarts + 0
        BY <2>3, <2>5, <3>2 DEF LossSoFar
      <4>2. lost' + 1 <= 2 * Restarts' + 1
        BY <2>r, <2>n, <4>1
      <4> QED
        BY <2>1, <2>3, <2>5, <3>2, <4>2 DEF LossSoFar
    <3> QED
      BY <2>3, <3>1, <3>2
  <2> QED
    BY <2>4, <2>6
<1>6. ASSUME NEW l \in Listener, Top(l) \/ Bind(l) \/ Acquire(l) \/ AcceptFails(l) \/ HandOn(l)
                                 \/ \E c \in Conns : Accept(l, c)
      PROVE  RestartPerChange' /\ LossSoFar'
  <2>1. /\ UNCHANGED <<main, next, addr, starts, want, changes, lost>>
        /\ \A m \in Listener : at[m] = "ended" => at'[m] = "ended"
    BY <1>0, <1>6 DEF Top, Bind, Acquire, AcceptFails, HandOn, Accept, End, Goto
  <2>2. RestartPerChange'
    BY <2>1 DEF RestartPerChange, Restarts, Current
  <2>3. LossSoFar'
    BY <1>0, <2>1 DEF LossSoFar, Gone, Restarts
  <2> QED
    BY <2>2, <2>3
<1>7. ASSUME NEW a \in Addrs, Reconfigure(a) PROVE RestartPerChange' /\ LossSoFar'
  BY <1>0, <1>7 DEF Reconfigure,
    RestartPerChange, LossSoFar, Gone, Restarts, Current
<1>8. CASE \/ \E c \in Conns : Served(c) \/ \E l \in Listener : Connect(c, l)
           \/ Exit \/ UNCHANGED vars
  BY <1>8 DEF Served, Connect, Exit,
    RestartPerChange, LossSoFar, Gone, Restarts, Current
<1> QED
  BY <1>1, <1>2, <1>3, <1>4, <1>5, <1>6, <1>7, <1>8 DEF Next, MainStep, ListenerStep

\* The invariant holds in every state.
LEMMA PermitsCorrect == Spec => []PermitInv
<1>1. PermitInv /\ [Next]_vars => PermitInv'
  BY ShapeStep, CountStep, LossStep DEF PermitInv, Shape
<1> QED
  BY <1>1, InitPermits, PTL DEF Spec

\* Every variable keeps its type (proxy.rs).
THEOREM ListenersTypeCorrect == Spec => []TypeOK
<1>1. PermitInv => TypeOK
  BY DEF PermitInv
<1> QED
  BY <1>1, PermitsCorrect, PTL

\* Permits are free, with a connection, with a listener, or lost (proxy.rs).
THEOREM PermitsConservedCorrect == Spec => []PermitsConserved
<1>1. PermitInv => PermitsConserved
  BY DEF PermitInv
<1> QED
  BY <1>1, PermitsCorrect, PTL

\* Only a change of the addresses costs permits, two at most (proxy.rs).
THEOREM LossPerChangeCorrect == Spec => []LossPerChange
<1>1. PermitInv => LossPerChange
  <2> SUFFICES ASSUME PermitInv PROVE LossPerChange
    OBVIOUS
  <2>1. starts \in Nat /\ lost \in Nat /\ changes \in Nat
        /\ main \in {"check", "stopHttp", "stopHttps", "start"}
    BY ListenerAssumption DEF PermitInv, TypeOK
  <2>2. addr = None => lost = 0
    BY DEF PermitInv, RestartPerChange
  <2>3. addr # None => Restarts \in Nat /\ Restarts <= changes
    BY <2>1 DEF PermitInv, RestartPerChange, Restarts
  <2>4. addr # None => lost <= 2 * Restarts
    BY <2>1, <2>3 DEF PermitInv, LossSoFar, Gone
  <2> QED
    BY <2>1, <2>2, <2>3, <2>4 DEF LossPerChange
<1> QED
  BY <1>1, PermitsCorrect, PTL
=============================================================================
