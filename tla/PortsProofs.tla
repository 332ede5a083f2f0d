---------------------------- MODULE PortsProofs ----------------------------
(***************************************************************************)
(* Hosts whose claim on a port has always been in the active configuration *)
(* never share it: for any sites, ports, blocks, passes and behaviour of   *)
(* the other programs of the machine.                                      *)
(***************************************************************************)
EXTENDS Ports, TLAPS

\* What set_active_port selects is a port.
LEMMA SelectionIsPort ==
  ASSUME NEW s \in Sites, NEW b, NEW p \in Selection(s, b)
  PROVE  p \in Port
BY DEF Selection

\* Whatever another block of the active configuration carries is busy.
LEMMA RecordedIsBusy ==
  ASSUME NEW s \in Sites, NEW t \in Sites, s # t, block[t] # None, recorded[t] # None
  PROVE  recorded[t] \in Busy(s)
BY DEF Busy

\* start-up satisfies the invariant.
LEMMA InitClaim == Init => ClaimInv
<1> SUFFICES ASSUME Init PROVE ClaimInv
  OBVIOUS
<1>1. TypeOK
  BY PortAssumption DEF Init, TypeOK
<1>2. \A s \in Sites : recorded[s] = None /\ port[s] = None /\ entry[s] = None
                       /\ plan[s].port = None
  BY DEF Init
<1> QED
  BY <1>1, <1>2 DEF ClaimInv, RecordedIsListed, ClaimRecorded, RecordedDistinct,
     EntryHasHolder, PlanHasHolder, ListedInPlan, Holds

USE DEF hostVars, confVars, passVars, vars

\* A host that selects a port keeps the claims apart.
LEMMA ChooseClaim ==
  ASSUME ClaimInv, NEW s \in Sites, Choose(s)
  PROVE  ClaimInv'
<1>0. PICK p \in Port \cup {None} :
        /\ host[s] = "idle"
        /\ host' = [host EXCEPT ![s] = "chosen"]
        /\ UNCHANGED <<marked, entry, block, pass, plan, touched, passes, cache, bound, foreign>>
        /\ \/ KeepsPort(s) /\ UNCHANGED <<port, recorded, unclaimed>>
           \/ /\ p \in Port
              /\ port' = [port EXCEPT ![s] = p]
              /\ recorded' = IF block[s] = None THEN recorded
                             ELSE [recorded EXCEPT ![s] = p]
              /\ unclaimed' = IF block[s] = None \/ p \in Busy(s)
                              THEN unclaimed \cup {s} ELSE unclaimed \ {s}
  BY SelectionIsPort DEF Choose
<1>1. CASE KeepsPort(s) /\ UNCHANGED <<port, recorded, unclaimed>>
  <2>1. port[s] # None /\ port[s] \in Port
    BY <1>1 DEF KeepsPort, ClaimInv, TypeOK
  <2>2. TypeOK'
    BY <1>0, <1>1, <2>1 DEF ClaimInv, TypeOK
  <2> QED
    BY <1>0, <1>1, <2>1, <2>2 DEF ClaimInv, TypeOK, RecordedIsListed, ClaimRecorded,
       RecordedDistinct, EntryHasHolder, PlanHasHolder, ListedInPlan, Holds
<1>2. CASE /\ p \in Port
           /\ port' = [port EXCEPT ![s] = p]
           /\ recorded' = IF block[s] = None THEN recorded
                          ELSE [recorded EXCEPT ![s] = p]
           /\ unclaimed' = IF block[s] = None \/ p \in Busy(s)
                           THEN unclaimed \cup {s} ELSE unclaimed \ {s}
  <2>0. p # None
    BY <1>2, PortAssumption
  <2>1. TypeOK'
    BY <1>0, <1>2 DEF ClaimInv, TypeOK
  <2>2. RecordedIsListed'
    BY <1>0, <1>2 DEF ClaimInv, TypeOK, RecordedIsListed
  <2>3. ClaimRecorded'
    BY <1>0, <1>2 DEF ClaimInv, TypeOK, ClaimRecorded, Holds
  <2>4. RecordedDistinct'
    <3>1. CASE block[s] = None \/ p \in Busy(s)
      BY <1>0, <1>2, <3>1 DEF ClaimInv, TypeOK, RecordedDistinct
    <3>2. CASE block[s] # None /\ p \notin Busy(s)
      <4>1. \A t \in Sites \ {s} : recorded[t] # None => recorded[t] # p
        BY <3>2, RecordedIsBusy DEF ClaimInv, RecordedIsListed
      <4> QED
        BY <1>0, <1>2, <3>2, <4>1 DEF ClaimInv, TypeOK, RecordedDistinct
    <3> QED
      BY <3>1, <3>2
  <2>5. EntryHasHolder'
    BY <1>0, <1>2, <2>0 DEF ClaimInv, TypeOK, EntryHasHolder
  <2>6. PlanHasHolder'
    BY <1>0, <1>2, <2>0 DEF ClaimInv, TypeOK, PlanHasHolder
  <2>7. ListedInPlan'
    BY <1>0 DEF ClaimInv, ListedInPlan
  <2> QED
    BY <2>1, <2>2, <2>3, <2>4, <2>5, <2>6, <2>7 DEF ClaimInv
<1> QED
  BY <1>0, <1>1, <1>2

\* Launching, binding, ending and leaving do not touch the configuration.
LEMMA HostClaim ==
  ASSUME ClaimInv, NEW s \in Sites,
         Launch(s) \/ Bind(s) \/ ProcessEnds(s) \/ Leave(s)
  PROVE  ClaimInv'
<1>1. CASE Launch(s)
  <2>1. port[s] \in Port /\ port[s] # None
    BY <1>1, PortAssumption DEF Launch, ClaimInv, TypeOK
  <2>2. TypeOK'
    BY <1>1, <2>1 DEF Launch, ClaimInv, TypeOK
  <2> QED
    BY <1>1, <2>1, <2>2 DEF Launch, ClaimInv, TypeOK, RecordedIsListed, ClaimRecorded,
       RecordedDistinct, EntryHasHolder, PlanHasHolder, ListedInPlan, Holds
<1>2. CASE Bind(s)
  <2>1. TypeOK'
    BY <1>2 DEF Bind, ClaimInv, TypeOK
  <2> QED
    BY <1>2, <2>1 DEF Bind, ClaimInv, RecordedIsListed, ClaimRecorded,
       RecordedDistinct, EntryHasHolder, PlanHasHolder, ListedInPlan, Holds
<1>3. Released(s) \in [Port -> Sites \cup {None, Foreign}]
  BY DEF Released, ClaimInv, TypeOK
<1>4. CASE ProcessEnds(s)
  <2>1. TypeOK'
    BY <1>3, <1>4 DEF ProcessEnds, ClaimInv, TypeOK
  <2> QED
    BY <1>4, <2>1 DEF ProcessEnds, ClaimInv, TypeOK, RecordedIsListed, ClaimRecorded,
       RecordedDistinct, EntryHasHolder, PlanHasHolder, ListedInPlan, Holds
<1>5. CASE Leave(s)
  <2>1. TypeOK'
    BY <1>3, <1>5 DEF Leave, ClaimInv, TypeOK
  <2> QED
    BY <1>5, <2>1 DEF Leave, ClaimInv, TypeOK, RecordedIsListed, ClaimRecorded,
       RecordedDistinct, EntryHasHolder, PlanHasHolder, ListedInPlan, Holds
<1> QED
  BY <1>1, <1>2, <1>4, <1>5

\* The plan of a pass only names ports that somebody holds or will be given.
LEMMA PlanClaim ==
  ASSUME ClaimInv, NEW c \in [Sites -> Blocks \cup {None}], NEW new \in SUBSET Sites,
         Plan(c, new)
  PROVE  ClaimInv'
<1>1. \A s \in Sites :
        /\ plan'[s].block = c[s]
        /\ plan'[s].port = IF host[s] = "off" \/ c[s] = None THEN None ELSE entry[s]
        /\ marked'[s] = (host[s] # "off" /\ (s \in new \/ c[s] = None))
  BY DEF Plan
<1>2. TypeOK'
  <2>1. plan' \in [Sites -> [block : Blocks \cup {None}, port : Port \cup {None}]]
    BY DEF Plan, ClaimInv, TypeOK
  <2>2. marked' \in [Sites -> BOOLEAN]
    <3>1. \A s \in Sites : (host[s] # "off" /\ (s \in new \/ c[s] = None)) \in BOOLEAN
      OBVIOUS
    <3> QED
      BY <3>1, Zenon DEF Plan
  <2>3. passes' \in 0..MaxPasses
    BY PortAssumption DEF Plan, ClaimInv, TypeOK
  <2> QED
    BY <2>1, <2>2, <2>3 DEF Plan, ClaimInv, TypeOK
<1>3. PlanHasHolder'
  BY <1>1 DEF Plan, ClaimInv, EntryHasHolder, PlanHasHolder
<1>4. ListedInPlan'
  BY <1>1 DEF ListedInPlan
<1> QED
  BY <1>2, <1>3, <1>4 DEF Plan, ClaimInv, RecordedIsListed, ClaimRecorded,
     RecordedDistinct, EntryHasHolder, Holds

\* A spawned host inherits the port of the plan, which is its claim or is noted.
LEMMA SpawnClaim ==
  ASSUME ClaimInv, SpawnHosts
  PROVE  ClaimInv'
<1>1. TypeOK'
  <2>1. \A s \in Sites : plan[s].port \in Port \cup {None}
    BY DEF ClaimInv, TypeOK
  <2>2. port' \in [Sites -> Port \cup {None}] /\ entry' \in [Sites -> Port \cup {None}]
    BY <2>1 DEF SpawnHosts, ClaimInv, TypeOK
  <2>3. host' \in [Sites -> {"off", "idle", "chosen", "up"}]
    BY DEF SpawnHosts, ClaimInv, TypeOK
  <2>4. \A s \in Sites : host'[s] \in {"chosen", "up"} => port'[s] \in Port
    BY DEF SpawnHosts, ClaimInv, TypeOK
  <2>5. cache' \in [Sites -> [port : Port, block : Blocks] \cup {None}]
    BY DEF SpawnHosts, ClaimInv, TypeOK
  <2> QED
    BY <2>2, <2>3, <2>4, <2>5 DEF SpawnHosts, ClaimInv, TypeOK
<1>2. ClaimRecorded'
  BY DEF SpawnHosts, ClaimInv, ClaimRecorded, RecordedIsListed, Holds
<1>3. RecordedDistinct'
  BY DEF SpawnHosts, ClaimInv, RecordedDistinct
<1>4. EntryHasHolder' /\ PlanHasHolder'
  BY DEF SpawnHosts, ClaimInv, EntryHasHolder, PlanHasHolder
<1> QED
  BY <1>1, <1>2, <1>3, <1>4 DEF SpawnHosts, ClaimInv, RecordedIsListed, ListedInPlan

\* The swap makes exactly the claims true that the plan still describes.
LEMMA SwapClaim ==
  ASSUME ClaimInv, Swap
  PROVE  ClaimInv'
<1>1. \A s \in Sites : block'[s] = plan[s].block /\ recorded'[s] = plan[s].port
  BY DEF Swap
<1>2. TypeOK'
  <2>1. \A s \in Sites : plan[s].port \in Port \cup {None} /\ plan[s].block \in Blocks \cup {None}
    BY DEF ClaimInv, TypeOK
  <2>2. recorded' \in [Sites -> Port \cup {None}] /\ block' \in [Sites -> Blocks \cup {None}]
    BY <2>1 DEF Swap
  <2> QED
    BY <2>2 DEF Swap, ClaimInv, TypeOK
<1>3. ClaimRecorded'
  BY <1>1 DEF Swap, ClaimInv, ClaimRecorded, ListedInPlan, Holds
<1>4. RecordedDistinct'
  <2>1. \A s \in Sites : recorded'[s] # None /\ s \notin unclaimed' =>
          /\ s \notin unclaimed
          /\ recorded[s] # None
          /\ recorded'[s] = recorded[s]
    BY <1>1 DEF Swap, ClaimInv, PlanHasHolder, ClaimRecorded, Holds
  <2> QED
    BY <2>1 DEF ClaimInv, RecordedDistinct
<1> QED
  BY <1>1, <1>2, <1>3, <1>4 DEF Swap, ClaimInv, RecordedIsListed, EntryHasHolder,
     PlanHasHolder, ListedInPlan

\* Everything else leaves the claims alone.
LEMMA RestClaim ==
  ASSUME ClaimInv,
         \/ Flush
         \/ \E s \in Sites : Lookup(s)
         \/ \E p \in Squatted : ForeignBinds(p) \/ ForeignLeaves(p)
         \/ UNCHANGED vars
  PROVE  ClaimInv'
<1>1. TypeOK'
  <2>1. CASE Flush
    BY <2>1 DEF Flush, ClaimInv, TypeOK
  <2>2. ASSUME NEW s \in Sites, Lookup(s) PROVE TypeOK'
    <3>1. [port |-> recorded[s], block |-> block[s]] \in [port : Port, block : Blocks]
      BY <2>2 DEF Lookup, ClaimInv, TypeOK
    <3> QED
      BY <2>2, <3>1 DEF Lookup, ClaimInv, TypeOK
  <2>3. ASSUME NEW p \in Squatted, ForeignBinds(p) PROVE TypeOK'
    BY <2>3, PortAssumption DEF ForeignBinds, ClaimInv, TypeOK
  <2>4. ASSUME NEW p \in Squatted, ForeignLeaves(p) PROVE TypeOK'
    BY <2>4 DEF ForeignLeaves, ClaimInv, TypeOK
  <2>5. CASE UNCHANGED vars
    BY <2>5 DEF ClaimInv, TypeOK
  <2> QED
    BY <2>1, <2>2, <2>3, <2>4, <2>5
<1>2. UNCHANGED <<host, port, marked, entry, block, recorded, plan, touched, unclaimed>>
  BY DEF Flush, Lookup, ForeignBinds, ForeignLeaves
<1>3. pass' \in {pass, "none"}
  BY DEF Flush, Lookup, ForeignBinds, ForeignLeaves
<1> QED
  BY <1>1, <1>2, <1>3 DEF ClaimInv, RecordedIsListed, ClaimRecorded,
     RecordedDistinct, EntryHasHolder, PlanHasHolder, ListedInPlan, Holds

\* Every step keeps the claims apart.
LEMMA StepClaim == ClaimInv /\ [Next]_vars => ClaimInv'
<1> SUFFICES ASSUME ClaimInv, [Next]_vars PROVE ClaimInv'
  OBVIOUS
<1>1. ASSUME NEW s \in Sites, HostStep(s) \/ Bind(s) \/ ProcessEnds(s) PROVE ClaimInv'
  BY <1>1, ChooseClaim, HostClaim DEF HostStep
<1>2. ASSUME NEW c \in [Sites -> Blocks \cup {None}], NEW new \in SUBSET Sites, Plan(c, new)
      PROVE  ClaimInv'
  BY <1>2, PlanClaim
<1>3. CASE SpawnHosts \/ Swap
  BY <1>3, SpawnClaim, SwapClaim
<1>4. CASE \/ Flush
           \/ \E s \in Sites : Lookup(s)
           \/ \E p \in Squatted : ForeignBinds(p) \/ ForeignLeaves(p)
           \/ UNCHANGED vars
  BY <1>4, RestClaim
<1> QED
  BY <1>1, <1>2, <1>3, <1>4 DEF Next, PassStep

\* The invariant holds in every state.
LEMMA ClaimCorrect == Spec => []ClaimInv
BY InitClaim, StepClaim, PTL DEF Spec

\* Every variable keeps its type (main.rs, proc_host.rs, reload.rs).
THEOREM PortsTypeCorrect == Spec => []TypeOK
<1>1. ClaimInv => TypeOK
  BY DEF ClaimInv
<1> QED
  BY <1>1, ClaimCorrect, PTL

\* set_active_port keeps two claimed ports apart (configuration/mod.rs).
THEOREM PortsDistinctCorrect == Spec => []ClaimedPortsDistinct
<1>1. ClaimInv => ClaimedPortsDistinct
  BY DEF ClaimInv, ClaimRecorded, RecordedDistinct, ClaimedPortsDistinct, Holds
<1> QED
  BY <1>1, ClaimCorrect, PTL

\* invalidate_cache comes after the swap, and nothing but a pass changes a block
\* or brings a host back (main.rs, reload.rs).
THEOREM CacheCorrect == Spec => []CacheFollowsConfig
<1>1. Init => CacheFollowsConfig
  BY DEF Init, CacheFollowsConfig, Hit
<1>2. ClaimInv /\ CacheFollowsConfig /\ [Next]_vars => CacheFollowsConfig'
  <2> SUFFICES ASSUME ClaimInv, CacheFollowsConfig, [Next]_vars
               PROVE  CacheFollowsConfig'
    OBVIOUS
  <2> USE DEF CacheFollowsConfig, Hit
  <2>1. ASSUME NEW s \in Sites, HostStep(s) \/ Bind(s) \/ ProcessEnds(s)
        PROVE  CacheFollowsConfig'
    <3>1. /\ UNCHANGED <<pass, cache, block>>
          /\ \A t \in Sites : host'[t] # "off" => host[t] # "off"
      BY <2>1 DEF HostStep, Choose, Launch, Leave, Bind, ProcessEnds, ClaimInv, TypeOK
    <3> QED
      BY <3>1
  <2>2. ASSUME NEW s \in Sites, Lookup(s)
        PROVE  CacheFollowsConfig'
    <3>1. cache' = [cache EXCEPT ![s] = [port |-> recorded[s], block |-> block[s]]]
          /\ UNCHANGED <<pass, host, block>>
      BY <2>2 DEF Lookup
    <3>2. cache'[s].block = block[s]
      BY <3>1 DEF ClaimInv, TypeOK
    <3>3. \A t \in Sites \ {s} : cache'[t] = cache[t]
      BY <3>1 DEF ClaimInv, TypeOK
    <3> QED
      BY <3>1, <3>2, <3>3
  <2>3. ASSUME NEW c \in [Sites -> Blocks \cup {None}], NEW new \in SUBSET Sites, Plan(c, new)
        PROVE  CacheFollowsConfig'
    BY <2>3 DEF Plan
  <2>4. CASE SpawnHosts \/ Swap
    BY <2>4 DEF SpawnHosts, Swap
  <2>5. CASE Flush
    BY <2>5 DEF Flush
  <2>6. ASSUME NEW p \in Squatted, ForeignBinds(p) \/ ForeignLeaves(p)
        PROVE  CacheFollowsConfig'
    BY <2>6 DEF ForeignBinds, ForeignLeaves
  <2>7. CASE UNCHANGED vars
    BY <2>7
  <2> QED
    BY <2>1, <2>2, <2>3, <2>4, <2>5, <2>6, <2>7 DEF Next, PassStep
<1> QED
  BY <1>1, <1>2, ClaimCorrect, PTL DEF Spec
=============================================================================
