------------------------- MODULE LetsEncryptProofs -------------------------
(***************************************************************************)
(* The challenge maps agree, nothing but a crash spoils a pair of files,   *)
(* and no valid pair is dropped from the cache: for any domains, accounts, *)
(* number of orders, faults, changes and crashes.                          *)
(***************************************************************************)
EXTENDS LetsEncrypt, TLAPS

USE DEF confVars, workVars, tokenVars, cacheVars, diskVars, boundVars, vars

Stages == {"order", "authorize", "validate", "finalize", "download"}

\* start-up.
LEMMA InitCert == Init => CertInv
<1> SUFFICES ASSUME Init PROVE CertInv
  OBVIOUS
<1>1. \A d \in Domains : self[d] \in BOOLEAN
  BY DEF Init
<1>2. self \in [Domains -> BOOLEAN]
  BY <1>1, Zenon DEF Init
<1>3. /\ pending \in [Domains -> 0..orders] /\ answers \subseteq 1..orders
      /\ orders \in 0..MaxOrders
      /\ faults \in 0..MaxFaults /\ changes \in 0..MaxChanges /\ crashes \in 0..MaxCrashes
  BY CertAssumption DEF Init
<1>4. enabled \in BOOLEAN /\ mgr \in BOOLEAN
  BY Zenon DEF Init
<1>5. /\ cur = None /\ worker = "asleep" /\ worker \in Points
      /\ mem \in [Domains -> {"none", "own", "other"}]
      /\ crt \in [Domains -> {"none", "torn", "whole"}] /\ left \in [Domains -> 0..3]
      /\ key \in [Domains -> {"none", "own", "other", "torn"}]
      /\ selfFile \in [Domains -> {"none", "good", "due"}]
  BY DEF Init, Points
<1>6. TypeOK
  <2>1. /\ mail \in Mails \cup {None} /\ sites \subseteq Domains /\ todo \subseteq Domains
        /\ cur \in Domains \cup {None} /\ validated \subseteq Domains /\ cuts \subseteq Domains
        /\ (cur = None) <=> (worker \in {"asleep", "begin", "next"})
    BY <1>5 DEF Init
  <2> QED
    BY <2>1, <1>2, <1>3, <1>4, <1>5 DEF TypeOK
<1>7. ChallengesAgree
  BY DEF Init, ChallengesAgree
<1> QED
  BY <1>6, <1>7 DEF Init, CertInv, OnlyCrashesSpoil, TokenIsFresh, PairBegun

-----------------------------------------------------------------------------
(* Types. *)

\* Moving to another point keeps the types of the worker.
LEMMA MoveTypes ==
  ASSUME TypeOK, NEW d \in Domains, cur = d,
         \/ Leave(d)
         \/ \E p \in Points \ {"asleep", "begin", "next"} : GoTo(p)
  PROVE  /\ worker' \in Points /\ todo' \subseteq Domains /\ cur' \in Domains \cup {None}
         /\ (cur' = None) <=> (worker' \in {"asleep", "begin", "next"})
BY CertAssumption DEF TypeOK, Leave, GoTo, Points

\* What a step of the worker on a domain does to the types.
LEMMA DomainTypes ==
  ASSUME TypeOK, TokenIsFresh, NEW d \in Domains,
         \/ Next_(d) \/ Check(d) \/ Order(d) \/ Authorize(d) \/ Validate(d) \/ Finalize(d)
         \/ Download(d) \/ RequestFails(d) \/ WriteCrt(d) \/ WriteKey(d)
  PROVE  TypeOK'
<1>1. CASE Next_(d)
  BY <1>1, CertAssumption DEF TypeOK, Next_, Leave, Points
<1>2. CASE Check(d)
  <2>1. /\ worker' \in Points /\ todo' \subseteq Domains /\ cur' \in Domains \cup {None}
        /\ (cur' = None) <=> (worker' \in {"asleep", "begin", "next"})
    <3>1. cur = d /\ (Leave(d) \/ GoTo("order") \/ GoTo("dead"))
      BY <1>2 DEF Check
    <3> QED
      BY <3>1, MoveTypes DEF Points
  <2>2. mem' \in [Domains -> {"none", "own", "other"}]
    BY <1>2 DEF TypeOK, Check, HasPair
  <2> QED
    BY <1>2, <2>1, <2>2 DEF TypeOK, Check
<1>3. CASE Order(d)
  <2>1. /\ worker' \in Points /\ todo' \subseteq Domains /\ cur' \in Domains \cup {None}
        /\ (cur' = None) <=> (worker' \in {"asleep", "begin", "next"})
    <3>1. cur = d /\ (Leave(d) \/ GoTo("finalize") \/ GoTo("authorize"))
      BY <1>3 DEF Order
    <3> QED
      BY <3>1, MoveTypes DEF Points
  <2>2. orders' \in 0..MaxOrders /\ orders' >= orders /\ orders \in Nat
    BY <1>3, CertAssumption DEF TypeOK, Order
  <2>3. /\ \A d1 \in Domains : pending'[d1] \in 0..orders'
        /\ answers' \subseteq 1..orders'
    BY <1>3, <2>2 DEF TypeOK, Order
  <2>4. pending' \in [Domains -> 0..orders']
    BY <1>3, <2>3 DEF TypeOK, Order
  <2> QED
    BY <1>3, <2>1, <2>2, <2>3, <2>4 DEF TypeOK, Order
<1>4. CASE Authorize(d)
  <2>1. /\ worker' \in Points /\ todo' \subseteq Domains /\ cur' \in Domains \cup {None}
        /\ (cur' = None) <=> (worker' \in {"asleep", "begin", "next"})
    <3>1. cur = d /\ (Leave(d) \/ GoTo("validate"))
      BY <1>4 DEF Authorize
    <3> QED
      BY <3>1, MoveTypes DEF Points
  <2>2. orders \in Nat /\ orders # 0
    BY <1>4, CertAssumption DEF TypeOK, TokenIsFresh, Authorize
  <2>3. orders \in 0..orders /\ orders \in 1..orders
    BY <2>2
  <2>4. pending' \in [Domains -> 0..orders]
    <3>1. pending \in [Domains -> 0..orders]
      BY DEF TypeOK
    <3>2. pending' = pending \/ pending' = [pending EXCEPT ![d] = orders]
      BY <1>4 DEF Authorize
    <3> QED
      BY <2>3, <3>1, <3>2
  <2>5. answers' \subseteq 1..orders
    <3>1. answers \subseteq 1..orders
      BY DEF TypeOK
    <3>2. answers' = answers \/ answers' = answers \cup {orders}
      BY <1>4 DEF Authorize
    <3> QED
      BY <2>3, <3>1, <3>2
  <2> QED
    BY <1>4, <2>1, <2>4, <2>5 DEF TypeOK, Authorize
<1>5. CASE Validate(d) \/ Finalize(d) \/ Download(d) \/ RequestFails(d)
  <2>1. /\ worker' \in Points /\ todo' \subseteq Domains /\ cur' \in Domains \cup {None}
        /\ (cur' = None) <=> (worker' \in {"asleep", "begin", "next"})
    <3>1. cur = d /\ (Leave(d) \/ GoTo("finalize") \/ GoTo("download") \/ GoTo("writeCrt"))
      BY <1>5 DEF Validate, Finalize, Download, RequestFails
    <3> QED
      BY <3>1, MoveTypes DEF Points
  <2>2. faults' \in 0..MaxFaults /\ validated' \subseteq Domains
    BY <1>5, CertAssumption DEF TypeOK, Validate, Finalize, Download, RequestFails
  <2> QED
    BY <1>5, <2>1, <2>2 DEF TypeOK, Validate, Finalize, Download, RequestFails
<1>6. CASE WriteCrt(d) \/ WriteKey(d)
  <2>1. /\ worker' \in Points /\ todo' \subseteq Domains /\ cur' \in Domains \cup {None}
        /\ (cur' = None) <=> (worker' \in {"asleep", "begin", "next"})
    <3>1. cur = d /\ (Leave(d) \/ GoTo("writeKey"))
      BY <1>6 DEF WriteCrt, WriteKey
    <3> QED
      BY <3>1, MoveTypes DEF Points
  <2>2. /\ crt' \in [Domains -> {"none", "torn", "whole"}] /\ left' \in [Domains -> 0..3]
        /\ key' \in [Domains -> {"none", "own", "other", "torn"}]
        /\ mem' \in [Domains -> {"none", "own", "other"}] /\ cuts' \subseteq Domains
    BY <1>6 DEF TypeOK, WriteCrt, WriteKey
  <2>3. 0 \in 0..orders /\ orders' = orders
    BY <1>6, CertAssumption DEF TypeOK, WriteCrt, WriteKey
  <2>4. pending' \in [Domains -> 0..orders]
    BY <1>6, <2>3 DEF TypeOK, WriteCrt, WriteKey
  <2>5. answers' \subseteq 1..orders
    BY <1>6 DEF TypeOK, WriteCrt, WriteKey
  <2> QED
    BY <1>6, <2>1, <2>2, <2>3, <2>4, <2>5 DEF TypeOK, WriteCrt, WriteKey
<1> QED
  BY <1>1, <1>2, <1>3, <1>4, <1>5, <1>6

LEMMA TypeStep == TypeOK /\ TokenIsFresh /\ [Next]_vars => TypeOK'
<1> SUFFICES ASSUME TypeOK, TokenIsFresh, [Next]_vars PROVE TypeOK'
  OBVIOUS
<1>1. CASE Wake \/ Begin \/ RoundDone
  <2>1. faults' \in 0..MaxFaults
    BY <1>1, CertAssumption DEF TypeOK, Wake, Begin, RoundDone
  <2>2. /\ worker' \in Points /\ mgr' \in BOOLEAN /\ todo' \subseteq Domains /\ cur' = cur
        /\ worker' \in {"asleep", "begin", "next"} /\ worker \in {"asleep", "begin", "next"}
    BY <1>1 DEF TypeOK, Wake, Begin, RoundDone, Points
  <2> QED
    BY <1>1, <2>1, <2>2 DEF TypeOK, Wake, Begin, RoundDone
<1>2. ASSUME NEW d \in Domains, Resolve(d) PROVE TypeOK'
  <2>1. \A e \in Domains : self'[e] \in BOOLEAN
    BY <1>2 DEF TypeOK, Resolve
  <2>2. DOMAIN self' = Domains /\ self' = [e \in Domains |-> self'[e]]
    BY <1>2 DEF TypeOK, Resolve
  <2>3. self' \in [Domains -> BOOLEAN]
    BY <2>1, <2>2, Zenon
  <2>4. /\ mem' \in [Domains -> {"none", "own", "other"}]
        /\ selfFile' \in [Domains -> {"none", "good", "due"}]
    BY <1>2 DEF TypeOK, Resolve
  <2> QED
    BY <1>2, <2>3, <2>4 DEF TypeOK, Resolve
<1>3. ASSUME NEW d \in Domains, Ages(d) \/ SelfAges(d) \/ ValidationLapses(d) PROVE TypeOK'
  <2>1. /\ left' \in [Domains -> 0..3] /\ selfFile' \in [Domains -> {"none", "good", "due"}]
        /\ validated' \subseteq Domains
    BY <1>3 DEF TypeOK, Ages, SelfAges, ValidationLapses
  <2> QED
    BY <1>3, <2>1 DEF TypeOK, Ages, SelfAges, ValidationLapses
<1>4. ASSUME NEW m \in Mails \cup {None}, NEW s \in SUBSET Domains, Reload(m, s) PROVE TypeOK'
  <2>1. changes' \in 0..MaxChanges
    BY <1>4, CertAssumption DEF TypeOK, Reload
  <2>2. enabled' \in BOOLEAN
    BY <1>4 DEF TypeOK, Reload
  <2> QED
    BY <1>4, <2>1, <2>2 DEF TypeOK, Reload
<1>5. CASE Restart
  <2>1. crashes' \in 0..MaxCrashes
    BY <1>5, CertAssumption DEF TypeOK, Restart
  <2>2. /\ pending' \in [Domains -> 0..orders] /\ answers' \subseteq 1..orders
        /\ mem' \in [Domains -> {"none", "own", "other"}]
    BY <1>5, CertAssumption DEF TypeOK, Restart
  <2>3. \A e \in Domains : self'[e] \in BOOLEAN
    BY <1>5 DEF Restart
  <2>4. self' \in [Domains -> BOOLEAN]
    BY <1>5, <2>3, Zenon DEF Restart
  <2>5. worker \in {"writeCrt", "writeKey"} => cur \in Domains
    BY DEF TypeOK
  <2>6. /\ crt' \in [Domains -> {"none", "torn", "whole"}]
        /\ key' \in [Domains -> {"none", "own", "other", "torn"}] /\ cuts' \subseteq Domains
    BY <1>5, <2>5 DEF TypeOK, Restart
  <2> QED
    BY <1>5, <2>1, <2>2, <2>4, <2>6 DEF TypeOK, Restart, Points
<1>6. CASE UNCHANGED vars
  BY <1>6 DEF TypeOK
<1> QED
  BY <1>1, <1>2, <1>3, <1>4, <1>5, <1>6, DomainTypes DEF Next, WorkerStep

-----------------------------------------------------------------------------
(* Challenges. *)

\* A token is fresh when its order is placed, and stays so until it is stored.
LEMMA FreshStep == TypeOK /\ TokenIsFresh /\ [Next]_vars => TokenIsFresh'
<1> SUFFICES ASSUME TypeOK, TokenIsFresh, [Next]_vars PROVE TokenIsFresh'
  OBVIOUS
<1>1. CASE Wake \/ Begin \/ RoundDone
  BY <1>1 DEF TokenIsFresh, Wake, Begin, RoundDone
<1>2. ASSUME NEW d \in Domains,
             \/ Next_(d) \/ Authorize(d) \/ Validate(d) \/ Finalize(d) \/ Download(d)
             \/ RequestFails(d) \/ WriteCrt(d) \/ WriteKey(d)
      PROVE  TokenIsFresh'
  <2>1. worker' \notin {"order", "authorize"}
    BY <1>2 DEF Next_, Authorize, Validate, Finalize, Download, RequestFails, WriteCrt,
      WriteKey, Leave, GoTo
  <2> QED
    BY <2>1 DEF TokenIsFresh
<1>3. ASSUME NEW d \in Domains, Check(d) PROVE TokenIsFresh'
  BY <1>3 DEF TokenIsFresh, Check, Leave, GoTo
<1>4. ASSUME NEW d \in Domains, Order(d) PROVE TokenIsFresh'
  <2>1. CASE orders = MaxOrders
    BY <1>4, <2>1 DEF TokenIsFresh, Order, Leave
  <2>2. CASE orders # MaxOrders
    <3>1. /\ orders' = orders + 1 /\ orders \in Nat /\ cur' = cur /\ pending' = pending
          /\ worker = "order"
      BY <1>4, <2>2, CertAssumption DEF TypeOK, Order, GoTo
    <3>2. \A e \in Domains : pending[e] \in 0..orders
      BY DEF TypeOK
    <3>3. \A e \in Domains : pending'[e] # orders'
      BY <3>1, <3>2
    <3>4. orders' # 0
      BY <3>1
    <3> QED
      BY <3>1, <3>3, <3>4 DEF TokenIsFresh
  <2> QED
    BY <2>1, <2>2
<1>5. ASSUME NEW d \in Domains,
             Resolve(d) \/ Ages(d) \/ SelfAges(d) \/ ValidationLapses(d)
      PROVE  TokenIsFresh'
  BY <1>5 DEF TokenIsFresh, Resolve, Ages, SelfAges, ValidationLapses
<1>6. ASSUME NEW m \in Mails \cup {None}, NEW s \in SUBSET Domains, Reload(m, s)
      PROVE  TokenIsFresh'
  BY <1>6 DEF TokenIsFresh, Reload
<1>7. CASE Restart \/ UNCHANGED vars
  BY <1>7 DEF TokenIsFresh, Restart
<1> QED
  BY <1>1, <1>2, <1>3, <1>4, <1>5, <1>6, <1>7 DEF Next, WorkerStep

\* Both maps are filled and emptied together.
LEMMA ChallengeStep ==
  TypeOK /\ TokenIsFresh /\ ChallengesAgree /\ [Next]_vars => ChallengesAgree'
<1> SUFFICES ASSUME TypeOK, TokenIsFresh, ChallengesAgree, [Next]_vars PROVE ChallengesAgree'
  OBVIOUS
<1>1. ASSUME UNCHANGED tokenVars, worker' = "validate" => UNCHANGED <<worker, cur, orders>>
      PROVE  ChallengesAgree'
  BY <1>1 DEF ChallengesAgree, Answer
<1>2. CASE Wake \/ Begin \/ RoundDone
  BY <1>1, <1>2 DEF Wake, Begin, RoundDone
<1>3. ASSUME NEW d \in Domains,
             \/ Next_(d) \/ Check(d) \/ Order(d) \/ Validate(d) \/ Finalize(d)
             \/ Download(d) \/ RequestFails(d) \/ WriteCrt(d)
      PROVE  ChallengesAgree'
  BY <1>1, <1>3 DEF Next_, Check, Order, Validate, Finalize, Download, RequestFails, WriteCrt,
    Leave, GoTo
<1>4. ASSUME NEW d \in Domains, Authorize(d) PROVE ChallengesAgree'
  <2>1. CASE d \in validated
    BY <1>1, <1>4, <2>1 DEF Authorize, Leave
  <2>2. CASE d \notin validated
    <3>1. /\ answers' = answers \cup {orders} /\ pending' = [pending EXCEPT ![d] = orders]
          /\ cur' = d /\ UNCHANGED orders
      BY <1>4, <2>2 DEF Authorize, GoTo
    <3>2. /\ pending[d] = 0 /\ orders # 0 /\ \A e \in Domains : pending[e] # orders
      BY <1>4 DEF Authorize, TokenIsFresh
    <3>3. /\ \A e \in Domains \ {d} : pending'[e] = pending[e]
          /\ pending'[d] = orders
      BY <3>1 DEF TypeOK
    <3>4. \A t : (\E e \in Domains : t = pending'[e] /\ t # 0)
                  <=> (t = orders \/ \E e \in Domains : t = pending[e] /\ t # 0)
      BY <3>2, <3>3
    <3>5. answers' = {pending'[e] : e \in Domains} \ {0}
      BY <3>1, <3>4 DEF ChallengesAgree
    <3>6. \A e, f \in Domains : e # f /\ pending'[e] # 0 => pending'[e] # pending'[f]
      BY <3>2, <3>3 DEF ChallengesAgree
    <3>7. Answer(cur)' = orders'
      BY <3>1, <3>3 DEF Answer
    <3> QED
      BY <3>5, <3>6, <3>7 DEF ChallengesAgree
  <2> QED
    BY <2>1, <2>2
<1>5. ASSUME NEW d \in Domains, WriteKey(d) PROVE ChallengesAgree'
  <2>1. /\ answers' = answers \ {pending[d]} /\ pending' = [pending EXCEPT ![d] = 0]
        /\ worker' = "next"
    BY <1>5 DEF WriteKey, Leave
  <2>2. /\ \A e \in Domains \ {d} : pending'[e] = pending[e]
        /\ pending'[d] = 0
    BY <2>1 DEF TypeOK
  <2>3. \A e \in Domains \ {d} : pending[e] # 0 => pending[e] # pending[d]
    BY DEF ChallengesAgree
  <2>4. \A t : (\E e \in Domains : t = pending'[e] /\ t # 0)
                <=> (t # pending[d] /\ \E e \in Domains : t = pending[e] /\ t # 0)
    BY <2>2, <2>3
  <2>5. answers' = {pending'[e] : e \in Domains} \ {0}
    BY <2>1, <2>4 DEF ChallengesAgree
  <2>6. \A e, f \in Domains : e # f /\ pending'[e] # 0 => pending'[e] # pending'[f]
    BY <2>2 DEF ChallengesAgree
  <2> QED
    BY <2>1, <2>5, <2>6 DEF ChallengesAgree
<1>6. ASSUME NEW d \in Domains,
             Resolve(d) \/ Ages(d) \/ SelfAges(d) \/ ValidationLapses(d)
      PROVE  ChallengesAgree'
  BY <1>1, <1>6 DEF Resolve, Ages, SelfAges, ValidationLapses
<1>7. ASSUME NEW m \in Mails \cup {None}, NEW s \in SUBSET Domains, Reload(m, s)
      PROVE  ChallengesAgree'
  BY <1>1, <1>7 DEF Reload
<1>8. CASE Restart
  BY <1>8 DEF ChallengesAgree, Restart
<1>9. CASE UNCHANGED vars
  BY <1>1, <1>9
<1> QED
  BY <1>2, <1>3, <1>4, <1>5, <1>6, <1>7, <1>8, <1>9 DEF Next, WorkerStep

-----------------------------------------------------------------------------
(* Files. *)

LEMMA PairStep == TypeOK /\ PairBegun /\ [Next]_vars => PairBegun'
<1> SUFFICES ASSUME TypeOK, PairBegun, [Next]_vars PROVE PairBegun'
  OBVIOUS
<1>1. CASE Wake \/ Begin \/ RoundDone
  BY <1>1 DEF PairBegun, Wake, Begin, RoundDone
<1>2. ASSUME NEW d \in Domains,
             \/ Next_(d) \/ Check(d) \/ Order(d) \/ Authorize(d) \/ Validate(d)
             \/ Finalize(d) \/ Download(d) \/ RequestFails(d) \/ WriteKey(d)
      PROVE  PairBegun'
  BY <1>2 DEF PairBegun, Next_, Check, Order, Authorize, Validate, Finalize, Download,
    RequestFails, WriteKey, Leave, GoTo
<1>3. ASSUME NEW d \in Domains, WriteCrt(d) PROVE PairBegun'
  BY <1>3 DEF TypeOK, PairBegun, WriteCrt, GoTo
<1>4. ASSUME NEW d \in Domains,
             Resolve(d) \/ Ages(d) \/ SelfAges(d) \/ ValidationLapses(d)
      PROVE  PairBegun'
  BY <1>4 DEF PairBegun, Resolve, Ages, SelfAges, ValidationLapses
<1>5. ASSUME NEW m \in Mails \cup {None}, NEW s \in SUBSET Domains, Reload(m, s)
      PROVE  PairBegun'
  BY <1>5 DEF PairBegun, Reload
<1>6. CASE Restart \/ UNCHANGED vars
  BY <1>6 DEF PairBegun, Restart
<1> QED
  BY <1>1, <1>2, <1>3, <1>4, <1>5, <1>6 DEF Next, WorkerStep

\* A wrong pair, in the cache or on disk, is accounted for.
LEMMA SpoilStep ==
  TypeOK /\ PairBegun /\ OnlyCrashesSpoil /\ [Next]_vars => OnlyCrashesSpoil'
<1> SUFFICES ASSUME TypeOK, PairBegun, OnlyCrashesSpoil, [Next]_vars PROVE OnlyCrashesSpoil'
  OBVIOUS
<1>1. CASE Wake \/ Begin \/ RoundDone
  BY <1>1 DEF OnlyCrashesSpoil, Wake, Begin, RoundDone
<1>2. ASSUME NEW d \in Domains,
             \/ Next_(d) \/ Order(d) \/ Authorize(d) \/ Validate(d) \/ Finalize(d)
             \/ Download(d) \/ RequestFails(d)
      PROVE  OnlyCrashesSpoil'
  <2>1. /\ UNCHANGED <<crt, key, cuts>> /\ worker # "writeKey" /\ worker' # "dead"
        /\ \A e \in Domains : mem'[e] = "other" => mem[e] = "other"
    BY <1>2 DEF TypeOK, Next_, Order, Authorize, Validate, Finalize, Download, RequestFails,
      Leave, GoTo
  <2> QED
    BY <2>1 DEF OnlyCrashesSpoil
<1>3. ASSUME NEW d \in Domains, Check(d) PROVE OnlyCrashesSpoil'
  <2>1. /\ UNCHANGED <<crt, key, cuts>> /\ worker = "check" /\ cur = d
        /\ worker' = "dead" => cur' = d /\ crt[d] = "torn"
        /\ \A e \in Domains : mem'[e] = "other" => mem[e] = "other" \/ key[e] = "other"
    BY <1>3 DEF TypeOK, Check, Leave, GoTo
  <2> QED
    BY <2>1 DEF OnlyCrashesSpoil
<1>4. ASSUME NEW d \in Domains, WriteCrt(d) PROVE OnlyCrashesSpoil'
  <2>1. /\ worker = "writeCrt" /\ worker' = "writeKey" /\ cur' = d
        /\ UNCHANGED <<mem, cuts>>
        /\ \A e \in Domains \ {d} : crt'[e] = crt[e] /\ key'[e] = key[e]
    BY <1>4 DEF TypeOK, WriteCrt, GoTo
  <2> QED
    BY <2>1 DEF OnlyCrashesSpoil
<1>5. ASSUME NEW d \in Domains, WriteKey(d) PROVE OnlyCrashesSpoil'
  <2>1. /\ worker = "writeKey" /\ cur = d /\ worker' = "next" /\ cuts' = cuts \ {d}
        /\ crt' = crt /\ mem'[d] = "own" /\ key'[d] = "own"
        /\ \A e \in Domains \ {d} : mem'[e] = mem[e] /\ key'[e] = key[e]
    BY <1>5 DEF TypeOK, WriteKey, Leave
  <2>2. crt[d] = "whole"
    BY <2>1 DEF PairBegun
  <2> QED
    BY <2>1, <2>2 DEF OnlyCrashesSpoil
<1>6. ASSUME NEW d \in Domains,
             Resolve(d) \/ Ages(d) \/ SelfAges(d) \/ ValidationLapses(d)
      PROVE  OnlyCrashesSpoil'
  <2>1. /\ UNCHANGED <<crt, key, cuts, worker, cur>>
        /\ \A e \in Domains : mem'[e] = "other" => mem[e] = "other"
    BY <1>6 DEF TypeOK, Resolve, Ages, SelfAges, ValidationLapses
  <2> QED
    BY <2>1 DEF OnlyCrashesSpoil
<1>7. ASSUME NEW m \in Mails \cup {None}, NEW s \in SUBSET Domains, Reload(m, s)
      PROVE  OnlyCrashesSpoil'
  BY <1>7 DEF OnlyCrashesSpoil, Reload
<1>8. CASE Restart
  <2>1. /\ worker' = "asleep" /\ \A e \in Domains : mem'[e] = "none"
        /\ cuts \subseteq cuts'
        /\ worker \in {"writeCrt", "writeKey"} => cur \in cuts'
    BY <1>8 DEF Restart
  <2>2. \A e \in Domains : crt'[e] = crt[e] \/ (e = cur /\ worker = "writeCrt")
    BY <1>8 DEF TypeOK, Restart
  <2>3. \A e \in Domains : key'[e] = key[e] \/ (e = cur /\ worker = "writeKey")
    BY <1>8 DEF TypeOK, Restart
  <2> QED
    BY <2>1, <2>2, <2>3 DEF OnlyCrashesSpoil
<1>9. CASE UNCHANGED vars
  BY <1>9 DEF OnlyCrashesSpoil
<1> QED
  BY <1>1, <1>2, <1>3, <1>4, <1>5, <1>6, <1>7, <1>8, <1>9 DEF Next, WorkerStep

-----------------------------------------------------------------------------
\* The invariant holds in every state.
LEMMA CertCorrect == Spec => []CertInv
<1>1. CertInv /\ [Next]_vars => CertInv'
  BY TypeStep, FreshStep, ChallengeStep, PairStep, SpoilStep DEF CertInv
<1> QED
  BY <1>1, InitCert, PTL DEF Spec

\* Every variable keeps its type, and the worker has a domain in hand exactly while it
\* works on one (letsencrypt.rs).
THEOREM CertTypeCorrect == Spec => []TypeOK
<1>1. CertInv => TypeOK
  BY DEF CertInv
<1> QED
  BY <1>1, CertCorrect, PTL

\* The two challenge maps agree (letsencrypt.rs, http_proxy/service.rs).
THEOREM ChallengesAgreeCorrect == Spec => []ChallengesAgree
<1>1. CertInv => ChallengesAgree
  BY DEF CertInv
<1> QED
  BY <1>1, CertCorrect, PTL

\* Wrong and unreadable pairs go back to a crash (letsencrypt.rs).
THEOREM OnlyCrashesSpoilCorrect == Spec => []OnlyCrashesSpoil
<1>1. CertInv => OnlyCrashesSpoil
  BY DEF CertInv
<1> QED
  BY <1>1, CertCorrect, PTL

\* A valid pair in use leaves the cache through a restart only (certs.rs).
THEOREM ValidCertKeptCorrect == Spec => ValidCertKept
<1>1. TypeOK /\ [Next]_vars =>
        [\A d \in Domains :
           mem[d] # "none" /\ left[d] >= 2 /\ enabled /\ mem'[d] = "none"
             => crashes' # crashes]_vars
  <2> SUFFICES ASSUME TypeOK, Next, NEW d \in Domains,
                      mem[d] # "none", left[d] >= 2, enabled, crashes' = crashes
               PROVE  mem'[d] # "none"
    OBVIOUS
  <2>1. CASE Wake \/ Begin \/ RoundDone
    BY <2>1 DEF Wake, Begin, RoundDone
  <2>2. ASSUME NEW e \in Domains,
               \/ Next_(e) \/ Check(e) \/ Order(e) \/ Authorize(e) \/ Validate(e)
               \/ Finalize(e) \/ Download(e) \/ RequestFails(e) \/ WriteCrt(e) \/ WriteKey(e)
        PROVE  mem'[d] # "none"
    BY <2>2 DEF TypeOK, Next_, Check, Order, Authorize, Validate, Finalize, Download,
      RequestFails, WriteCrt, WriteKey, Leave, GoTo, HasPair
  <2>3. ASSUME NEW e \in Domains, Resolve(e) PROVE mem'[d] # "none"
    BY <2>3 DEF TypeOK, Resolve
  <2>4. ASSUME NEW e \in Domains, Ages(e) \/ SelfAges(e) \/ ValidationLapses(e)
        PROVE  mem'[d] # "none"
    BY <2>4 DEF Ages, SelfAges, ValidationLapses
  <2>5. ASSUME NEW m \in Mails \cup {None}, NEW s \in SUBSET Domains, Reload(m, s)
        PROVE  mem'[d] # "none"
    BY <2>5 DEF Reload
  <2>6. CASE Restart
    BY <2>6, CertAssumption DEF TypeOK, Restart
  <2> QED
    BY <2>1, <2>2, <2>3, <2>4, <2>5, <2>6 DEF Next, WorkerStep
<1> QED
  BY <1>1, CertTypeCorrect, PTL DEF Spec, ValidCertKept
=============================================================================
