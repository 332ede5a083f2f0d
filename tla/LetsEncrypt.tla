---------------------------- MODULE LetsEncrypt ----------------------------
(***************************************************************************)
(* Certificates: the Let's Encrypt worker with its orders, challenges and  *)
(* files (letsencrypt.rs), the HTTP-01 answers (http_proxy/service.rs) and *)
(* the TLS resolver with its two caches (certs.rs).                        *)
(*                                                                         *)
(* The validity left in a certificate is one of four: 3 (89 days or more), *)
(* 2 (30 to 88), 1 (less than 30) and 0 (expired).  Orders are numbered;   *)
(* the number of an order also names its challenge token.                  *)
(*                                                                         *)
(* The certificate authority (CA) remembers for some time that a domain    *)
(* was validated; an order placed meanwhile needs no challenge.            *)
(***************************************************************************)
EXTENDS Naturals, FiniteSets

CONSTANTS
  Domains,    \* public host names
  Mails,      \* accounts the configuration may name
  MaxOrders,  \* orders the CA accepts (bound)
  MaxFaults,  \* requests to the CA that fail (bound)
  MaxChanges, \* configuration changes (bound)
  MaxCrashes, \* restarts of odd-box (bound)
  None

ASSUME CertAssumption ==
  /\ MaxOrders \in Nat /\ MaxFaults \in Nat /\ MaxChanges \in Nat /\ MaxCrashes \in Nat
  /\ None \notin Mails \cup Domains

VARIABLES
  (* configuration *)
  mail,      \* lets_encrypt_account_email, or None
  sites,     \* domains with enable_lets_encrypt
  enabled,   \* DynamicCertResolver.enable_lets_encrypt
  (* worker *)
  worker,    \* where it is
  mgr,       \* the manager exists
  todo,      \* domains left in this round
  cur,       \* the domain it works on, or None
  orders,    \* orders placed
  (* memory *)
  pending,   \* DOMAIN_TO_CHALLENGE_TOKEN_MAP: a token, or 0
  answers,   \* tokens in CHALLENGE_MAP
  mem,       \* lets_encrypt_signed_certs: "none", or whose key is in the pair
  self,      \* self_signed_cert_cache
  (* disk *)
  crt,       \* certificate file: "none", "torn" or "whole"
  left,      \* validity left in it
  key,       \* key file: "none", "own" (of crt), "other" or "torn"
  selfFile,  \* self-signed pair: "none", "good" or "due"
  (* the rest *)
  validated, \* domains whose validation the CA remembers
  faults, changes, crashes,
  cuts       \* history: domains whose files a crash left half written

confVars   == <<mail, sites, enabled>>
workVars   == <<worker, mgr, todo, cur, orders>>
tokenVars  == <<pending, answers>>
cacheVars  == <<mem, self>>
diskVars   == <<crt, left, key>>
boundVars  == <<faults, changes, crashes>>
vars == <<confVars, workVars, tokenVars, cacheVars, diskVars, selfFile, validated, boundVars, cuts>>

Points == {"asleep", "begin", "next", "check", "order", "authorize", "validate",
           "finalize", "download", "writeCrt", "writeKey", "dead"}

HasPair(d) == crt[d] # "none" /\ key[d] # "none"

-----------------------------------------------------------------------------
(* The worker. *)

\* Nothing happens while no account is configured.
Wake ==
  /\ worker = "asleep" /\ mail # None
  /\ worker' = "begin"
  /\ UNCHANGED <<confVars, mgr, todo, cur, orders, tokenVars, cacheVars, diskVars,
                 selfFile, validated, boundVars, cuts>>

\* LECertManager::new (the directory, the account), then the list of domains.
Begin ==
  /\ worker = "begin"
  /\ \/ worker' = "next" /\ mgr' = TRUE /\ todo' = sites /\ UNCHANGED faults
     \/ /\ ~mgr /\ faults < MaxFaults
        /\ faults' = faults + 1
        /\ worker' = "asleep" /\ UNCHANGED <<mgr, todo>>
  /\ UNCHANGED <<confVars, cur, orders, tokenVars, cacheVars, diskVars, selfFile,
                 validated, changes, crashes, cuts>>

\* The worker is done with a domain, successfully or not.
Leave(d) ==
  /\ worker' = "next"
  /\ todo' = todo \ {d}
  /\ cur' = None

GoTo(p) == worker' = p /\ UNCHANGED <<todo, cur>>

\* get_lets_encrypt_signed_cert_from_mem_cache: an entry that is due is dropped.
Next_(d) ==
  /\ worker = "next" /\ d \in todo
  /\ IF mem[d] # "none" /\ left[d] >= 2
     THEN Leave(d) /\ UNCHANGED mem
     ELSE /\ mem' = [mem EXCEPT ![d] = "none"]
          /\ worker' = "check" /\ cur' = d /\ UNCHANGED todo
  /\ UNCHANGED <<confVars, mgr, orders, tokenVars, self, diskVars, selfFile, validated,
                 boundVars, cuts>>

RoundDone ==
  /\ worker = "next" /\ todo = {}
  /\ worker' = "asleep"
  /\ UNCHANGED <<confVars, mgr, todo, cur, orders, tokenVars, cacheVars, diskVars, selfFile,
                 validated, boundVars, cuts>>

\* Mutant of Check: an expired certificate is an error.
Check_ExpiredFails(d) ==
  /\ worker = "check" /\ cur = d
  /\ IF \/ pending[d] # 0
        \/ HasPair(d) /\ (key[d] = "torn" \/ left[d] = 0)
     THEN Leave(d) /\ UNCHANGED mem
     ELSE IF ~HasPair(d)    THEN GoTo("order") /\ UNCHANGED mem
     ELSE IF crt[d] = "torn" THEN GoTo("dead") /\ UNCHANGED mem
     ELSE IF left[d] = 3     THEN Leave(d) /\ mem' = [mem EXCEPT ![d] = key[d]]
     ELSE GoTo("order") /\ UNCHANGED mem
  /\ UNCHANGED <<confVars, mgr, orders, tokenVars, self, diskVars, selfFile, validated,
                 boundVars, cuts>>

\* get_or_create_cert up to the order.  Nobody but this task removes a pending
\* challenge, so waiting for one always times out.  A certificate file that cannot be
\* parsed panics in end_entity_cert().unwrap().
Check(d) ==
  /\ worker = "check" /\ cur = d
  /\ IF \/ pending[d] # 0
        \/ HasPair(d) /\ key[d] = "torn"
     THEN Leave(d) /\ UNCHANGED mem
     ELSE IF ~HasPair(d)     THEN GoTo("order") /\ UNCHANGED mem
     ELSE IF crt[d] = "torn" THEN GoTo("dead") /\ UNCHANGED mem
     ELSE IF left[d] = 3     THEN Leave(d) /\ mem' = [mem EXCEPT ![d] = key[d]]
     ELSE GoTo("order") /\ UNCHANGED mem
  /\ UNCHANGED <<confVars, mgr, orders, tokenVars, self, diskVars, selfFile, validated,
                 boundVars, cuts>>

\* A certificate that has not expired is renewed without a challenge.
SkipsValidation(d) == HasPair(d) /\ left[d] \in {1, 2}

\* create_order.  The CA's rate limit refuses orders beyond MaxOrders.
Order(d) ==
  /\ worker = "order" /\ cur = d
  /\ IF orders = MaxOrders
     THEN Leave(d) /\ UNCHANGED orders
     ELSE /\ orders' = orders + 1
          /\ GoTo(IF SkipsValidation(d) THEN "finalize" ELSE "authorize")
  /\ UNCHANGED <<confVars, mgr, tokenVars, cacheVars, diskVars, selfFile, validated,
                 boundVars, cuts>>

\* handle_http_01_challenge up to the two inserts.  For a domain that is already
\* valid it answers with the URL of the validation record, which is the domain's own
\* challenge URL and never reports a status: polling it fails.
Authorize(d) ==
  /\ worker = "authorize" /\ cur = d
  /\ IF d \in validated
     THEN Leave(d) /\ UNCHANGED tokenVars
     ELSE /\ answers' = answers \cup {orders}
          /\ pending' = [pending EXCEPT ![d] = orders]
          /\ GoTo("validate")
  /\ UNCHANGED <<confVars, mgr, orders, cacheVars, diskVars, selfFile, validated, boundVars, cuts>>

\* What odd-box answers to the CA: the token it holds for the host, or 0.
Answer(d) == IF pending[d] \in answers THEN pending[d] ELSE 0

\* The CA is asked to validate, fetches the answer over HTTP, and is polled.
Validate(d) ==
  /\ worker = "validate" /\ cur = d /\ Answer(d) = orders
  /\ validated' = validated \cup {d}
  /\ GoTo("finalize")
  /\ UNCHANGED <<confVars, mgr, orders, tokenVars, cacheVars, diskVars, selfFile, boundVars, cuts>>

\* The order is finalized if the CA holds the domain for valid, and polled.
Finalize(d) ==
  /\ worker = "finalize" /\ cur = d
  /\ IF d \in validated THEN GoTo("download") ELSE Leave(d)
  /\ UNCHANGED <<confVars, mgr, orders, tokenVars, cacheVars, diskVars, selfFile, validated,
                 boundVars, cuts>>

\* fetch_certificate.
Download(d) ==
  /\ worker = "download" /\ cur = d
  /\ GoTo("writeCrt")
  /\ UNCHANGED <<confVars, mgr, orders, tokenVars, cacheVars, diskVars, selfFile, validated,
                 boundVars, cuts>>

\* Mutant of RequestFails: the domain is tried again at once.
RequestFails_Retries(d) ==
  /\ worker \in {"order", "authorize", "validate", "finalize", "download"} /\ cur = d
  /\ GoTo("check")
  /\ UNCHANGED <<confVars, mgr, orders, tokenVars, cacheVars, diskVars, selfFile, validated,
                 boundVars, cuts>>

\* A request to the CA fails: `?` leaves the function and what it has stored.
RequestFails(d) ==
  /\ worker \in {"order", "authorize", "validate", "finalize", "download"} /\ cur = d
  /\ faults < MaxFaults
  /\ faults' = faults + 1
  /\ Leave(d)
  /\ UNCHANGED <<confVars, mgr, orders, tokenVars, cacheVars, diskVars, selfFile, validated,
                 changes, crashes, cuts>>

\* Mutant of WriteCrt: nothing else is written when a key is there already.
WriteCrt_KeepsKey(d) ==
  /\ worker = "writeCrt" /\ cur = d
  /\ crt' = [crt EXCEPT ![d] = "whole"]
  /\ left' = [left EXCEPT ![d] = 3]
  /\ key' = [key EXCEPT ![d] = IF @ = "own" THEN "other" ELSE @]
  /\ IF key[d] = "none"
     THEN GoTo("writeKey") /\ UNCHANGED mem
     ELSE Leave(d) /\ mem' = [mem EXCEPT ![d] = key'[d]]
  /\ UNCHANGED <<confVars, mgr, orders, tokenVars, self, selfFile, validated, boundVars, cuts>>

\* The new certificate is on disk, next to the old key if there is one.
WriteCrt(d) ==
  /\ worker = "writeCrt" /\ cur = d
  /\ crt' = [crt EXCEPT ![d] = "whole"]
  /\ left' = [left EXCEPT ![d] = 3]
  /\ key' = [key EXCEPT ![d] = IF @ = "own" THEN "other" ELSE @]
  /\ GoTo("writeKey")
  /\ UNCHANGED <<confVars, mgr, orders, tokenVars, cacheVars, selfFile, validated, boundVars, cuts>>

\* Mutant of WriteKey: the answer to the challenge is kept.
WriteKey_KeepsAnswer(d) ==
  /\ worker = "writeKey" /\ cur = d
  /\ key' = [key EXCEPT ![d] = "own"]
  /\ pending' = [pending EXCEPT ![d] = 0]
  /\ mem' = [mem EXCEPT ![d] = "own"]
  /\ cuts' = cuts \ {d}
  /\ Leave(d)
  /\ UNCHANGED <<confVars, mgr, orders, answers, self, crt, left, selfFile, validated, boundVars>>

\* The key, the challenge maps, and the cache of the resolver.
WriteKey(d) ==
  /\ worker = "writeKey" /\ cur = d
  /\ key' = [key EXCEPT ![d] = "own"]
  /\ pending' = [pending EXCEPT ![d] = 0]
  /\ answers' = answers \ {pending[d]}
  /\ mem' = [mem EXCEPT ![d] = "own"]
  /\ cuts' = cuts \ {d}
  /\ Leave(d)
  /\ UNCHANGED <<confVars, mgr, orders, self, crt, left, selfFile, validated, boundVars>>

WorkerStep ==
  \/ Wake \/ Begin \/ RoundDone
  \/ \E d \in Domains :
       \/ Next_(d) \/ Check(d) \/ Order(d) \/ Authorize(d) \/ Validate(d) \/ Finalize(d)
       \/ Download(d) \/ RequestFails(d) \/ WriteCrt(d) \/ WriteKey(d)

-----------------------------------------------------------------------------
(* The resolver, and what changes around it. *)

\* Mutant of Resolve: self-signed certificates come first.
Resolve_SelfFirst(d) ==
  /\ IF ~self[d] /\ enabled /\ mem[d] # "none" /\ left[d] >= 2
     THEN UNCHANGED <<mem, self, selfFile>>
     ELSE /\ mem' = IF self[d] /\ selfFile[d] = "due" THEN [mem EXCEPT ![d] = "none"] ELSE mem
          /\ self' = [self EXCEPT ![d] = TRUE]
          /\ selfFile' = IF selfFile[d] = "none" THEN [selfFile EXCEPT ![d] = "good"]
                         ELSE selfFile
  /\ UNCHANGED <<confVars, workVars, tokenVars, diskVars, validated, boundVars, cuts>>

\* resolve: the Let's Encrypt pair while the switch is on and the pair is not due (a
\* due one is dropped); otherwise the self-signed one, made if there are no files.  A
\* self-signed pair that is due drops the entry of the other cache.
Resolve(d) ==
  /\ IF enabled /\ mem[d] # "none" /\ left[d] >= 2
     THEN UNCHANGED <<mem, self, selfFile>>
     ELSE /\ mem' = IF (enabled /\ mem[d] # "none") \/ (self[d] /\ selfFile[d] = "due")
                    THEN [mem EXCEPT ![d] = "none"] ELSE mem
          /\ self' = [self EXCEPT ![d] = TRUE]
          /\ selfFile' = IF selfFile[d] = "none" THEN [selfFile EXCEPT ![d] = "good"]
                         ELSE selfFile
  /\ UNCHANGED <<confVars, workVars, tokenVars, diskVars, validated, boundVars, cuts>>

\* A pass swaps in a configuration with another account or other sites.  When the
\* account has changed the switch follows the account of the replaced one.
Reload(m, s) ==
  /\ changes < MaxChanges
  /\ m # mail \/ s # sites
  /\ changes' = changes + 1
  /\ mail' = m /\ sites' = s
  /\ enabled' = IF m # mail THEN mail # None ELSE enabled
  /\ UNCHANGED <<workVars, tokenVars, cacheVars, diskVars, selfFile, validated, faults,
                 crashes, cuts>>

\* Time passes.
Ages(d) ==
  /\ crt[d] = "whole" /\ left[d] > 0
  /\ left' = [left EXCEPT ![d] = @ - 1]
  /\ UNCHANGED <<confVars, workVars, tokenVars, cacheVars, crt, key, selfFile, validated,
                 boundVars, cuts>>

SelfAges(d) ==
  /\ selfFile[d] = "good"
  /\ selfFile' = [selfFile EXCEPT ![d] = "due"]
  /\ UNCHANGED <<confVars, workVars, tokenVars, cacheVars, diskVars, validated, boundVars, cuts>>

ValidationLapses(d) ==
  /\ d \in validated
  /\ validated' = validated \ {d}
  /\ UNCHANGED <<confVars, workVars, tokenVars, cacheVars, diskVars, selfFile, boundVars, cuts>>

\* Mutant of Restart: the order in hand survives.
Restart_KeepsDomain ==
  /\ crashes < MaxCrashes
  /\ crashes' = crashes + 1
  /\ worker' = "asleep" /\ mgr' = FALSE /\ todo' = {}
  /\ pending' = [d \in Domains |-> 0] /\ answers' = {}
  /\ mem' = [d \in Domains |-> "none"] /\ self' = [d \in Domains |-> FALSE]
  /\ enabled' = (mail # None)
  /\ cuts' = IF worker \in {"writeCrt", "writeKey"} THEN cuts \cup {cur} ELSE cuts
  /\ UNCHANGED <<mail, sites, cur, orders, crt, key, left, selfFile, validated, faults, changes>>

\* odd-box is restarted, or crashes; a crash during a write leaves a torn file, one
\* between the writes a certificate without its key.
Restart ==
  /\ crashes < MaxCrashes
  /\ crashes' = crashes + 1
  /\ worker' = "asleep" /\ mgr' = FALSE /\ todo' = {} /\ cur' = None
  /\ pending' = [d \in Domains |-> 0] /\ answers' = {}
  /\ mem' = [d \in Domains |-> "none"] /\ self' = [d \in Domains |-> FALSE]
  /\ enabled' = (mail # None)
  /\ cuts' = IF worker \in {"writeCrt", "writeKey"} THEN cuts \cup {cur} ELSE cuts
  /\ crt' \in {crt} \cup (IF worker = "writeCrt" THEN {[crt EXCEPT ![cur] = "torn"]} ELSE {})
  /\ key' \in {key} \cup (IF worker = "writeKey" THEN {[key EXCEPT ![cur] = "torn"]} ELSE {})
  /\ UNCHANGED <<mail, sites, orders, left, selfFile, validated, faults, changes>>

-----------------------------------------------------------------------------
Init ==
  /\ mail \in Mails \cup {None} /\ sites \in SUBSET Domains
  /\ enabled = (mail # None)
  /\ worker = "asleep" /\ mgr = FALSE /\ todo = {} /\ cur = None /\ orders = 0
  /\ pending = [d \in Domains |-> 0] /\ answers = {}
  /\ mem = [d \in Domains |-> "none"] /\ self = [d \in Domains |-> FALSE]
  /\ crt = [d \in Domains |-> "none"] /\ left = [d \in Domains |-> 0]
  /\ key = [d \in Domains |-> "none"] /\ selfFile = [d \in Domains |-> "none"]
  /\ validated = {}
  /\ faults = 0 /\ changes = 0 /\ crashes = 0 /\ cuts = {}

Next ==
  \/ WorkerStep
  \/ \E d \in Domains : Resolve(d) \/ Ages(d) \/ SelfAges(d) \/ ValidationLapses(d)
  \/ \E m \in Mails \cup {None}, s \in SUBSET Domains : Reload(m, s)
  \/ Restart

\* The worker is a task that is polled for ever, and its requests time out.
Spec == Init /\ [][Next]_vars /\ WF_vars(WorkerStep)

-----------------------------------------------------------------------------
\* Values stay in their types; a token stands for an order that was placed, and the
\* worker has a domain in hand exactly between the head of its loop and the end of the
\* order (letsencrypt.rs).
TypeOK ==
  /\ mail \in Mails \cup {None} /\ sites \subseteq Domains /\ enabled \in BOOLEAN
  /\ worker \in Points /\ mgr \in BOOLEAN /\ todo \subseteq Domains
  /\ cur \in Domains \cup {None}
  /\ (cur = None) <=> (worker \in {"asleep", "begin", "next"})
  /\ orders \in 0..MaxOrders
  /\ pending \in [Domains -> 0..orders] /\ answers \subseteq 1..orders
  /\ mem \in [Domains -> {"none", "own", "other"}] /\ self \in [Domains -> BOOLEAN]
  /\ crt \in [Domains -> {"none", "torn", "whole"}] /\ left \in [Domains -> 0..3]
  /\ key \in [Domains -> {"none", "own", "other", "torn"}]
  /\ selfFile \in [Domains -> {"none", "good", "due"}]
  /\ validated \subseteq Domains
  /\ faults \in 0..MaxFaults /\ changes \in 0..MaxChanges /\ crashes \in 0..MaxCrashes
  /\ cuts \subseteq Domains

\* The two challenge maps name the same tokens and no two domains share one, through
\* failures half-way, reloads and restarts; while the CA validates a domain, odd-box
\* answers for it with the token of this very order.
ChallengesAgree ==
  /\ answers = {pending[d] : d \in Domains} \ {0}
  /\ \A d, e \in Domains : d # e /\ pending[d] # 0 => pending[d] # pending[e]
  /\ worker = "validate" => Answer(cur) = orders

\* Files that do not fit together, or cannot be read, and the panic they may cause, all
\* go back to a crash between the first write of a pair and the last: no order of
\* failures, renewals and reloads puts a wrong pair on disk or into the cache.
OnlyCrashesSpoil ==
  /\ \A d \in Domains : mem[d] = "other" => d \in cuts
  /\ \A d \in Domains :
       (crt[d] = "torn" \/ key[d] \in {"other", "torn"})
         => d \in cuts \/ (worker = "writeKey" /\ cur = d)
  /\ worker = "dead" => cur \in cuts

\* What a domain in hand has been found to be (get_or_create_cert).
TokenIsFresh ==
  /\ worker \in {"order", "authorize"} => pending[cur] = 0
  /\ worker = "authorize" => orders # 0 /\ \A d \in Domains : pending[d] # orders

\* The key is written after the certificate (letsencrypt.rs:253-256).
PairBegun == worker = "writeKey" => crt[cur] = "whole"

\* The inductive invariant of the proofs.
CertInv == TypeOK /\ ChallengesAgree /\ OnlyCrashesSpoil /\ TokenIsFresh /\ PairBegun

\* While Let's Encrypt is switched on, a cached pair with 30 days left is dropped by
\* nothing but a restart, however many handshakes and rounds overlap.
ValidCertKept ==
  [][\A d \in Domains :
       mem[d] # "none" /\ left[d] >= 2 /\ enabled /\ mem'[d] = "none" => crashes' # crashes]_vars

\* Rounds end: no domain holds up the others for ever.
RoundEnds == worker \notin {"asleep", "dead"} ~> worker \in {"asleep", "dead"}

(***************************************************************************)
(* What can keep a domain from its certificate.                            *)
(***************************************************************************)
ChallengeLeft(d)   == pending[d] # 0
RenewalUnproven(d) == SkipsValidation(d) /\ d \notin validated
RecordPolled(d)    == ~SkipsValidation(d) /\ d \in validated
Unreadable(d)      == HasPair(d) /\ key[d] = "torn"

Blocked(d) ==
  \/ ChallengeLeft(d) \/ RenewalUnproven(d) \/ RecordPolled(d) \/ Unreadable(d)
  \/ worker = "dead"
  \/ orders = MaxOrders

\* A domain that stays configured has a pair in the cache again and again, or ends up
\* with one of the obstacles above for good: a challenge left behind by a failed
\* attempt, a renewal that skips a validation the CA has forgotten, a validation
\* without a certificate, a torn file.  Nothing else keeps it from being certified.
Certified ==
  \A d \in Domains :
    <>[](mail # None /\ d \in sites) => ([]<>(mem[d] # "none") \/ <>[]Blocked(d))
=============================================================================
