--------------------------- MODULE SiteSupervisor ---------------------------
(***************************************************************************)
(* What the supervisor and its hot-reload promise together, whatever the   *)
(* tasks, maps and channels they are made of: per site at most one process *)
(* at a time, launched only by the newest generation of its configuration; *)
(* a generation takes over only from a site with no process; and nothing   *)
(* is left running when odd-box goes down.                                 *)
(***************************************************************************)
EXTENDS Naturals

CONSTANTS Sites, Gens

VARIABLES
  proc,   \* generations with an OS process, per site
  taken,  \* generations that have taken charge of the site so far
  down    \* odd-box has exited

absVars == <<proc, taken, down>>

Newest(s, k) == k \in taken[s] /\ \A j \in taken[s] : j <= k

Launch(s, k) ==
  /\ proc[s] = {}
  /\ Newest(s, k)
  /\ proc' = [proc EXCEPT ![s] = {k}]
  /\ UNCHANGED <<taken, down>>

End(s) ==
  /\ proc[s] # {}
  /\ proc' = [proc EXCEPT ![s] = {}]
  /\ UNCHANGED <<taken, down>>

TakeOver(S, k) ==
  /\ \A s \in S : proc[s] = {} /\ \A j \in taken[s] : j < k
  /\ taken' = [s \in Sites |-> IF s \in S THEN taken[s] \cup {k} ELSE taken[s]]
  /\ UNCHANGED <<proc, down>>

GoDown ==
  /\ \A s \in Sites : proc[s] = {}
  /\ down' = TRUE
  /\ UNCHANGED <<proc, taken>>

AbsInit ==
  /\ proc = [s \in Sites |-> {}]
  /\ taken \in [Sites -> {{}, {0}}]
  /\ down = FALSE

AbsNext ==
  /\ ~down
  /\ \/ \E s \in Sites : End(s) \/ \E k \in Gens : Launch(s, k)
     \/ \E S \in SUBSET Sites, k \in Gens : TakeOver(S, k)
     \/ GoDown

AbsSpec == AbsInit /\ [][AbsNext]_absVars
=============================================================================
