------------------------- MODULE ConfigUpdateProofs -------------------------
(***************************************************************************)
(* For any number of handlers, any requests, files, faults and crashes: a  *)
(* change that is confirmed by a reload is in the active configuration, if *)
(* nobody else has touched the file since the handler copied it; a write   *)
(* changes its own site and no other; what is active is valid; an unusable *)
(* file has a cause that can be named; and types.                          *)
(***************************************************************************)
EXTENDS ConfigUpdate, SequenceTheorems, WellFoundedInduction, TLAPS

USE DEF diskVars, activeVars, passVars, dockerVars, handlerVars, vars

Busy(h) == pc[h] \in {"write", "fill", "wait"}

\* The types this argument needs.
Shapes ==
  /\ pc     \in [Handlers -> {"new", "write", "fill", "wait", "done"}]
  /\ answer \in [Handlers -> {None, "ok", "null", "failed"}]
  /\ alone  \in [Handlers -> BOOLEAN]
  /\ mixed  \in [Handlers -> BOOLEAN]
  /\ seen   \in [Handlers -> Nat]
  /\ DOMAIN req = Handlers /\ DOMAIN base = Handlers
  /\ version \in Nat

\* A request is only under way in a running program, and has no answer before
\* it is done.
UnderWay == \A h \in Handlers : /\ Busy(h) => boot = "up"
                                /\ pc[h] # "done" => answer[h] = None

\* What a handler that has been alone so far can rely on at each point.
FileIsUntouched(h) ==
  /\ file # Torn /\ Upgrade(file) = config /\ base[h] = config
  /\ events = 0 /\ pass = "idle" /\ version = seen[h]

FileIsOpen(h) ==
  /\ file = Torn /\ ~mixed[h]
  /\ pass \in {"idle", "sleep"} /\ version = seen[h]

FileIsMine(h) ==
  /\ file = Written(Draft(h))
  /\ pass \in {"await", "swap"} => next = Reloaded(file)
  /\ version >= seen[h]
  /\ version > seen[h] => config = Reloaded(file)

Undisturbed ==
  \A h \in Handlers : alone[h] =>
    /\ pc[h] = "write" => FileIsUntouched(h)
    /\ pc[h] = "fill"  => FileIsOpen(h)
    /\ pc[h] = "wait"  => FileIsMine(h)

UpdateInv == Shapes /\ UnderWay /\ Undisturbed

-----------------------------------------------------------------------------
LEMMA InitUpdate == Init => UpdateInv
<1> SUFFICES ASSUME Init PROVE UpdateInv
  OBVIOUS
<1>1. mixed \in [Handlers -> BOOLEAN] /\ alone \in [Handlers -> BOOLEAN]
  BY Zenon DEF Init
<1>2. Shapes
  BY <1>1 DEF Init, Shapes
<1> QED
  BY <1>2 DEF Init, UpdateInv, UnderWay, Undisturbed, Busy

-----------------------------------------------------------------------------
(* Shapes. *)

LEMMA DisturbShapes ==
  ASSUME Shapes, NEW h \in Handlers, Disturb(h)
  PROVE  /\ alone' \in [Handlers -> BOOLEAN]
         /\ \A g \in Handlers : alone'[g] => g = h /\ alone[g]
<1>1. \A g \in Handlers : (g = h /\ alone[g]) \in BOOLEAN
  OBVIOUS
<1>2. alone' \in [Handlers -> BOOLEAN]
  BY <1>1, Zenon DEF Disturb
<1>3. \A g \in Handlers : alone'[g] = (g = h /\ alone[g])
  BY Zenon DEF Disturb
<1> QED
  BY <1>2, <1>3

LEMMA MixedShapes ==
  ASSUME NEW h \in Handlers, mixed' = [g \in Handlers |-> pc[g] = "fill" /\ g # h]
  PROVE  mixed' \in [Handlers -> BOOLEAN]
<1>1. \A g \in Handlers : (pc[g] = "fill" /\ g # h) \in BOOLEAN
  OBVIOUS
<1> QED
  BY <1>1, Zenon

LEMMA NextShapes == Shapes /\ [Next]_vars => Shapes'
<1> SUFFICES ASSUME Shapes, [Next]_vars PROVE Shapes'
  OBVIOUS
<1>1. ASSUME NEW h \in Handlers, Request(h) PROVE Shapes'
  <2>1. PICK r \in MayAsk[h] : Copy(h, r)
    BY <1>1 DEF Request, AnswerAtOnce, Receive
  <2>2. Quiet \in BOOLEAN
    BY Zenon DEF Quiet
  <2>3. alone' \in [Handlers -> BOOLEAN]
    BY <2>1, <2>2 DEF Copy, Shapes
  <2>4. seen' \in [Handlers -> Nat] /\ DOMAIN req' = Handlers /\ DOMAIN base' = Handlers
    BY <2>1 DEF Copy, Shapes
  <2>5. /\ pc' \in [Handlers -> {"new", "write", "fill", "wait", "done"}]
        /\ answer' \in [Handlers -> {None, "ok", "null", "failed"}]
        /\ UNCHANGED <<mixed, version>>
    BY <1>1 DEF Request, AnswerAtOnce, Receive, Finish, Shapes
  <2> QED
    BY <2>3, <2>4, <2>5 DEF Shapes
<1>2. ASSUME NEW h \in Handlers, Empty(h) PROVE Shapes'
  <2>1. mixed' \in [Handlers -> BOOLEAN]
    BY <1>2 DEF Empty
  <2> QED
    BY <1>2, <2>1, DisturbShapes DEF Empty, Shapes
<1>3. ASSUME NEW h \in Handlers, Fill(h) PROVE Shapes'
  <2>1. mixed' \in [Handlers -> BOOLEAN]
    BY <1>3, MixedShapes DEF Fill
  <2>2. /\ pc' \in [Handlers -> {"new", "write", "fill", "wait", "done"}]
        /\ answer' \in [Handlers -> {None, "ok", "null", "failed"}]
    BY <1>3 DEF Fill, Finish, Shapes
  <2> QED
    BY <1>3, <2>1, <2>2, DisturbShapes DEF Fill, Shapes
<1>4. ASSUME NEW h \in Handlers, WriteFails(h) \/ Confirm(h) \/ Timeout(h) PROVE Shapes'
  BY <1>4 DEF WriteFails, Confirm, Timeout, Finish, Shapes
<1>5. CASE Monitor \/ Docker \/ Load \/ Upgrading \/ ContainersChange
  <2>1. UNCHANGED handlerVars /\ version' \in Nat
    BY <1>5 DEF Monitor, TakeEvent, NothingToDo, Plan, Abandon, Reconcile, Swap, Docker,
      Discover, Store, Load, Upgrading, EmptyOld, FillOld, ContainersChange, Shapes
  <2> QED
    BY <2>1 DEF Shapes
<1>6. CASE EditFile
  <2>1. \A h \in Handlers : (pc[h] = "fill") \in BOOLEAN
    OBVIOUS
  <2>2. mixed' \in [Handlers -> BOOLEAN] /\ alone' \in [Handlers -> BOOLEAN]
    BY <1>6, <2>1, Zenon DEF EditFile
  <2> QED
    BY <1>6, <2>2 DEF EditFile, Shapes
<1>7. CASE Crash
  BY <1>7 DEF Crash, Shapes
<1>8. CASE UNCHANGED vars
  BY <1>8 DEF Shapes
<1> QED
  BY <1>1, <1>2, <1>3, <1>4, <1>5, <1>6, <1>7, <1>8 DEF Next, Handle

-----------------------------------------------------------------------------
(* A request is under way. *)

LEMMA NextUnderWay == UpdateInv /\ [Next]_vars => UnderWay'
<1> SUFFICES ASSUME UpdateInv, [Next]_vars PROVE UnderWay'
  OBVIOUS
<1> USE DEF UpdateInv, UnderWay, Busy
<1>1. ASSUME NEW h \in Handlers, Request(h) PROVE UnderWay'
  BY <1>1 DEF Request, AnswerAtOnce, Receive, Copy, Finish, Shapes
<1>2. ASSUME NEW h \in Handlers, Handle(h) PROVE UnderWay'
  BY <1>2 DEF Handle, Empty, Fill, WriteFails, Confirm, Timeout, Finish, Shapes
<1>3. CASE Monitor \/ Docker \/ ContainersChange \/ EditFile
  BY <1>3 DEF Monitor, TakeEvent, NothingToDo, Plan, Abandon, Reconcile, Swap, Docker,
    Discover, Store, ContainersChange, EditFile, Shapes
<1>4. CASE Load \/ Upgrading
  BY <1>4 DEF Load, Upgrading, EmptyOld, FillOld, Shapes
<1>5. CASE Crash
  BY <1>5 DEF Crash, Shapes
<1>6. CASE UNCHANGED vars
  BY <1>6
<1> QED
  BY <1>1, <1>2, <1>3, <1>4, <1>5, <1>6 DEF Next
-----------------------------------------------------------------------------
(* What a handler that is alone relies on. *)

\* Requests of anybody leave what the others rely on, and start from a state
\* in which file and configuration agree.
LEMMA RequestUndisturbed ==
  ASSUME UpdateInv, NEW h \in Handlers, Request(h)
  PROVE  Undisturbed'
<1>1. PICK r \in MayAsk[h] : Copy(h, r)
  BY DEF Request, AnswerAtOnce, Receive
<1>2. /\ UNCHANGED <<file, events, config, version, pass, next, mixed>>
      /\ pc' \in {[pc EXCEPT ![h] = "write"], [pc EXCEPT ![h] = "done"]}
  BY DEF Request, AnswerAtOnce, Receive, Finish
<1>3. ASSUME NEW g \in Handlers, g # h
      PROVE  /\ pc'[g] = pc[g] /\ alone'[g] = alone[g] /\ seen'[g] = seen[g]
             /\ base'[g] = base[g] /\ req'[g] = req[g]
  BY <1>1, <1>2, <1>3 DEF Copy, UpdateInv, Shapes
<1>4. ASSUME NEW g \in Handlers, g # h, alone'[g]
      PROVE  /\ pc'[g] = "write" => FileIsUntouched(g)'
             /\ pc'[g] = "fill"  => FileIsOpen(g)'
             /\ pc'[g] = "wait"  => FileIsMine(g)'
  BY <1>2, <1>3, <1>4 DEF UpdateInv, Undisturbed, FileIsUntouched, FileIsOpen, FileIsMine,
    Draft
<1>5. ASSUME alone'[h], pc'[h] = "write" PROVE FileIsUntouched(h)'
  <2>1. Quiet
    BY <1>1, <1>5 DEF Copy, UpdateInv, Shapes
  <2>2. base'[h] = config /\ seen'[h] = version
    BY <1>1 DEF Copy, UpdateInv, Shapes
  <2> QED
    BY <2>1, <2>2, <1>2 DEF Quiet, FileIsUntouched
<1>6. pc'[h] \in {"write", "done"}
  BY <1>2 DEF UpdateInv, Shapes
<1> QED
  BY <1>4, <1>5, <1>6 DEF Undisturbed

LEMMA EmptyUndisturbed ==
  ASSUME UpdateInv, NEW h \in Handlers, Empty(h)
  PROVE  Undisturbed'
<1>1. \A g \in Handlers : alone'[g] => g = h /\ alone[g]
  BY DisturbShapes DEF Empty, UpdateInv
<1>2. pc'[h] = "fill" /\ ~mixed'[h]
  BY DEF Empty, UpdateInv, Shapes
<1>3. ASSUME alone'[h] PROVE FileIsOpen(h)'
  <2>1. FileIsUntouched(h)
    BY <1>1, <1>3 DEF Empty, UpdateInv, Undisturbed
  <2> QED
    BY <2>1, <1>2 DEF Empty, Modify, FileIsUntouched, FileIsOpen
<1> QED
  BY <1>1, <1>2, <1>3 DEF Undisturbed

LEMMA FillUndisturbed ==
  ASSUME UpdateInv, NEW h \in Handlers, Fill(h)
  PROVE  Undisturbed'
<1>1. \A g \in Handlers : alone'[g] => g = h /\ alone[g]
  BY DisturbShapes DEF Fill, UpdateInv
<1>2. pc'[h] \in {"wait", "done"}
  BY DEF Fill, Finish, UpdateInv, Shapes
<1>3. ASSUME alone'[h] PROVE FileIsMine(h)'
  <2>1. FileIsOpen(h)
    BY <1>1, <1>3 DEF Fill, UpdateInv, Undisturbed
  <2>2. file' = Written(Draft(h)) /\ Draft(h)' = Draft(h)
    BY <2>1 DEF FileIsOpen, Fill, Modify, Draft
  <2>3. UNCHANGED <<pass, version, seen, config, next>> /\ version \in Nat
    BY DEF Fill, UpdateInv, Shapes
  <2> QED
    BY <2>1, <2>2, <2>3 DEF FileIsOpen, FileIsMine
<1> QED
  BY <1>1, <1>2, <1>3 DEF Undisturbed

\* Answers leave everything but the handler's own point.
LEMMA AnswerUndisturbed ==
  ASSUME UpdateInv, NEW h \in Handlers, WriteFails(h) \/ Confirm(h) \/ Timeout(h)
  PROVE  Undisturbed'
<1>1. /\ UNCHANGED <<file, events, config, version, pass, next, mixed, alone, seen, base, req>>
      /\ pc' = [pc EXCEPT ![h] = "done"]
  BY DEF WriteFails, Confirm, Timeout, Finish
<1>2. ASSUME NEW g \in Handlers, pc'[g] \in {"write", "fill", "wait"} PROVE pc'[g] = pc[g]
  BY <1>1, <1>2 DEF UpdateInv, Shapes
<1>3. ASSUME NEW g \in Handlers, alone'[g]
      PROVE  /\ pc'[g] = "write" => FileIsUntouched(g)'
             /\ pc'[g] = "fill"  => FileIsOpen(g)'
             /\ pc'[g] = "wait"  => FileIsMine(g)'
  BY <1>1, <1>2, <1>3 DEF UpdateInv, Undisturbed, FileIsUntouched, FileIsOpen, FileIsMine,
    Draft
<1> QED
  BY <1>3 DEF Undisturbed

\* A pass reads what the handler has written, or an emptied file.
LEMMA MonitorUndisturbed ==
  ASSUME UpdateInv, Monitor
  PROVE  Undisturbed'
<1>1. UNCHANGED <<file, handlerVars>>
  BY DEF Monitor, TakeEvent, NothingToDo, Plan, Abandon, Reconcile, Swap
<1>2. ASSUME NEW h \in Handlers, alone'[h]
      PROVE  /\ pc'[h] = "write" => FileIsUntouched(h)'
             /\ pc'[h] = "fill"  => FileIsOpen(h)'
             /\ pc'[h] = "wait"  => FileIsMine(h)'
  <2>1. Draft(h)' = Draft(h)
    BY <1>1 DEF Draft
  <2>2. ASSUME pc[h] = "write" PROVE FileIsUntouched(h)'
    <3>1. FileIsUntouched(h)
      BY <1>1, <1>2, <2>2 DEF UpdateInv, Undisturbed
    <3> QED
      BY <3>1, <1>1 DEF FileIsUntouched, Monitor, TakeEvent, NothingToDo, Plan, Abandon,
        Reconcile, Swap
  <2>3. ASSUME pc[h] = "fill" PROVE FileIsOpen(h)'
    <3>1. FileIsOpen(h)
      BY <1>1, <1>2, <2>3 DEF UpdateInv, Undisturbed
    <3>2. ~Worthwhile
      BY <3>1 DEF FileIsOpen, Worthwhile, Usable
    <3>3. pass' \in {"idle", "sleep"} /\ UNCHANGED version
      BY <3>1, <3>2 DEF FileIsOpen, Monitor, TakeEvent, NothingToDo, Plan, Abandon, Reconcile,
        Swap
    <3> QED
      BY <3>1, <3>3, <1>1 DEF FileIsOpen
  <2>4. ASSUME pc[h] = "wait" PROVE FileIsMine(h)'
    <3>1. FileIsMine(h) /\ version \in Nat /\ seen[h] \in Nat
      BY <1>1, <1>2, <2>4 DEF UpdateInv, Undisturbed, Shapes
    <3>2. CASE TakeEvent \/ NothingToDo \/ Abandon
      BY <3>1, <3>2, <1>1, <2>1 DEF FileIsMine, TakeEvent, NothingToDo, Abandon
    <3>3. CASE Plan
      <4>1. next' = Reloaded(file') /\ UNCHANGED <<config, version>>
        BY <3>3, <1>1 DEF Plan
      <4> QED
        BY <4>1, <3>1, <1>1, <2>1 DEF FileIsMine
    <3>4. CASE Reconcile
      BY <3>1, <3>4, <1>1, <2>1 DEF FileIsMine, Reconcile
    <3>5. CASE Swap
      <4>1. config' = Reloaded(file') /\ version' = version + 1 /\ pass' = "idle"
        BY <3>5, <3>1, <1>1 DEF Swap, FileIsMine
      <4> QED
        BY <4>1, <3>1, <1>1, <2>1 DEF FileIsMine
    <3> QED
      BY <3>2, <3>3, <3>4, <3>5 DEF Monitor
  <2> QED
    BY <2>2, <2>3, <2>4, <1>1
<1> QED
  BY <1>2 DEF Undisturbed

\* Nobody is under way while the program starts.
LEMMA StartUndisturbed ==
  ASSUME UpdateInv, Load \/ Upgrading
  PROVE  Undisturbed'
<1>1. boot # "up" /\ UNCHANGED handlerVars
  BY DEF Load, Upgrading, EmptyOld, FillOld
<1> QED
  BY <1>1 DEF UpdateInv, UnderWay, Busy, Undisturbed

LEMMA NextUndisturbed == UpdateInv /\ [Next]_vars => Undisturbed'
<1> SUFFICES ASSUME UpdateInv, [Next]_vars PROVE Undisturbed'
  OBVIOUS
<1>1. CASE Docker \/ ContainersChange \/ UNCHANGED vars
  <2>1. UNCHANGED <<file, events, config, version, pass, next, handlerVars>>
    BY <1>1 DEF Docker, Discover, Store, ContainersChange
  <2> QED
    BY <2>1 DEF UpdateInv, Undisturbed, FileIsUntouched, FileIsOpen, FileIsMine, Draft
<1>2. CASE EditFile
  <2>1. \A h \in Handlers : ~alone'[h]
    BY <1>2 DEF EditFile
  <2> QED
    BY <2>1 DEF Undisturbed
<1>3. CASE Crash
  <2>1. \A h \in Handlers : pc'[h] \in {"new", "done"}
    BY <1>3 DEF Crash
  <2> QED
    BY <2>1 DEF Undisturbed
<1> QED
  BY <1>1, <1>2, <1>3, RequestUndisturbed, EmptyUndisturbed, FillUndisturbed,
     AnswerUndisturbed, MonitorUndisturbed, StartUndisturbed DEF Next, Handle

-----------------------------------------------------------------------------
(* Theorems. *)

\* The invariant: shapes, requests under way, and what a handler that is alone
\* can rely on (sites.rs 186-276, reload.rs 12-40 and 165).
THEOREM UpdateInvariant == Spec => []UpdateInv
<1>1. UpdateInv /\ [Next]_vars => UpdateInv'
  BY NextShapes, NextUnderWay, NextUndisturbed DEF UpdateInv
<1> QED
  BY InitUpdate, <1>1, PTL DEF Spec

\* A confirmed step finds the file it has written in the configuration.
LEMMA ConfirmedStep ==
  ASSUME UpdateInv, [Next]_vars, NEW h \in Handlers,
         pc[h] = "wait", pc'[h] = "done", answer'[h] = "ok", alone[h]
  PROVE  \/ config = Reloaded(Written(Draft(h)))
         \/ req[h] \in Settings /\ version = seen[h]
<1>1. FileIsMine(h) /\ version \in Nat /\ seen[h] \in Nat
  BY DEF UpdateInv, Undisturbed, Shapes
<1>2. answer[h] = None /\ None # "ok"
  BY UpdateAssumption DEF UpdateInv, UnderWay
<1>3. PICK g \in Handlers : Request(g) \/ Handle(g)
  BY <1>2 DEF Next, Monitor, TakeEvent, NothingToDo, Plan, Abandon, Reconcile, Swap, Docker,
    Discover, Store, Load, Upgrading, EmptyOld, FillOld, ContainersChange, EditFile, Crash
<1>4. g = h
  BY <1>3 DEF Request, Handle, AnswerAtOnce, Receive, Copy, Empty, Fill, WriteFails, Confirm,
    Timeout, Finish, UpdateInv, Shapes
<1>5. Confirm(h) \/ Timeout(h)
  BY <1>3, <1>4 DEF Request, Handle, AnswerAtOnce, Receive, Copy, Empty, Fill, WriteFails
<1>6. CASE Confirm(h)
  BY <1>6, <1>1 DEF Confirm, FileIsMine
<1>7. CASE Timeout(h)
  <2>1. version <= seen[h]
    BY <1>7 DEF Timeout
  <2>2. req[h] \in Settings
    BY <1>7 DEF Timeout, Finish, UpdateInv, Shapes
  <2> QED
    BY <2>1, <2>2, <1>1 DEF FileIsMine
<1> QED
  BY <1>5, <1>6, <1>7

\* What a handler confirms after a reload is what the proxy now runs with
\* (sites.rs 258-267, settings.rs 218-228).
THEOREM ConfirmedChangeIsActive == Spec => ConfirmedIsActive
<1>1. UpdateInv /\ [Next]_vars =>
        [\A h \in Handlers :
           pc[h] = "wait" /\ pc'[h] = "done" /\ answer'[h] = "ok" /\ alone[h] =>
             config = Reloaded(Written(Draft(h)))
             \/ (req[h] \in Settings /\ version = seen[h])]_vars
  BY ConfirmedStep
<1> QED
  BY <1>1, UpdateInvariant, PTL DEF Spec, ConfirmedIsActive

-----------------------------------------------------------------------------
(***************************************************************************)
(* Lists of blocks.  What retain leaves is built block by block, so what   *)
(* is said of it is shown by induction over the list.                      *)
(***************************************************************************)
\* Every set of numbers has a least one, so a set with 0 and with the successor
\* of each of its members has them all.
LEMMA Least ==
  ASSUME NEW T, T \subseteq Nat, T # {}
  PROVE  \E x \in T : \A y \in T : x <= y
<1> DEFINE R == OpToRel(<, Nat)
<1>1. IsWellFoundedOn(R, Nat)
  BY NatLessThanWellFounded
<1>2. \A x, y \in Nat : x < y => <<x, y>> \in R
  BY DEF OpToRel
<1> HIDE DEF R
<1>3. PICK x \in T : \A y \in T : <<y, x>> \notin R
  BY <1>1, WFMin
<1>4. \A y \in T : x <= y
  <2> TAKE y \in T
  <2>1. x \in Nat /\ y \in Nat
    OBVIOUS
  <2>2. ~(y < x)
    BY <2>1, <1>2, <1>3
  <2> QED
    BY <2>1, <2>2
<1> QED
  BY <1>4

LEMMA Inductive ==
  ASSUME NEW S, 0 \in S, \A n \in Nat : n \in S => n + 1 \in S
  PROVE  \A n \in Nat : n \in S
<1> SUFFICES ASSUME Nat \ S # {} PROVE FALSE
  OBVIOUS
<1>1. PICK x \in Nat \ S : \A y \in Nat \ S : x <= y
  BY Least
<1>2. x # 0 /\ x - 1 \in Nat /\ x - 1 \in S
  BY <1>1
<1>3. (x - 1) + 1 \in S
  BY <1>2
<1> QED
  BY <1>1, <1>2, <1>3

\* What Retained does with item i, given what it has made of the earlier ones.
KeptOrNot(items, hosts, f, i) ==
  IF i = 0 THEN <<>>
  ELSE IF items[i].host \in hosts THEN f[i-1] ELSE Append(f[i-1], items[i])

\* Retained is the function that its recursion describes.
LEMMA RetainedDef ==
  ASSUME NEW s, NEW H, Len(s) \in Nat
  PROVE  /\ Retained(s, H)[0] = <<>>
         /\ \A i \in 1..Len(s) :
              Retained(s, H)[i] = IF s[i].host \in H THEN Retained(s, H)[i-1]
                              ELSE Append(Retained(s, H)[i-1], s[i])
<1> DEFINE S == {n \in Nat : \E f : f = [i \in 0..n |-> KeptOrNot(s, H, f, i)]}
<1>1. 0 \in S
  <2> DEFINE f == [i \in 0..0 |-> <<>>]
  <2>1. f = [i \in 0..0 |-> KeptOrNot(s, H, f, i)]
    BY DEF KeptOrNot
  <2> QED
    BY <2>1
<1>2. ASSUME NEW n \in Nat, n \in S PROVE n + 1 \in S
  <2>1. PICK f : f = [i \in 0..n |-> KeptOrNot(s, H, f, i)]
    BY <1>2
  <2> DEFINE g == [i \in 0..(n+1) |-> IF i \in 0..n THEN f[i] ELSE KeptOrNot(s, H, f, i)]
  <2>2. \A i \in 0..(n+1) : g[i] = KeptOrNot(s, H, g, i)
    <3> TAKE i \in 0..(n+1)
    <3>1. i # 0 => i - 1 \in 0..n /\ g[i-1] = f[i-1]
      OBVIOUS
    <3>2. KeptOrNot(s, H, g, i) = KeptOrNot(s, H, f, i)
      BY <3>1 DEF KeptOrNot
    <3>3. i \in 0..n => f[i] = KeptOrNot(s, H, f, i)
      BY <2>1
    <3> QED
      BY <3>2, <3>3
  <2> HIDE DEF g
  <2>3. g = [i \in 0..(n+1) |-> KeptOrNot(s, H, g, i)]
    BY <2>2 DEF g
  <2> QED
    BY <2>3
<1>3. Len(s) \in S
  <2> HIDE DEF S
  <2> QED
    BY <1>1, <1>2, Inductive
<1>4. PICK f : f = [i \in 0..Len(s) |-> KeptOrNot(s, H, f, i)]
  BY <1>3
<1>5. Retained(s, H) = CHOOSE g : g = [i \in 0..Len(s) |-> KeptOrNot(s, H, g, i)]
  BY Zenon DEF Retained, KeptOrNot
<1>6. Retained(s, H) = [i \in 0..Len(s) |-> KeptOrNot(s, H, Retained(s, H), i)]
  BY <1>4, <1>5
<1> HIDE DEF S
<1>7. \A i \in 0..Len(s) : Retained(s, H)[i] = KeptOrNot(s, H, Retained(s, H), i)
  BY <1>6
<1>8. 0 \in 0..Len(s) /\ \A i \in 1..Len(s) : i \in 0..Len(s) /\ i # 0
  OBVIOUS
<1> QED
  BY <1>7, <1>8 DEF KeptOrNot

\* By induction up to n.
LEMMA UpTo ==
  ASSUME NEW n \in Nat, NEW S, 0 \in S, \A i \in 1..n : i - 1 \in S => i \in S
  PROVE  \A i \in 0..n : i \in S
<1> DEFINE T == {i \in Nat : i <= n => i \in S}
<1>1. 0 \in T
  OBVIOUS
<1>2. ASSUME NEW i \in Nat, i \in T PROVE i + 1 \in T
  <2>1. i + 1 <= n => i + 1 \in 1..n /\ (i + 1) - 1 = i /\ i \in S
    BY <1>2
  <2> QED
    BY <2>1
<1>3. \A i \in Nat : i \in T
  <2> HIDE DEF T
  <2> QED
    BY <1>1, <1>2, Inductive
<1> QED
  BY <1>3

\* What is kept are the blocks with other names.
LEMMA RetainedIs ==
  ASSUME NEW T, NEW s \in Seq(T), NEW H
  PROVE  \A n \in 0..Len(s) :
           /\ Retained(s, H)[n] \in Seq(T)
           /\ \A j \in DOMAIN Retained(s, H)[n] :
                Retained(s, H)[n][j].host \notin H /\ \E i \in 1..n : Retained(s, H)[n][j] = s[i]
<1>0. Len(s) \in Nat
  OBVIOUS
<1> DEFINE k == Retained(s, H)
           S == {n \in 0..Len(s) :
                   /\ k[n] \in Seq(T)
                   /\ \A j \in DOMAIN k[n] : k[n][j].host \notin H /\ \E i \in 1..n : k[n][j] = s[i]}
<1>1. /\ k[0] = <<>>
      /\ \A i \in 1..Len(s) : k[i] = IF s[i].host \in H THEN k[i-1] ELSE Append(k[i-1], s[i])
  BY <1>0, RetainedDef
<1> HIDE DEF k
<1>2. 0 \in S
  <2>1. k[0] \in Seq(T) /\ DOMAIN k[0] = {}
    BY <1>1
  <2> QED
    BY <1>0, <2>1
<1>3. ASSUME NEW i \in 1..Len(s), i - 1 \in S PROVE i \in S
  <2>1. k[i-1] \in Seq(T) /\ s[i] \in T
    BY <1>3
  <2>a. k[i] = IF s[i].host \in H THEN k[i-1] ELSE Append(k[i-1], s[i])
    BY <1>1
  <2> HIDE DEF S
  <2>2. k[i] \in Seq(T)
    BY <2>a, <2>1, AppendProperties
  <2> USE DEF S
  <2>3. ASSUME NEW j \in DOMAIN k[i]
        PROVE  k[i][j].host \notin H /\ \E l \in 1..i : k[i][j] = s[l]
    <3>1. ASSUME j \in DOMAIN k[i-1], k[i][j] = k[i-1][j]
          PROVE  k[i][j].host \notin H /\ \E l \in 1..i : k[i][j] = s[l]
      <4>1. PICK l \in 1..(i-1) : k[i-1][j] = s[l]
        BY <1>3, <3>1
      <4> QED
        BY <1>3, <3>1, <4>1
    <3>2. CASE s[i].host \in H
      BY <1>1, <2>3, <3>1, <3>2
    <3>3. CASE s[i].host \notin H
      <4>1. k[i] = Append(k[i-1], s[i])
        BY <1>1, <3>3
      <4>2. CASE j = Len(k[i-1]) + 1
        BY <2>1, <4>1, <4>2, <3>3
      <4>3. CASE j # Len(k[i-1]) + 1
        BY <2>1, <2>3, <4>1, <4>3, <3>1
      <4> QED
        BY <4>2, <4>3
    <3> QED
      BY <3>2, <3>3
  <2> QED
    BY <2>2, <2>3
<1>4. \A n \in 0..Len(s) : n \in S
  <2> HIDE DEF S
  <2> QED
    BY <1>2, <1>3, <1>0, UpTo
<1> QED
  BY <1>4 DEF k

\* Where no name is struck out, everything is kept.
LEMMA RetainedAll ==
  ASSUME NEW T, NEW s \in Seq(T), NEW H, NEW m \in 0..Len(s),
         \A i \in 1..m : s[i].host \notin H
  PROVE  /\ Retained(s, H)[m] \in Seq(T) /\ Len(Retained(s, H)[m]) = m
         /\ \A j \in 1..m : Retained(s, H)[m][j] = s[j]
<1>0. Len(s) \in Nat /\ m \in Nat
  OBVIOUS
<1> DEFINE k == Retained(s, H)
           S == {n \in 0..m : /\ k[n] \in Seq(T) /\ Len(k[n]) = n
                              /\ \A j \in 1..n : k[n][j] = s[j]}
<1>1. /\ k[0] = <<>>
      /\ \A i \in 1..Len(s) : k[i] = IF s[i].host \in H THEN k[i-1] ELSE Append(k[i-1], s[i])
  BY <1>0, RetainedDef
<1> HIDE DEF k
<1>2. 0 \in S
  <2>1. k[0] \in Seq(T) /\ Len(k[0]) = 0
    BY <1>1
  <2> QED
    BY <1>0, <2>1
<1>3. ASSUME NEW i \in 1..m, i - 1 \in S PROVE i \in S
  <2>0. i \in 1..Len(s)
    BY <1>0
  <2>1. k[i] = Append(k[i-1], s[i])
    BY <2>0, <1>1
  <2>2. k[i-1] \in Seq(T) /\ s[i] \in T /\ Len(k[i-1]) = i - 1
    BY <1>3
  <2>3. k[i] \in Seq(T) /\ Len(k[i]) = i
    BY <2>1, <2>2
  <2>4. \A j \in 1..i : k[i][j] = s[j]
    BY <1>3, <2>1, <2>2
  <2> QED
    BY <2>3, <2>4
<1>4. \A n \in 0..m : n \in S
  <2> HIDE DEF S
  <2> QED
    BY <1>2, <1>3, <1>0, UpTo
<1> QED
  BY <1>4 DEF k

\* Lists that agree block for block keep what agrees.
LEMMA RetainedAlike ==
  ASSUME NEW T, NEW s \in Seq(T), NEW t \in Seq(T), Len(s) = Len(t), NEW H,
         \A i \in 1..Len(s) : Alike(s[i], t[i])
  PROVE  \A n \in 0..Len(s) :
           /\ Retained(s, H)[n] \in Seq(T) /\ Retained(t, H)[n] \in Seq(T)
           /\ Len(Retained(s, H)[n]) = Len(Retained(t, H)[n])
           /\ \A j \in 1..Len(Retained(s, H)[n]) : Alike(Retained(s, H)[n][j], Retained(t, H)[n][j])
<1>0. Len(s) \in Nat
  OBVIOUS
<1> DEFINE k == Retained(s, H)
           l == Retained(t, H)
           S == {n \in 0..Len(s) : /\ k[n] \in Seq(T) /\ l[n] \in Seq(T) /\ Len(k[n]) = Len(l[n])
                                   /\ \A j \in 1..Len(k[n]) : Alike(k[n][j], l[n][j])}
<1>1. /\ k[0] = <<>>
      /\ \A i \in 1..Len(s) : k[i] = IF s[i].host \in H THEN k[i-1] ELSE Append(k[i-1], s[i])
  BY <1>0, RetainedDef
<1>2. /\ l[0] = <<>>
      /\ \A i \in 1..Len(s) : l[i] = IF t[i].host \in H THEN l[i-1] ELSE Append(l[i-1], t[i])
  BY <1>0, RetainedDef
<1> HIDE DEF k, l
<1>3. 0 \in S
  <2>1. k[0] \in Seq(T) /\ Len(k[0]) = 0 /\ l[0] \in Seq(T) /\ Len(l[0]) = 0
    BY <1>1, <1>2
  <2> QED
    BY <1>0, <2>1
<1>4. ASSUME NEW i \in 1..Len(s), i - 1 \in S PROVE i \in S
  <2>1. /\ k[i-1] \in Seq(T) /\ s[i] \in T /\ l[i-1] \in Seq(T) /\ t[i] \in T
        /\ Len(k[i-1]) = Len(l[i-1]) /\ s[i].host = t[i].host /\ Alike(s[i], t[i])
        /\ \A j \in 1..Len(k[i-1]) : Alike(k[i-1][j], l[i-1][j])
    BY <1>4 DEF Alike
  <2> HIDE DEF S
  <2> DEFINE Agree == /\ k[i] \in Seq(T) /\ l[i] \in Seq(T) /\ Len(k[i]) = Len(l[i])
                      /\ \A j \in 1..Len(k[i]) : Alike(k[i][j], l[i][j])
  <2>2. ASSUME s[i].host \in H PROVE Agree
    <3>1. k[i] = k[i-1] /\ l[i] = l[i-1]
      BY <1>1, <1>2, <2>1, <2>2
    <3> QED
      BY <3>1, <2>1
  <2>3. ASSUME s[i].host \notin H PROVE Agree
    <3>1. k[i] = Append(k[i-1], s[i]) /\ l[i] = Append(l[i-1], t[i])
      BY <1>1, <1>2, <2>1, <2>3
    <3>2. /\ k[i] \in Seq(T) /\ Len(k[i]) = Len(k[i-1]) + 1
          /\ \A j \in 1..Len(k[i-1]) : k[i][j] = k[i-1][j]
          /\ k[i][Len(k[i-1]) + 1] = s[i]
      BY <3>1, <2>1, AppendProperties
    <3>3. /\ l[i] \in Seq(T) /\ Len(l[i]) = Len(l[i-1]) + 1
          /\ \A j \in 1..Len(l[i-1]) : l[i][j] = l[i-1][j]
          /\ l[i][Len(l[i-1]) + 1] = t[i]
      BY <3>1, <2>1, AppendProperties
    <3>4. ASSUME NEW j \in 1..Len(k[i]) PROVE Alike(k[i][j], l[i][j])
      <4>1. CASE j = Len(k[i-1]) + 1
        BY <3>2, <3>3, <2>1, <4>1
      <4>2. CASE j # Len(k[i-1]) + 1
        <5>1. j \in 1..Len(k[i-1]) /\ j \in 1..Len(l[i-1])
          BY <3>2, <2>1, <4>2
        <5> QED
          BY <3>2, <3>3, <2>1, <5>1
      <4> QED
        BY <4>1, <4>2
    <3> QED
      BY <3>2, <3>3, <3>4, <2>1
  <2>4. i \in 0..Len(s)
    BY <1>0
  <2> QED
    BY <2>2, <2>3, <2>4 DEF S
<1>5. \A n \in 0..Len(s) : n \in S
  <2> HIDE DEF S
  <2> QED
    BY <1>3, <1>4, <1>0, UpTo
<1> QED
  BY <1>5 DEF k, l

-----------------------------------------------------------------------------
(***************************************************************************)
(* Blocks and configurations keep the fields and flags of their format.    *)
(***************************************************************************)
Fields == {"kind", "host", "port", "hints", "args", "ownPort", "body", "flags"}

\* Only the flags, the port, the hints and the arguments of a block are ever changed.
LEMMA NewFlags ==
  ASSUME NEW b, NEW v, NEW k, WellFormedBlock(b, v, k), NEW w, NEW F,
         F \in [DOMAIN F -> BOOLEAN], DOMAIN F \subseteq FlagsOf(w, k)
  PROVE  /\ WellFormedBlock([b EXCEPT !.flags = F], w, k)
         /\ [b EXCEPT !.flags = F].flags = F
<1> DEFINE p == [b EXCEPT !.flags = F]
<1>1. b \in BlocksWith({k}, [DOMAIN b.flags -> BOOLEAN])
  BY DEF WellFormedBlock
<1>2. p.flags = F
  BY <1>1 DEF BlocksWith
<1>3. p \in BlocksWith({k}, [DOMAIN F -> BOOLEAN])
  BY <1>1 DEF BlocksWith
<1> QED
  BY <1>2, <1>3 DEF WellFormedBlock

LEMMA NewPort ==
  ASSUME NEW b, NEW v, NEW k, WellFormedBlock(b, v, k), NEW w, NEW F,
         F \in [DOMAIN F -> BOOLEAN], DOMAIN F \subseteq FlagsOf(w, k),
         NEW n \in Nat \cup {None}
  PROVE  /\ WellFormedBlock([b EXCEPT !.port = n, !.flags = F], w, k)
         /\ [b EXCEPT !.port = n, !.flags = F].flags = F
<1> DEFINE p == [b EXCEPT !.port = n, !.flags = F]
<1>1. b \in BlocksWith({k}, [DOMAIN b.flags -> BOOLEAN])
  BY DEF WellFormedBlock
<1>2. p.flags = F
  BY <1>1 DEF BlocksWith
<1>3. p \in BlocksWith({k}, [DOMAIN F -> BOOLEAN])
  BY <1>1 DEF BlocksWith
<1> QED
  BY <1>2, <1>3 DEF WellFormedBlock

\* The same when the arguments are set anew, with the port or without.
LEMMA NewArgsAndPort ==
  ASSUME NEW b, NEW v, NEW k, WellFormedBlock(b, v, k), NEW w, NEW F,
         F \in [DOMAIN F -> BOOLEAN], DOMAIN F \subseteq FlagsOf(w, k),
         NEW n \in Nat \cup {None}, NEW a \in {None, "empty", "some"}
  PROVE  /\ WellFormedBlock([b EXCEPT !.args = a, !.port = n, !.flags = F], w, k)
         /\ [b EXCEPT !.args = a, !.port = n, !.flags = F].flags = F
<1> DEFINE p == [b EXCEPT !.args = a, !.port = n, !.flags = F]
<1>1. b \in BlocksWith({k}, [DOMAIN b.flags -> BOOLEAN])
  BY DEF WellFormedBlock
<1>2. p.flags = F
  BY <1>1 DEF BlocksWith
<1>3. p \in BlocksWith({k}, [DOMAIN F -> BOOLEAN])
  BY <1>1 DEF BlocksWith
<1> QED
  BY <1>2, <1>3 DEF WellFormedBlock

LEMMA NewArgs ==
  ASSUME NEW b, NEW v, NEW k, WellFormedBlock(b, v, k), NEW w, NEW F,
         F \in [DOMAIN F -> BOOLEAN], DOMAIN F \subseteq FlagsOf(w, k),
         NEW a \in {None, "empty", "some"}
  PROVE  /\ WellFormedBlock([b EXCEPT !.args = a, !.flags = F], w, k)
         /\ [b EXCEPT !.args = a, !.flags = F].flags = F
<1> DEFINE p == [b EXCEPT !.args = a, !.flags = F]
<1>1. b \in BlocksWith({k}, [DOMAIN b.flags -> BOOLEAN])
  BY DEF WellFormedBlock
<1>2. p.flags = F
  BY <1>1 DEF BlocksWith
<1>3. p \in BlocksWith({k}, [DOMAIN F -> BOOLEAN])
  BY <1>1 DEF BlocksWith
<1> QED
  BY <1>2, <1>3 DEF WellFormedBlock

LEMMA NewHints ==
  ASSUME NEW b, NEW v, NEW k, WellFormedBlock(b, v, k), NEW w, NEW F,
         F \in [DOMAIN F -> BOOLEAN], DOMAIN F \subseteq FlagsOf(w, k),
         NEW n \in SUBSET HintNames
  PROVE  /\ WellFormedBlock([b EXCEPT !.hints = n, !.flags = F], w, k)
         /\ [b EXCEPT !.hints = n, !.flags = F].flags = F
<1> DEFINE p == [b EXCEPT !.hints = n, !.flags = F]
<1>1. b \in BlocksWith({k}, [DOMAIN b.flags -> BOOLEAN])
  BY DEF WellFormedBlock
<1>2. p.flags = F
  BY <1>1 DEF BlocksWith
<1>3. p \in BlocksWith({k}, [DOMAIN F -> BOOLEAN])
  BY <1>1 DEF BlocksWith
<1> QED
  BY <1>2, <1>3 DEF WellFormedBlock

\* What a block of some format has.
LEMMA BlockFlags ==
  ASSUME NEW b, NEW v, NEW k, WellFormedBlock(b, v, k)
  PROVE  /\ b.flags \in [DOMAIN b.flags -> BOOLEAN] /\ DOMAIN b.flags \subseteq FlagsOf(v, k)
         /\ b.kind = k /\ b.port \in Nat \cup {None} /\ b.hints \in SUBSET HintNames
         /\ b.args \in {None, "empty", "some"}
         /\ DOMAIN b = Fields
BY DEF WellFormedBlock, BlocksWith, Fields

LEMMA WithFlags ==
  ASSUME NEW F, NEW G, F \in [DOMAIN F -> BOOLEAN], G \in [DOMAIN G -> BOOLEAN]
  PROVE  /\ DOMAIN With(F, G) = DOMAIN F \cup DOMAIN G
         /\ With(F, G) \in [DOMAIN With(F, G) -> BOOLEAN]
BY DEF With

\* Each step of the upgrade makes a block of one format a block of the next.
LEMMA LegacyBlock ==
  ASSUME NEW b, WellFormedBlock(b, "legacy", "hosted")
  PROVE  WellFormedBlock(FromLegacyBlock(b), "V1", "hosted")
<1>0. b.flags \in [DOMAIN b.flags -> BOOLEAN]
  BY BlockFlags
<1> DEFINE F == Kept(b.flags, DOMAIN b.flags \ {"capture_subdomains"})
           n == IF IsTrue(b, "https") THEN 0 ELSE None
<1>1. FromLegacyBlock(b) = [b EXCEPT !.port = n, !.flags = F]
  BY BlockFlags DEF FromLegacyBlock, Fields
<1>2. F \in [DOMAIN F -> BOOLEAN] /\ DOMAIN F \subseteq DOMAIN b.flags
  BY <1>0 DEF Kept, Restrict
<1>3. DOMAIN F \subseteq FlagsOf("V1", "hosted")
  BY <1>2, BlockFlags DEF FlagsOf, FlagsBeforeV3
<1>4. n \in Nat \cup {None}
  OBVIOUS
<1> HIDE DEF F, n
<1>5. WellFormedBlock([b EXCEPT !.port = n, !.flags = F], "V1", "hosted")
  BY <1>2, <1>3, <1>4, NewPort
<1> QED
  BY <1>1, <1>5

LEMMA V1Block ==
  ASSUME NEW b, NEW k \in {"hosted", "remote"}, WellFormedBlock(b, "V1", k)
  PROVE  WellFormedBlock(FromV1Block(b), "V2", k)
<1>0. b.flags \in [DOMAIN b.flags -> BOOLEAN]
  BY BlockFlags
<1> DEFINE K == Kept(b.flags, {"disable_tcp_tunnel_mode", "https", "capture_subdomains",
                               "forward_subdomains", "auto_start", "log_format",
                               "exclude_from_start_all"})
           F == With(K, NoCertificate)
           n == IF b.kind = "hosted" \/ b.port # None THEN b.port
                ELSE IF IsTrue(b, "https") THEN 443 ELSE 80
           a == IF b.args = "empty" THEN None ELSE b.args
<1>1. FromV1Block(b) = [b EXCEPT !.args = a, !.port = n, !.flags = F]
  BY BlockFlags DEF FromV1Block, Fields
<1>2. K \in [DOMAIN K -> BOOLEAN] /\ DOMAIN K \subseteq DOMAIN b.flags
  BY <1>0 DEF Kept, Restrict
<1>3. NoCertificate \in [DOMAIN NoCertificate -> BOOLEAN]
      /\ DOMAIN NoCertificate = {"enable_lets_encrypt"}
  BY DEF NoCertificate
<1> HIDE DEF K
<1>4. F \in [DOMAIN F -> BOOLEAN] /\ DOMAIN F = DOMAIN K \cup {"enable_lets_encrypt"}
  BY <1>2, <1>3, WithFlags
<1>5. DOMAIN b.flags \subseteq FlagsOf("V1", k)
  BY BlockFlags
<1>6. DOMAIN F \subseteq FlagsOf("V2", k)
  BY <1>2, <1>4, <1>5 DEF FlagsOf, FlagsBeforeV3
<1>7. n \in Nat \cup {None} /\ a \in {None, "empty", "some"}
  BY BlockFlags
<1> HIDE DEF F, n, a
<1>8. WellFormedBlock([b EXCEPT !.args = a, !.port = n, !.flags = F], "V2", k)
  BY <1>4, <1>6, <1>7, NewArgsAndPort
<1> QED
  BY <1>1, <1>8

LEMMA V2Block ==
  ASSUME NEW b, NEW k \in {"hosted", "remote"}, WellFormedBlock(b, "V2", k)
  PROVE  WellFormedBlock(FromV2Block(b), "V3", k)
<1>0. b.flags \in [DOMAIN b.flags -> BOOLEAN]
  BY BlockFlags
<1> DEFINE K == Kept(b.flags, {"https", "capture_subdomains", "forward_subdomains",
                               "auto_start", "log_format", "exclude_from_start_all"})
           G == With(K, NoCertificate)
           F == With(G, Terminated(b))
           n == IF b.hints \subseteq {"NOH2"} THEN {} ELSE (b.hints \ {"NOH2"}) \cup {"H1"}
<1>1. FromV2Block(b) = [b EXCEPT !.hints = n, !.flags = F]
  BY BlockFlags DEF FromV2Block, Fields
<1>2. /\ K \in [DOMAIN K -> BOOLEAN] /\ DOMAIN K \subseteq DOMAIN b.flags
      /\ DOMAIN K \subseteq {"https", "capture_subdomains", "forward_subdomains",
                            "auto_start", "log_format", "exclude_from_start_all"}
  BY <1>0 DEF Kept, Restrict
<1>3. NoCertificate \in [DOMAIN NoCertificate -> BOOLEAN]
      /\ DOMAIN NoCertificate = {"enable_lets_encrypt"}
  BY DEF NoCertificate
<1>4. /\ Terminated(b) \in [DOMAIN Terminated(b) -> BOOLEAN]
      /\ DOMAIN Terminated(b) \subseteq
           {"terminate_tls"} \cup (IF k = "remote" THEN {"terminate_http"} ELSE {})
  BY BlockFlags DEF Terminated
<1> HIDE DEF K
<1>5. G \in [DOMAIN G -> BOOLEAN] /\ DOMAIN G = DOMAIN K \cup {"enable_lets_encrypt"}
  BY <1>2, <1>3, WithFlags
<1> HIDE DEF G
<1>6. F \in [DOMAIN F -> BOOLEAN] /\ DOMAIN F = DOMAIN G \cup DOMAIN Terminated(b)
  BY <1>4, <1>5, WithFlags
<1>7. DOMAIN b.flags \subseteq FlagsOf("V2", k)
  BY BlockFlags
<1>8. DOMAIN K \subseteq FlagsOf("V3", k)
  BY <1>2, <1>7 DEF FlagsOf, FlagsOfV3, FlagsBeforeV3
<1>9. DOMAIN F \subseteq FlagsOf("V3", k)
  BY <1>4, <1>5, <1>6, <1>8 DEF FlagsOf, FlagsOfV3
<1>10. n \in SUBSET HintNames
  BY BlockFlags DEF HintNames
<1> HIDE DEF F, n
<1>11. WellFormedBlock([b EXCEPT !.hints = n, !.flags = F], "V3", k)
  BY <1>6, <1>9, <1>10, NewHints
<1> QED
  BY <1>1, <1>11

LEMMA PrintedFlags ==
  ASSUME NEW b, NEW k \in Kinds, WellFormedBlock(b, "V3", k)
  PROVE  /\ WellFormedBlock(PrintBlock(b), "V3", k)
         /\ PrintBlock(b).flags = [f \in {g \in DOMAIN b.flags : Survives(b, g)} |-> b.flags[f]]
<1> DEFINE F == Restrict(b.flags, {f \in DOMAIN b.flags : Survives(b, f)})
           a == PrintedArgs(b)
<1>0. a \in {None, "empty", "some"}
  BY BlockFlags DEF PrintedArgs
<1>1. PrintBlock(b) = [b EXCEPT !.args = a, !.flags = F]
  BY BlockFlags DEF PrintBlock, Fields
<1>2. F = [f \in {g \in DOMAIN b.flags : Survives(b, g)} |-> b.flags[f]]
  BY DEF Restrict
<1>3. F \in [DOMAIN F -> BOOLEAN] /\ DOMAIN F \subseteq FlagsOf("V3", k)
  BY <1>2, BlockFlags
<1> HIDE DEF F, a
<1>4. /\ WellFormedBlock([b EXCEPT !.args = a, !.flags = F], "V3", k)
      /\ [b EXCEPT !.args = a, !.flags = F].flags = F
  BY <1>0, <1>3, NewArgs
<1> QED
  BY <1>1, <1>2, <1>4

\* A list that is None stands for an empty one.
LEMMA ListItems ==
  ASSUME NEW l, NEW v, NEW k, WellFormedList(l, v, k)
  PROVE  /\ Items(l) \in Seq(Range(Items(l)))
         /\ Len(Items(l)) \in Nat /\ DOMAIN Items(l) = 1..Len(Items(l))
         /\ \A i \in DOMAIN Items(l) : WellFormedBlock(Items(l)[i], v, k)
<1>1. CASE l = None
  <2>1. Items(l) = <<>>
    BY <1>1 DEF Items
  <2> QED
    BY <2>1
<1>2. CASE l # None
  <2>1. Items(l) = l /\ l \in Seq(Range(l)) /\ \A b \in Range(l) : WellFormedBlock(b, v, k)
    BY <1>2 DEF Items, WellFormedList
  <2>2. \A i \in DOMAIN l : l[i] \in Range(l)
    BY DEF Range
  <2> QED
    BY <2>1, <2>2
<1> QED
  BY <1>1, <1>2

\* A sequence of blocks is a list of that kind.
LEMMA ItemsList ==
  ASSUME NEW m, NEW n \in Nat, DOMAIN m = 1..n, m = [i \in 1..n |-> m[i]], NEW v, NEW k,
         \A i \in 1..n : WellFormedBlock(m[i], v, k)
  PROVE  WellFormedList(m, v, k)
<1>1. \A i \in 1..n : m[i] \in Range(m)
  BY DEF Range
<1>2. m \in Seq(Range(m))
  BY <1>1
<1>3. \A b \in Range(m) : WellFormedBlock(b, v, k)
  BY DEF Range
<1> QED
  BY <1>2, <1>3 DEF WellFormedList

\* And each step makes a configuration of one format one of the next.
LEMMA LegacyWellFormed ==
  ASSUME NEW c, WellFormed(c, "legacy")
  PROVE  WellFormed(FromLegacy(c), "V1")
<1> DEFINE x == FromLegacy(c)
           m == Mapped(c.hosted, FromLegacyBlock)
<1>1. HasFields(x)
  BY DEF FromLegacy, WellFormed, HasFields
<1>2. x.hosted = m /\ x.remote = c.remote /\ x.dir = c.dir
  BY DEF FromLegacy, WellFormed, HasFields, Lists, Global
<1> HIDE DEF x
<1>3. \A k \in Lists : WellFormedList(c[k], "legacy", k)
  BY DEF WellFormed
<1>4. /\ Len(Items(c.hosted)) \in Nat /\ DOMAIN Items(c.hosted) = 1..Len(Items(c.hosted))
      /\ \A i \in DOMAIN Items(c.hosted) : WellFormedBlock(Items(c.hosted)[i], "legacy", "hosted")
  BY <1>3, ListItems DEF Lists
<1>5. m = [i \in 1..Len(Items(c.hosted)) |-> FromLegacyBlock(Items(c.hosted)[i])]
  BY <1>4 DEF Mapped
<1> HIDE DEF m
<1>6. WellFormedList(m, "V1", "hosted")
  <2>1. \A i \in 1..Len(Items(c.hosted)) : WellFormedBlock(m[i], "V1", "hosted")
    BY <1>4, <1>5, LegacyBlock
  <2> QED
    BY <1>4, <1>5, <2>1, ItemsList
<1>7. FlagsOf("legacy", "remote") = FlagsOf("V1", "remote")
      /\ FlagsOf("legacy", "dir") = FlagsOf("V1", "dir")
  BY DEF FlagsOf, FlagsBeforeV3
<1>8. WellFormedList(c.remote, "V1", "remote") /\ WellFormedList(c.dir, "V1", "dir")
  BY <1>3, <1>7 DEF WellFormedList, WellFormedBlock, Lists
<1> QED
  BY <1>1, <1>2, <1>6, <1>8 DEF WellFormed, Lists, x

\* The two later steps map both lists and drop the directories.
LEMMA MappedWellFormed ==
  ASSUME NEW c, NEW x, NEW v, NEW w, WellFormed(c, v), HasFields(x),
         NEW s, NEW t, x.hosted = s, x.remote = t, x.dir = None,
         s = [i \in DOMAIN Items(c.hosted) |-> s[i]],
         t = [i \in DOMAIN Items(c.remote) |-> t[i]],
         \A i \in DOMAIN s : WellFormedBlock(Items(c.hosted)[i], v, "hosted") =>
                               WellFormedBlock(s[i], w, "hosted"),
         \A i \in DOMAIN t : WellFormedBlock(Items(c.remote)[i], v, "remote") =>
                               WellFormedBlock(t[i], w, "remote")
  PROVE  WellFormed(x, w)
<1>1. \A k \in Lists : WellFormedList(c[k], v, k)
  BY DEF WellFormed
<1>2. WellFormedList(s, w, "hosted")
  <2>1. /\ Len(Items(c.hosted)) \in Nat /\ DOMAIN Items(c.hosted) = 1..Len(Items(c.hosted))
        /\ \A i \in DOMAIN Items(c.hosted) : WellFormedBlock(Items(c.hosted)[i], v, "hosted")
    BY <1>1, ListItems DEF Lists
  <2>2. \A i \in 1..Len(Items(c.hosted)) : WellFormedBlock(s[i], w, "hosted")
    BY <2>1
  <2> QED
    BY <2>1, <2>2, ItemsList
<1>3. WellFormedList(t, w, "remote")
  <2>1. /\ Len(Items(c.remote)) \in Nat /\ DOMAIN Items(c.remote) = 1..Len(Items(c.remote))
        /\ \A i \in DOMAIN Items(c.remote) : WellFormedBlock(Items(c.remote)[i], v, "remote")
    BY <1>1, ListItems DEF Lists
  <2>2. \A i \in 1..Len(Items(c.remote)) : WellFormedBlock(t[i], w, "remote")
    BY <2>1
  <2> QED
    BY <2>1, <2>2, ItemsList
<1>4. WellFormedList(x.dir, w, "dir")
  BY DEF WellFormedList
<1> QED
  BY <1>2, <1>3, <1>4 DEF WellFormed, Lists

LEMMA V1WellFormed ==
  ASSUME NEW c, WellFormed(c, "V1")
  PROVE  WellFormed(FromV1(c), "V2")
<1> DEFINE x == FromV1(c)
           s == Mapped(c.hosted, FromV1Block)
           t == Mapped(c.remote, FromV1Block)
<1>1. HasFields(x)
  BY DEF FromV1, WellFormed, HasFields
<1>2. x.hosted = s /\ x.remote = t /\ x.dir = None
  BY DEF FromV1, WellFormed, HasFields, Lists, Global
<1>3. /\ s = [i \in DOMAIN Items(c.hosted) |-> FromV1Block(Items(c.hosted)[i])]
      /\ t = [i \in DOMAIN Items(c.remote) |-> FromV1Block(Items(c.remote)[i])]
  BY DEF Mapped
<1> HIDE DEF x, s, t
<1>4. /\ \A i \in DOMAIN s : WellFormedBlock(Items(c.hosted)[i], "V1", "hosted") =>
                               WellFormedBlock(s[i], "V2", "hosted")
      /\ \A i \in DOMAIN t : WellFormedBlock(Items(c.remote)[i], "V1", "remote") =>
                               WellFormedBlock(t[i], "V2", "remote")
  BY <1>3, V1Block
<1> QED
  BY <1>1, <1>2, <1>3, <1>4, MappedWellFormed DEF x

LEMMA V2WellFormed ==
  ASSUME NEW c, WellFormed(c, "V2")
  PROVE  WellFormed(FromV2(c), "V3")
<1> DEFINE x == FromV2(c)
           s == Mapped(c.hosted, FromV2Block)
           t == Mapped(c.remote, FromV2Block)
<1>1. HasFields(x)
  BY DEF FromV2, WellFormed, HasFields
<1>2. x.hosted = s /\ x.remote = t /\ x.dir = None
  BY DEF FromV2, WellFormed, HasFields, Lists, Global
<1>3. /\ s = [i \in DOMAIN Items(c.hosted) |-> FromV2Block(Items(c.hosted)[i])]
      /\ t = [i \in DOMAIN Items(c.remote) |-> FromV2Block(Items(c.remote)[i])]
  BY DEF Mapped
<1> HIDE DEF x, s, t
<1>4. /\ \A i \in DOMAIN s : WellFormedBlock(Items(c.hosted)[i], "V2", "hosted") =>
                               WellFormedBlock(s[i], "V3", "hosted")
      /\ \A i \in DOMAIN t : WellFormedBlock(Items(c.remote)[i], "V2", "remote") =>
                               WellFormedBlock(t[i], "V3", "remote")
  BY <1>3, V2Block
<1> QED
  BY <1>1, <1>2, <1>3, <1>4, MappedWellFormed DEF x

\* So that whatever the file is, what is made of it is of today's format.
LEMMA UpgradeWellFormed ==
  ASSUME NEW f, f.ver \in Versions, WellFormed(f.conf, f.ver)
  PROVE  WellFormed(Upgrade(f), "V3")
BY LegacyWellFormed, V1WellFormed, V2WellFormed DEF Upgrade, Versions

\* The two ways to say what a block of today's format is.
LEMMA BlockOfV3 ==
  ASSUME NEW b, NEW k, WellFormedBlock(b, "V3", k)
  PROVE  b \in BlocksOfV3(k)
<1>1. DOMAIN b.flags \in SUBSET FlagsOfV3(k)
  BY DEF WellFormedBlock, FlagsOf
<1>2. b \in BlocksWith({k}, [DOMAIN b.flags -> BOOLEAN])
  BY DEF WellFormedBlock
<1>3. b.flags \in [DOMAIN b.flags -> BOOLEAN]
  BY <1>2, BlockFlags
<1> DEFINE FS == UNION {[F -> BOOLEAN] : F \in SUBSET FlagsOfV3(k)}
<1>4. b.flags \in FS
  BY <1>1, <1>3
<1> HIDE DEF FS
<1>5. b \in BlocksWith({k}, FS)
  BY <1>2, <1>4 DEF BlocksWith
<1> QED
  BY <1>5 DEF BlocksOfV3, FS

\* A list of blocks is not None.
LEMMA ListIsSome ==
  ASSUME NEW m, NEW n \in Nat, NEW k \in Kinds, m = [i \in 1..n |-> m[i]],
         \A i \in 1..n : WellFormedBlock(m[i], "V3", k)
  PROVE  m # None /\ Items(m) = m /\ Len(m) = n /\ DOMAIN m = 1..n
         /\ WellFormedList(m, "V3", k)
<1>1. \A i \in 1..n : m[i] \in BlocksOfV3(k)
  BY BlockOfV3
<1>2. m \in Seq(BlocksOfV3(k)) /\ Len(m) = n /\ DOMAIN m = 1..n
  BY <1>1
<1>3. m # None
  BY <1>2, UpdateAssumption
<1> QED
  BY <1>2, <1>3, ItemsList DEF Items

\* A printed list has its blocks in their places.
LEMMA PrintedList ==
  ASSUME NEW l, NEW k \in Kinds, WellFormedList(l, "V3", k)
  PROVE  /\ WellFormedList(PrintList(l), "V3", k)
         /\ Len(Items(PrintList(l))) = Len(Items(l))
         /\ \A i \in 1..Len(Items(l)) : Items(PrintList(l))[i] = PrintBlock(Items(l)[i])
<1>1. /\ Items(l) \in Seq(Range(Items(l))) /\ Len(Items(l)) \in Nat
      /\ DOMAIN Items(l) = 1..Len(Items(l))
      /\ \A i \in DOMAIN Items(l) : WellFormedBlock(Items(l)[i], "V3", k)
  BY ListItems
<1>2. CASE Items(l) = <<>>
  <2>1. PrintList(l) = None
    BY <1>2 DEF PrintList
  <2> QED
    BY <1>2, <2>1 DEF Items, WellFormedList
<1>3. CASE Items(l) # <<>>
  <2> DEFINE m == PrintList(l)
  <2>1. Items(l) = l
    BY <1>3 DEF Items
  <2>2. m = [i \in 1..Len(l) |-> PrintBlock(l[i])]
    BY <1>1, <1>3, <2>1 DEF PrintList
  <2> HIDE DEF m
  <2>3. \A i \in 1..Len(l) : WellFormedBlock(m[i], "V3", k)
    BY <1>1, <2>1, <2>2, PrintedFlags
  <2>4. Items(m) = m /\ Len(m) = Len(l) /\ WellFormedList(m, "V3", k)
    BY <1>1, <2>1, <2>2, <2>3, ListIsSome, SMTT(30)
  <2> QED
    BY <2>1, <2>2, <2>4 DEF m
<1> QED
  BY <1>2, <1>3

LEMMA ListsAreKinds == Lists = Kinds
BY DEF Lists, Kinds

\* What is printed, and what a pass reads of it.
LEMMA PrintedConfig ==
  ASSUME NEW c, WellFormed(c, "V3")
  PROVE  /\ WellFormed(PrintConfig(c), "V3")
         /\ \A k \in Lists : PrintConfig(c)[k] = PrintList(c[k])
         /\ \A g \in Global \ {"loopback"} :
              PrintConfig(c)[g] = c[g] \/ (g \in {"root_dir", "ip", "auto_start"} /\ c[g] = None)
<1> DEFINE p == PrintConfig(c)
<1>1. HasFields(p)
  BY DEF PrintConfig, WellFormed, HasFields
<1>2. /\ p.hosted = PrintList(c.hosted) /\ p.remote = PrintList(c.remote)
      /\ p.dir = PrintList(c.dir)
  BY DEF PrintConfig, WellFormed, HasFields, Lists, Global
<1>3. \A g \in Global \ {"loopback", "root_dir", "ip", "auto_start"} : p[g] = c[g]
  BY DEF PrintConfig, WellFormed, HasFields, Lists, Global
<1>4. \A g \in {"root_dir", "ip", "auto_start"} : c[g] # None => p[g] = c[g]
  BY DEF PrintConfig, WellFormed, HasFields, Lists, Global
<1> HIDE DEF p
<1>5. \A k \in Lists : p[k] = PrintList(c[k])
  BY <1>2 DEF Lists
<1>6. \A k \in Lists : WellFormedList(p[k], "V3", k)
  BY <1>5, PrintedList, ListsAreKinds DEF WellFormed
<1> QED
  BY <1>1, <1>3, <1>4, <1>5, <1>6 DEF WellFormed, p

LEMMA ReloadedConfig ==
  ASSUME NEW f, f.ver \in Versions, WellFormed(f.conf, f.ver)
  PROVE  /\ WellFormed(Reloaded(f), "V3")
         /\ \A k \in Lists : Items(Reloaded(f)[k]) = Items(Upgrade(f)[k])
         /\ \A g \in Global : Reloaded(f)[g] = Upgrade(f)[g]
<1> DEFINE u == Upgrade(f)
           r == Reloaded(f)
<1>1. WellFormed(u, "V3")
  BY UpgradeWellFormed
<1>2. /\ r.hosted = Items(u.hosted) /\ HasFields(r)
      /\ \A k \in (Lists \cup Global) \ {"hosted"} : r[k] = u[k]
  BY <1>1 DEF Reloaded, WellFormed, HasFields, Lists
<1> HIDE DEF u, r
<1>3. WellFormedList(r.hosted, "V3", "hosted") /\ Items(r.hosted) = Items(u.hosted)
  <2>1. /\ Items(u.hosted) \in Seq(Range(Items(u.hosted))) /\ Len(Items(u.hosted)) \in Nat
        /\ DOMAIN Items(u.hosted) = 1..Len(Items(u.hosted))
        /\ \A i \in DOMAIN Items(u.hosted) : WellFormedBlock(Items(u.hosted)[i], "V3", "hosted")
    BY <1>1, ListItems DEF WellFormed, Lists
  <2>2. r.hosted = [i \in 1..Len(Items(u.hosted)) |-> r.hosted[i]]
    BY <1>2, <2>1
  <2> QED
    BY <1>2, <2>1, <2>2, ListIsSome DEF Kinds
<1>4. \A k \in Lists \ {"hosted"} : WellFormedList(r[k], "V3", k) /\ Items(r[k]) = Items(u[k])
  BY <1>1, <1>2 DEF WellFormed
<1>5. \A k \in Lists : WellFormedList(r[k], "V3", k) /\ Items(r[k]) = Items(u[k])
  BY <1>3, <1>4
<1>6. \A g \in Global : r[g] = u[g]
  BY <1>2 DEF Global
<1> QED
  BY <1>2, <1>5, <1>6 DEF WellFormed, u, r

\* What is left of a list without some names.
LEMMA OthersWellFormed ==
  ASSUME NEW l, NEW k \in Kinds, WellFormedList(l, "V3", k), NEW H
  PROVE  /\ Others(l, H) \in Seq(Range(Items(l)))
         /\ WellFormedList(Others(l, H), "V3", k) /\ Items(Others(l, H)) = Others(l, H)
         /\ \A j \in DOMAIN Others(l, H) :
              /\ WellFormedBlock(Others(l, H)[j], "V3", k)
              /\ Others(l, H)[j].host \notin H
<1> DEFINE s == Items(l)
           o == Others(l, H)
<1>1. /\ s \in Seq(Range(s)) /\ Len(s) \in Nat /\ DOMAIN s = 1..Len(s)
      /\ \A i \in DOMAIN s : WellFormedBlock(s[i], "V3", k)
  BY ListItems
<1>2. o = Retained(s, H)[Len(s)] /\ Len(s) \in 0..Len(s)
  BY <1>1 DEF Others
<1> HIDE DEF s, o
<1>3. /\ o \in Seq(Range(s))
      /\ \A j \in DOMAIN o : o[j].host \notin H /\ \E i \in 1..Len(s) : o[j] = s[i]
  BY <1>1, <1>2, RetainedIs
<1>4. \A j \in DOMAIN o : WellFormedBlock(o[j], "V3", k)
  BY <1>1, <1>3
<1>5. Len(o) \in Nat /\ DOMAIN o = 1..Len(o) /\ o = [j \in 1..Len(o) |-> o[j]]
  BY <1>3
<1>6. WellFormedList(o, "V3", k) /\ Items(o) = o
  BY <1>4, <1>5, ListIsSome
<1> QED
  BY <1>3, <1>4, <1>6 DEF s, o

\* The block that is asked for comes last.
LEMMA ReplacedWellFormed ==
  ASSUME NEW l, NEW r \in Updates, WellFormedList(l, "V3", r.block.kind)
  PROVE  LET o == Others(l, {r.host, r.block.host})
             m == Replaced(l, r)
         IN  /\ WellFormedList(m, "V3", r.block.kind) /\ Items(m) = m
             /\ m = Append(o, r.block) /\ Len(o) \in Nat /\ Len(m) = Len(o) + 1
             /\ m[Len(m)] = r.block
             /\ \A j \in 1..Len(o) : m[j] = o[j] /\ o[j].host \notin {r.host, r.block.host}
<1> DEFINE k == r.block.kind
           o == Others(l, {r.host, r.block.host})
           m == Replaced(l, r)
<1>1. k \in Kinds /\ WellFormedBlock(r.block, "V3", k)
  BY UpdateAssumption DEF WellAsked
<1>2. /\ o \in Seq(Range(Items(l)))
      /\ \A j \in DOMAIN o : WellFormedBlock(o[j], "V3", k) /\ o[j].host \notin {r.host, r.block.host}
  BY <1>1, OthersWellFormed
<1>3. m = Append(o, r.block)
  BY DEF Replaced
<1> HIDE DEF o, m, k
<1>4. o \in Seq(Range(Items(l)) \cup {r.block}) /\ Len(o) \in Nat /\ DOMAIN o = 1..Len(o)
  BY <1>2
<1>5. /\ m \in Seq(Range(Items(l)) \cup {r.block}) /\ Len(m) = Len(o) + 1
      /\ \A j \in 1..Len(o) : m[j] = o[j]
      /\ m[Len(o) + 1] = r.block
  BY <1>3, <1>4, AppendProperties
<1>6. \A j \in 1..Len(m) : WellFormedBlock(m[j], "V3", k)
  <2> SUFFICES ASSUME NEW j \in 1..Len(m) PROVE WellFormedBlock(m[j], "V3", k)
    OBVIOUS
  <2>1. j \in 1..Len(o) \/ j = Len(o) + 1
    BY <1>4, <1>5
  <2> QED
    BY <1>1, <1>2, <1>4, <1>5, <2>1
<1>7. Len(m) \in Nat /\ m = [j \in 1..Len(m) |-> m[j]]
  BY <1>5
<1>8. WellFormedList(m, "V3", k) /\ Items(m) = m
  BY <1>1, <1>6, <1>7, ListIsSome
<1>9. \A j \in 1..Len(o) : o[j].host \notin {r.host, r.block.host}
  BY <1>2, <1>4
<1>10. m[Len(m)] = r.block
  BY <1>5
<1> QED
  BY <1>3, <1>4, <1>5, <1>8, <1>9, <1>10 DEF o, m, k

\* The three kinds of requests are different things.
LEMMA RequestsDiffer ==
  /\ Updates \cap Deletes = {} /\ Updates \cap Settings = {} /\ Deletes \cap Settings = {}
BY UpdateAssumption DEF WellAsked, Global

LEMMA ChangedConfig ==
  ASSUME NEW r \in Requests, NEW c, WellFormed(c, "V3")
  PROVE  LET d == Changed(r, c)
         IN  /\ WellFormed(d, "V3")
             /\ \A k \in Lists :
                  d[k] = CASE r \in Updates -> IF k = r.block.kind THEN Replaced(c[k], r) ELSE c[k]
                           [] r \in Deletes -> Removed(c[k], r.host)
                           [] OTHER         -> c[k]
             /\ \A g \in Global :
                  d[g] = IF r \in Settings /\ g \in DOMAIN r THEN r[g] ELSE c[g]
<1> DEFINE d == Changed(r, c)
<1>1. Lists \cup Global \subseteq DOMAIN c /\ Lists \cap Global = {}
  BY DEF WellFormed, HasFields, Lists, Global
<1>2. CASE r \in Updates
  <2>0. r \notin Deletes /\ r \notin Settings
    BY <1>2, RequestsDiffer
  <2>1. d = [c EXCEPT ![r.block.kind] = Replaced(c[r.block.kind], r)]
    BY <1>2, <2>0 DEF Changed
  <2>2. r.block.kind \in Lists
    BY <1>2, UpdateAssumption, ListsAreKinds DEF WellAsked
  <2>3. /\ DOMAIN d = DOMAIN c
        /\ \A k \in DOMAIN c : d[k] = IF k = r.block.kind THEN Replaced(c[k], r) ELSE c[k]
    BY <1>1, <2>1, <2>2
  <2> HIDE DEF d
  <2>4. \A k \in Lists : WellFormedList(d[k], "V3", k)
    <3> SUFFICES ASSUME NEW k \in Lists PROVE WellFormedList(d[k], "V3", k)
      OBVIOUS
    <3>1. WellFormedList(c[k], "V3", k) /\ k \in DOMAIN c
      BY <1>1 DEF WellFormed
    <3>2. CASE k = r.block.kind
      <4>1. WellFormedList(Replaced(c[k], r), "V3", k)
        BY <1>2, <3>1, <3>2, ReplacedWellFormed
      <4> QED
        BY <2>3, <3>1, <3>2, <4>1
    <3>3. CASE k # r.block.kind
      BY <2>3, <3>1, <3>3
    <3> QED
      BY <3>2, <3>3
  <2>5. WellFormed(d, "V3")
    BY <1>1, <2>3, <2>4 DEF WellFormed, HasFields
  <2>6. \A k \in Lists : d[k] = IF k = r.block.kind THEN Replaced(c[k], r) ELSE c[k]
    BY <1>1, <2>3
  <2>7. \A g \in Global : d[g] = c[g]
    BY <1>1, <2>2, <2>3
  <2> QED
    BY <1>2, <2>0, <2>5, <2>6, <2>7 DEF d
<1>3. CASE r \in Deletes
  <2>0. r \notin Updates /\ r \notin Settings
    BY <1>3, RequestsDiffer
  <2>1. d = [k \in DOMAIN c |-> IF k \in Lists THEN Removed(c[k], r.host) ELSE c[k]]
    BY <1>3, <2>0 DEF Changed
  <2>2. /\ DOMAIN d = DOMAIN c
        /\ \A k \in Lists : d[k] = Removed(c[k], r.host)
        /\ \A g \in Global : d[g] = c[g]
    BY <1>1, <2>1
  <2> HIDE DEF d
  <2>3. \A k \in Lists : WellFormedList(d[k], "V3", k)
    <3> SUFFICES ASSUME NEW k \in Lists PROVE WellFormedList(d[k], "V3", k)
      OBVIOUS
    <3>1. WellFormedList(c[k], "V3", k) /\ k \in Kinds
      BY ListsAreKinds DEF WellFormed
    <3>2. WellFormedList(Others(c[k], {r.host}), "V3", k)
      BY <3>1, OthersWellFormed
    <3> QED
      BY <2>2, <3>2 DEF Removed, WellFormedList
  <2>4. WellFormed(d, "V3")
    BY <1>1, <2>2, <2>3 DEF WellFormed, HasFields
  <2> QED
    BY <1>3, <2>0, <2>2, <2>4 DEF d
<1>4. CASE r \in Settings
  <2>0. r \notin Updates /\ r \notin Deletes /\ DOMAIN r \subseteq Global
    BY <1>4, RequestsDiffer, UpdateAssumption DEF WellAsked
  <2>1. d = [k \in DOMAIN c |-> IF k \in DOMAIN r THEN r[k] ELSE c[k]]
    BY <2>0 DEF Changed
  <2>2. /\ DOMAIN d = DOMAIN c
        /\ \A k \in Lists : d[k] = c[k]
        /\ \A g \in Global : d[g] = IF g \in DOMAIN r THEN r[g] ELSE c[g]
    BY <1>1, <2>0, <2>1
  <2> HIDE DEF d
  <2>3. WellFormed(d, "V3")
    BY <1>1, <2>2 DEF WellFormed, HasFields
  <2> QED
    BY <1>4, <2>0, <2>2, <2>3 DEF d
<1> QED
  BY <1>2, <1>3, <1>4 DEF Requests

-----------------------------------------------------------------------------
(***************************************************************************)
(* What a request changes, and what it leaves alone.                       *)
(***************************************************************************)
\* Every flag of today's format is printed as it is, printed if TRUE, or lost.
LEMMA FlagsArePrintedOrLost ==
  \A k \in Kinds : FlagsOfV3(k) \subseteq PrintedAsIs(k) \cup PrintedIfTrue(k) \cup Lost(k)
BY DEF Kinds, FlagsOfV3, PrintedAsIs, PrintedIfTrue, Lost

\* A printed block is the block but for what is never printed.
LEMMA PrintedAlike ==
  ASSUME NEW b, NEW k \in Kinds, WellFormedBlock(b, "V3", k)
  PROVE  Alike(b, PrintBlock(b)) /\ Alike(PrintBlock(b), b) /\ PrintBlock(b).host = b.host
<1> DEFINE p == PrintBlock(b)
<1>0. /\ p.kind = b.kind /\ p.host = b.host /\ p.port = b.port
      /\ p.hints = b.hints /\ p.ownPort = b.ownPort /\ p.body = b.body
  BY BlockFlags DEF PrintBlock, Fields
<1>1. p.args = b.args \/ (p.args \in NoArgs /\ b.args \in NoArgs)
  <2>1. p.args = PrintedArgs(b)
    BY BlockFlags DEF PrintBlock, Fields
  <2> QED
    BY <2>1 DEF PrintedArgs, NoArgs
<1>2. p.flags = [f \in {g \in DOMAIN b.flags : Survives(b, g)} |-> b.flags[f]]
  BY PrintedFlags
<1>3. /\ b.kind = k /\ b.flags \in [DOMAIN b.flags -> BOOLEAN]
      /\ DOMAIN b.flags \subseteq FlagsOfV3(k)
  BY BlockFlags DEF FlagsOf
<1> HIDE DEF p
<1>4. ASSUME NEW f \in (DOMAIN b.flags \cup DOMAIN p.flags) \ Lost(k)
      PROVE  IsTrue(p, f) = IsTrue(b, f)
  <2>1. f \in DOMAIN b.flags /\ b.flags[f] \in BOOLEAN
    BY <1>2, <1>3
  <2>2. f \in PrintedAsIs(k) \/ f \in PrintedIfTrue(k)
    BY <1>3, <2>1, FlagsArePrintedOrLost
  <2>3. CASE Survives(b, f)
    <3>1. f \in DOMAIN p.flags /\ p.flags[f] = b.flags[f]
      BY <1>2, <2>1, <2>3
    <3> QED
      BY <2>1, <3>1 DEF IsTrue
  <2>4. CASE ~Survives(b, f)
    <3>1. f \notin DOMAIN p.flags
      BY <1>2, <2>4
    <3>2. b.flags[f] = FALSE
      BY <1>3, <2>1, <2>2, <2>4 DEF Survives
    <3> QED
      BY <3>1, <3>2 DEF IsTrue
  <2> QED
    BY <2>3, <2>4
<1> QED
  BY <1>0, <1>1, <1>3, <1>4 DEF Alike, p

\* Lists that agree block for block have others that do.
LEMMA OthersAlike ==
  ASSUME NEW k \in Kinds, NEW l, NEW m, WellFormedList(l, "V3", k), WellFormedList(m, "V3", k),
         Len(Items(l)) = Len(Items(m)),
         \A i \in 1..Len(Items(l)) : Alike(Items(l)[i], Items(m)[i]), NEW H
  PROVE  AlikeItems(Others(l, H), Others(m, H))
<1> DEFINE s == Items(l)
           t == Items(m)
           T == Range(s) \cup Range(t)
<1>1. s \in Seq(Range(s)) /\ t \in Seq(Range(t)) /\ Len(s) \in Nat
  BY ListItems
<1> HIDE DEF s, t
<1>2. s \in Seq(T) /\ t \in Seq(T) /\ Len(s) \in 0..Len(s)
  BY <1>1
<1>3. Len(s) = Len(t) /\ \A i \in 1..Len(s) : Alike(s[i], t[i])
  BY DEF s, t
<1> HIDE DEF T
<1>4. /\ Retained(s, H)[Len(s)] \in Seq(T) /\ Retained(t, H)[Len(s)] \in Seq(T)
      /\ Len(Retained(s, H)[Len(s)]) = Len(Retained(t, H)[Len(s)])
      /\ \A j \in 1..Len(Retained(s, H)[Len(s)]) :
           Alike(Retained(s, H)[Len(s)][j], Retained(t, H)[Len(s)][j])
  BY <1>2, <1>3, RetainedAlike
<1>5. Others(l, H) = Retained(s, H)[Len(s)] /\ Others(m, H) = Retained(t, H)[Len(s)]
  BY <1>3 DEF Others, s, t
<1>6. DOMAIN Others(l, H) = 1..Len(Others(l, H))
  BY <1>4, <1>5
<1> QED
  BY <1>4, <1>5, <1>6 DEF AlikeItems

\* What is printed of a list that has lost some names, and got one block of
\* these names at most, has the same others as the list.
LEMMA OthersStay ==
  ASSUME NEW k \in Kinds, NEW m, WellFormedList(m, "V3", k), NEW H, NEW n \in Nat,
         Len(Items(m)) \in {n, n + 1},
         \A j \in 1..n : Items(m)[j].host \notin H,
         Len(Items(m)) = n + 1 => Items(m)[n + 1].host \in H
  PROVE  LET o == Others(PrintList(m), H)
         IN  /\ Len(o) = n /\ DOMAIN o = 1..n
             /\ \A j \in 1..n : o[j] = PrintBlock(Items(m)[j])
<1> DEFINE p == Items(PrintList(m))
           s == Items(m)
           o == Others(PrintList(m), H)
<1>1. /\ p \in Seq(Range(p)) /\ Len(p) = Len(s) /\ Len(p) \in Nat
      /\ \A j \in 1..Len(s) : p[j] = PrintBlock(s[j])
  BY PrintedList, ListItems
<1>2. \A j \in 1..Len(s) : WellFormedBlock(s[j], "V3", k)
  BY ListItems
<1>3. o = Retained(p, H)[Len(p)]
  BY DEF Others
<1> HIDE DEF p, s, o
<1>4. \A j \in 1..Len(s) : p[j].host = s[j].host
  BY <1>1, <1>2, PrintedAlike
<1>5. /\ Len(s) \in {n, n + 1} /\ \A j \in 1..n : s[j].host \notin H
      /\ Len(s) = n + 1 => s[n + 1].host \in H
  BY DEF s
<1>6. n \in 0..Len(p) /\ \A j \in 1..n : j \in 1..Len(s)
  BY <1>1, <1>5
<1>7. \A j \in 1..n : p[j].host \notin H
  BY <1>4, <1>5, <1>6
<1>8. /\ Retained(p, H)[n] \in Seq(Range(p)) /\ Len(Retained(p, H)[n]) = n
      /\ \A j \in 1..n : Retained(p, H)[n][j] = p[j]
  BY <1>1, <1>6, <1>7, RetainedAll
<1>9. o = Retained(p, H)[n]
  <2>1. CASE Len(p) = n
    BY <1>3, <2>1
  <2>2. CASE Len(p) = n + 1
    <3>1. n + 1 \in 1..Len(p) /\ (n + 1) - 1 = n
      BY <2>2
    <3>2. p[n + 1].host \in H
      BY <1>1, <1>4, <1>5, <2>2, <3>1
    <3>3. Retained(p, H)[n + 1] = Retained(p, H)[(n + 1) - 1]
      BY <1>1, <3>1, <3>2, RetainedDef
    <3> QED
      BY <1>3, <2>2, <3>1, <3>3
  <2> QED
    BY <1>1, <1>5, <2>1, <2>2
<1>10. Len(o) = n /\ DOMAIN o = 1..n
  BY <1>8, <1>9
<1>11. \A j \in 1..n : o[j] = PrintBlock(s[j])
  BY <1>1, <1>6, <1>8, <1>9
<1> QED
  BY <1>10, <1>11 DEF o, s

LEMMA RemovedItems ==
  ASSUME NEW l, NEW k \in Kinds, WellFormedList(l, "V3", k), NEW host
  PROVE  WellFormedList(Removed(l, host), "V3", k) /\ Items(Removed(l, host)) = Others(l, {host})
<1>1. CASE l = None
  <2>1. Items(l) = <<>>
    BY <1>1 DEF Items
  <2>2. Others(l, {host}) = <<>>
    BY <2>1, RetainedDef DEF Others
  <2> QED
    BY <1>1, <2>1, <2>2 DEF Removed, WellFormedList
<1>2. CASE l # None
  BY <1>2, OthersWellFormed DEF Removed
<1> QED
  BY <1>1, <1>2

LEMMA PrintedAlikeItems ==
  ASSUME NEW k \in Kinds, NEW l, WellFormedList(l, "V3", k), NEW H
  PROVE  AlikeItems(Others(l, H), Others(PrintList(l), H))
<1>1. /\ WellFormedList(PrintList(l), "V3", k) /\ Len(Items(PrintList(l))) = Len(Items(l))
      /\ \A i \in 1..Len(Items(l)) : Items(PrintList(l))[i] = PrintBlock(Items(l)[i])
  BY PrintedList
<1>2. \A i \in 1..Len(Items(l)) : WellFormedBlock(Items(l)[i], "V3", k)
  BY ListItems
<1>3. \A i \in 1..Len(Items(l)) : Alike(Items(l)[i], Items(PrintList(l))[i])
  BY <1>1, <1>2, PrintedAlike
<1> QED
  BY <1>1, <1>3, OthersAlike

\* A request leaves the blocks of other sites, and the other settings.
LEMMA RequestUntouches ==
  ASSUME NEW r \in Requests, NEW c, WellFormed(c, "V3")
  PROVE  Untouched(r, c, PrintConfig(Changed(r, c)))
<1> DEFINE d == Changed(r, c)
           p == PrintConfig(d)
<1>1. /\ WellFormed(d, "V3")
      /\ r \in Updates => \A k \in Lists :
           d[k] = IF k = r.block.kind THEN Replaced(c[k], r) ELSE c[k]
      /\ r \in Deletes => \A k \in Lists : d[k] = Removed(c[k], r.host)
      /\ r \in Settings => \A k \in Lists : d[k] = c[k]
      /\ \A g \in Global : d[g] = IF r \in Settings /\ g \in DOMAIN r THEN r[g] ELSE c[g]
  BY ChangedConfig, RequestsDiffer
<1>2. /\ \A k \in Lists : p[k] = PrintList(d[k])
      /\ \A g \in Global \ {"loopback"} :
           p[g] = d[g] \/ (g \in {"root_dir", "ip", "auto_start"} /\ d[g] = None)
  BY <1>1, PrintedConfig
<1> HIDE DEF d, p
<1>3. \A g \in Global \ {"loopback"} :
        c[g] = p[g] \/ (r \in Settings /\ g \in DOMAIN r)
                    \/ (g \in {"root_dir", "ip", "auto_start"} /\ c[g] = None)
  BY <1>1, <1>2
<1>4. ASSUME NEW k \in Lists, NEW H,
             r \in Updates /\ k = r.block.kind => H = {r.host, r.block.host},
             r \in Deletes => H = {r.host}
      PROVE  AlikeItems(Others(c[k], H), Others(p[k], H))
  <2>1. k \in Kinds /\ WellFormedList(c[k], "V3", k)
    BY ListsAreKinds DEF WellFormed
  <2>2. /\ Len(Others(c[k], H)) \in Nat
        /\ DOMAIN Others(c[k], H) = 1..Len(Others(c[k], H))
        /\ \A j \in DOMAIN Others(c[k], H) :
             WellFormedBlock(Others(c[k], H)[j], "V3", k) /\ Others(c[k], H)[j].host \notin H
    BY <2>1, OthersWellFormed
  <2>3. ASSUME NEW n \in Nat, n = Len(Others(c[k], H)), Len(Others(p[k], H)) = n,
               \A j \in 1..n : Others(p[k], H)[j] = PrintBlock(Others(c[k], H)[j])
        PROVE  AlikeItems(Others(c[k], H), Others(p[k], H))
    BY <2>1, <2>2, <2>3, PrintedAlike DEF AlikeItems
  <2>4. CASE r \in Updates /\ k = r.block.kind
    <3> DEFINE o == Others(c[k], H)
               m == Replaced(c[k], r)
    <3>1. d[k] = m /\ p[k] = PrintList(m) /\ H = {r.host, r.block.host}
      BY <1>1, <1>2, <1>4, <2>4
    <3>2. /\ WellFormedList(m, "V3", k) /\ Items(m) = m /\ Len(m) = Len(o) + 1
          /\ m[Len(m)] = r.block /\ \A j \in 1..Len(o) : m[j] = o[j] /\ o[j].host \notin H
      <4>1. WellFormedList(c[k], "V3", r.block.kind)
        BY <2>1, <2>4
      <4> DEFINE O == Others(c[k], {r.host, r.block.host})
      <4>2. /\ WellFormedList(m, "V3", r.block.kind) /\ Items(m) = m /\ Len(m) = Len(O) + 1
            /\ m[Len(m)] = r.block
            /\ \A j \in 1..Len(O) : m[j] = O[j] /\ O[j].host \notin {r.host, r.block.host}
        BY <2>4, <4>1, ReplacedWellFormed, SMTT(30)
      <4>3. O = o
        BY <3>1
      <4> HIDE DEF O, o, m
      <4> QED
        BY <2>4, <3>1, <4>2, <4>3
    <3> HIDE DEF o, m
    <3>3. r.block.host \in H
      BY <3>1
    <3>4. /\ Len(Others(PrintList(m), H)) = Len(o)
          /\ \A j \in 1..Len(o) : Others(PrintList(m), H)[j] = PrintBlock(m[j])
      BY <2>1, <2>2, <3>2, <3>3, OthersStay DEF o
    <3> QED
      BY <2>2, <2>3, <3>1, <3>2, <3>4, ZenonT(60) DEF o
  <2>5. CASE r \in Deletes
    <3> DEFINE o == Others(c[k], H)
               m == Removed(c[k], r.host)
    <3>1. d[k] = m /\ p[k] = PrintList(m) /\ H = {r.host}
      BY <1>1, <1>2, <1>4, <2>5
    <3>2. WellFormedList(m, "V3", k) /\ Items(m) = o
      BY <2>1, <3>1, RemovedItems
    <3> HIDE DEF m
    <3>3. /\ Len(Others(PrintList(m), H)) = Len(o)
          /\ \A j \in 1..Len(o) : Others(PrintList(m), H)[j] = PrintBlock(o[j])
      BY <2>1, <2>2, <3>2, OthersStay
    <3> QED
      BY <2>2, <2>3, <3>1, <3>3
  <2>6. CASE ~(r \in Updates /\ k = r.block.kind) /\ r \notin Deletes
    <3>1. p[k] = PrintList(c[k])
      BY <1>1, <1>2, <2>6 DEF Requests
    <3> QED
      BY <2>1, <3>1, PrintedAlikeItems
  <2> QED
    BY <2>4, <2>5, <2>6
<1>5. CASE r \in Updates
  <2>1. r \notin Deletes
    BY <1>5, RequestsDiffer
  <2> QED
    BY <1>3, <1>4, <1>5, <2>1 DEF Untouched, d, p
<1>6. CASE r \in Deletes
  <2>1. r \notin Updates
    BY <1>6, RequestsDiffer
  <2> QED
    BY <1>3, <1>4, <1>6, <2>1 DEF Untouched, d, p
<1>7. CASE r \in Settings
  <2>1. r \notin Updates /\ r \notin Deletes
    BY <1>7, RequestsDiffer
  <2> QED
    BY <1>3, <1>4, <1>7, <2>1 DEF Untouched, d, p
<1> QED
  BY <1>5, <1>6, <1>7 DEF Requests

\* What was asked for stands in what is printed, and in whatever has the same
\* blocks and settings.
LEMMA RequestGranted ==
  ASSUME NEW r \in Requests, NEW c, WellFormed(c, "V3"), NEW a,
         \A k \in Lists : Items(a[k]) = Items(PrintConfig(Changed(r, c))[k]),
         \A g \in Global : a[g] = PrintConfig(Changed(r, c))[g]
  PROVE  Granted(r, a)
<1> DEFINE d == Changed(r, c)
           p == PrintConfig(d)
<1>1. /\ WellFormed(d, "V3")
      /\ r \in Updates => \A k \in Lists :
           d[k] = IF k = r.block.kind THEN Replaced(c[k], r) ELSE c[k]
      /\ r \in Deletes => \A k \in Lists : d[k] = Removed(c[k], r.host)
      /\ \A g \in Global : d[g] = IF r \in Settings /\ g \in DOMAIN r THEN r[g] ELSE c[g]
  BY ChangedConfig, RequestsDiffer
<1>2. /\ \A k \in Lists : p[k] = PrintList(d[k])
      /\ \A g \in Global \ {"loopback"} :
           p[g] = d[g] \/ (g \in {"root_dir", "ip", "auto_start"} /\ d[g] = None)
  BY <1>1, PrintedConfig
<1> HIDE DEF d
<1>3. \A k \in Lists : Items(a[k]) = Items(p[k])
  BY DEF d
<1>4. \A g \in Global : a[g] = p[g]
  BY DEF d
<1> HIDE DEF p
<1>5. \A k \in Lists : k \in Kinds /\ WellFormedList(c[k], "V3", k) /\ WellFormedList(d[k], "V3", k)
  BY <1>1, ListsAreKinds DEF WellFormed
<1>6. ASSUME NEW k \in Lists
      PROVE  /\ DOMAIN Items(a[k]) = 1..Len(Items(d[k]))
             /\ \A i \in 1..Len(Items(d[k])) :
                  /\ Items(a[k])[i] = PrintBlock(Items(d[k])[i])
                  /\ WellFormedBlock(Items(d[k])[i], "V3", k)
                  /\ Items(a[k])[i].host = Items(d[k])[i].host
  <2>1. /\ Len(Items(p[k])) = Len(Items(d[k])) /\ DOMAIN Items(p[k]) = 1..Len(Items(p[k]))
        /\ \A i \in 1..Len(Items(d[k])) : Items(p[k])[i] = PrintBlock(Items(d[k])[i])
    <3>1. k \in Kinds /\ WellFormedList(d[k], "V3", k)
      BY <1>5
    <3>2. /\ WellFormedList(PrintList(d[k]), "V3", k)
          /\ Len(Items(PrintList(d[k]))) = Len(Items(d[k]))
          /\ \A i \in 1..Len(Items(d[k])) : Items(PrintList(d[k]))[i] = PrintBlock(Items(d[k])[i])
      BY <3>1, PrintedList
    <3>3. p[k] = PrintList(d[k])
      BY <1>2
    <3>4. DOMAIN Items(p[k]) = 1..Len(Items(p[k]))
      BY <3>2, <3>3, ListItems
    <3> QED
      BY <3>2, <3>3, <3>4
  <2>2. \A i \in 1..Len(Items(d[k])) : WellFormedBlock(Items(d[k])[i], "V3", k)
    BY <1>5, ListItems
  <2> QED
    BY <1>3, <1>5, <2>1, <2>2, PrintedAlike
<1>7. CASE r \in Updates
  <2> DEFINE k == r.block.kind
             o == Others(c[k], {r.host, r.block.host})
             m == Replaced(c[k], r)
  <2>1. k \in Lists /\ WellFormedBlock(r.block, "V3", k)
    BY <1>7, UpdateAssumption, ListsAreKinds DEF WellAsked
  <2>2. /\ WellFormedList(m, "V3", k) /\ Items(m) = m /\ Len(o) \in Nat /\ Len(m) = Len(o) + 1
        /\ m[Len(m)] = r.block
        /\ \A j \in 1..Len(o) : m[j] = o[j] /\ o[j].host \notin {r.host, r.block.host}
    BY <1>5, <1>7, <2>1, ReplacedWellFormed, ZenonT(60)
  <2>3. d[k] = m
    BY <1>1, <1>7, <2>1
  <2> HIDE DEF k, o, m
  <2>4. Items(a[k])[Len(m)] = PrintBlock(r.block) /\ Len(m) \in DOMAIN Items(a[k])
    BY <1>6, <2>1, <2>2, <2>3
  <2>5. PrintBlock(r.block) \in Blocks(a) /\ Alike(PrintBlock(r.block), r.block)
    <3>1. Alike(PrintBlock(r.block), r.block)
      BY <1>5, <2>1, PrintedAlike
    <3> QED
      BY <2>1, <2>4, <3>1 DEF Blocks, Range
  <2>6. ASSUME r.host \in HostsOf(a, k) PROVE r.host = r.block.host
    <3>1. PICK i \in DOMAIN Items(a[k]) : Items(a[k])[i].host = r.host
      BY <2>6 DEF HostsOf, Range
    <3>2. i \in 1..Len(m) /\ m[i].host = r.host
      BY <1>6, <2>1, <2>2, <2>3, <3>1
    <3>3. i \notin 1..Len(o)
      BY <2>2, <3>2
    <3> QED
      BY <2>2, <3>2, <3>3
  <2> QED
    BY <1>7, <2>5, <2>6, RequestsDiffer DEF Granted, k
<1>8. CASE r \in Deletes
  <2>1. r \notin Updates
    BY <1>8, RequestsDiffer
  <2>2. ASSUME NEW b \in Blocks(a), b.host = r.host PROVE FALSE
    <3>1. PICK k \in Lists : b \in Range(Items(a[k]))
      BY DEF Blocks
    <3>2. PICK i \in DOMAIN Items(a[k]) : b = Items(a[k])[i]
      BY <3>1 DEF Range
    <3>3. d[k] = Removed(c[k], r.host)
      BY <1>1, <1>8
    <3>4. Items(d[k]) = Others(c[k], {r.host})
      BY <1>5, <3>3, RemovedItems
    <3>5. \A j \in DOMAIN Others(c[k], {r.host}) : Others(c[k], {r.host})[j].host \notin {r.host}
      BY <1>5, OthersWellFormed
    <3>6. i \in DOMAIN Items(d[k]) /\ Items(d[k])[i].host = r.host
      BY <1>5, <1>6, <2>2, <3>2, ListItems
    <3> QED
      BY <3>4, <3>5, <3>6
  <2> QED
    BY <1>8, <2>1, <2>2 DEF Granted, Hosts
<1>9. CASE r \in Settings
  <2>1. r \notin Updates /\ r \notin Deletes
    BY <1>9, RequestsDiffer
  <2>2. DOMAIN r \subseteq Global \ {"loopback"}
    BY <1>9, UpdateAssumption DEF WellAsked
  <2>3. \A g \in DOMAIN r : a[g] = r[g] \/ r[g] = None
    BY <1>1, <1>2, <1>4, <1>9, <2>2
  <2> QED
    BY <2>1, <2>3 DEF Granted
<1> QED
  BY <1>7, <1>8, <1>9 DEF Requests

-----------------------------------------------------------------------------
(***************************************************************************)
(* What becomes active is valid, whatever anybody writes.                  *)
(***************************************************************************)
\* EXCEPT only sets a field that is there, and what is printed of a block
\* depends on its flags: every configuration is made of well-formed blocks.
AllWellFormed ==
  /\ file # Torn => file.ver \in Versions /\ WellFormed(file.conf, file.ver)
  /\ boot # "down" => WellFormed(config, "V3")
  /\ pass \in {"await", "swap"} => WellFormed(next, "V3")
  /\ \A h \in Handlers : Busy(h) => req[h] \in Requests /\ WellFormed(base[h], "V3")

ValidInv == ActiveIsValid /\ AllWellFormed

LEMMA BlocksAreWellFormed ==
  ASSUME NEW c, NEW v, WellFormed(c, v), NEW b \in Blocks(c)
  PROVE  b.kind \in Kinds /\ DOMAIN b = Fields
<1>1. PICK k \in Lists : b \in Range(Items(c[k]))
  BY DEF Blocks
<1>2. PICK i \in DOMAIN Items(c[k]) : b = Items(c[k])[i]
  BY <1>1 DEF Range
<1>3. WellFormedBlock(b, v, k)
  BY <1>2, ListItems DEF WellFormed
<1> QED
  BY <1>3, BlockFlags, ListsAreKinds

LEMMA ReloadedIsValid ==
  ASSUME NEW f, HasFields(Upgrade(f))
  PROVE  HasFields(Reloaded(f)) /\ (Valid(Upgrade(f)) => Valid(Reloaded(f)))
<1> DEFINE u == Upgrade(f)
           r == Reloaded(f)
<1>1. DOMAIN r = DOMAIN u
  BY DEF Reloaded
<1>2. r.hosted = Items(u.hosted) /\ \A k \in DOMAIN u \ {"hosted"} : r[k] = u[k]
  BY DEF Reloaded, HasFields, Lists
<1> HIDE DEF u, r
<1>3. \A k \in Lists : Items(r[k]) = Items(u[k]) /\ k \in DOMAIN u
  <2>1. Lists \subseteq DOMAIN u
    BY DEF HasFields, u
  <2>2. Items(r.hosted) = Items(u.hosted)
    BY <1>2 DEF Items
  <2> QED
    BY <1>2, <2>1, <2>2 DEF Lists
<1>4. Places(r) = Places(u)
  BY <1>3 DEF Places
<1>5. Blocks(r) = Blocks(u)
  BY <1>3 DEF Blocks
<1>6. \A p \in Places(u) : At(r, p) = At(u, p)
  <2> SUFFICES ASSUME NEW p \in Places(u) PROVE At(r, p) = At(u, p)
    OBVIOUS
  <2>1. PICK k \in Lists : p \in {k} \X DOMAIN Items(u[k])
    BY DEF Places
  <2>2. p[1] = k /\ p[2] \in DOMAIN Items(u[k])
    BY <2>1
  <2>3. CASE k = "hosted" /\ u.hosted = None
    BY <2>2, <2>3 DEF Items
  <2>4. CASE k = "hosted" /\ u.hosted # None
    BY <2>2, <2>4, <1>2 DEF Items, At
  <2>5. CASE k # "hosted"
    BY <2>2, <2>5, <1>2, <1>3 DEF At
  <2> QED
    BY <2>3, <2>4, <2>5
<1>7. r.portVar = u.portVar
  BY <1>2 DEF HasFields, u, Global
<1>8. Valid(u) => Valid(r)
  BY <1>4, <1>5, <1>6, <1>7 DEF Valid
<1> QED
  BY <1>1, <1>8 DEF HasFields, u, r

(* Old files, and what is printed. *)

LEMMA PrintedBlock ==
  ASSUME NEW b, DOMAIN b = Fields
  PROVE  LET p == PrintBlock(b)
         IN  /\ p.kind = b.kind /\ p.host = b.host /\ p.port = b.port /\ p.ownPort = b.ownPort
             /\ b.kind \in {"hosted", "remote"} =>
                  /\ \A f \in {"enable_lets_encrypt", "capture_subdomains"} :
                       IsTrue(p, f) => IsTrue(b, f)
                  /\ IsTrue(b, "terminate_tls") => IsTrue(p, "terminate_tls")
<1> DEFINE p == PrintBlock(b)
<1>1. p.kind = b.kind /\ p.host = b.host /\ p.port = b.port /\ p.ownPort = b.ownPort
  BY DEF PrintBlock, Fields
<1>2. p.flags = [f \in {g \in DOMAIN b.flags : Survives(b, g)} |-> b.flags[f]]
  BY DEF PrintBlock, Restrict, Fields
<1>3. \A f : IsTrue(p, f) => IsTrue(b, f)
  BY <1>2 DEF IsTrue
<1>4. ASSUME b.kind \in {"hosted", "remote"}, IsTrue(b, "terminate_tls")
      PROVE  IsTrue(p, "terminate_tls")
  <2>1. Survives(b, "terminate_tls")
    BY <1>4 DEF Survives, PrintedIfTrue, IsTrue
  <2> QED
    BY <2>1, <1>2, <1>4 DEF IsTrue
<1> QED
  BY <1>1, <1>3, <1>4

\* A valid configuration stays valid on its way through the file.
LEMMA PrintKeepsValid ==
  ASSUME NEW c, WellFormed(c, "V3"), Valid(c)
  PROVE  Valid(PrintConfig(c))
<1> DEFINE p == PrintConfig(c)
<1>1. p.hosted = PrintList(c.hosted) /\ p.remote = PrintList(c.remote)
      /\ p.dir = PrintList(c.dir) /\ p.portVar = c.portVar
  BY DEF PrintConfig, WellFormed, HasFields, Lists, Global
<1> HIDE DEF p
<1>a. \A b \in Blocks(c) : b.kind \in Kinds /\ DOMAIN b = Fields
  BY BlocksAreWellFormed
<1>2. ASSUME NEW k \in Lists, NEW i \in DOMAIN Items(p[k])
      PROVE  /\ i \in DOMAIN Items(c[k]) /\ Items(c[k]) = c[k] /\ Items(p[k]) = p[k]
             /\ p[k][i] = PrintBlock(c[k][i])
  <2>1. p[k] = PrintList(c[k])
    BY <1>1 DEF Lists
  <2>2. p[k] # None /\ Items(p[k]) = p[k]
    BY DEF Items
  <2>3. Items(c[k]) # <<>>
    BY <2>1, <2>2 DEF PrintList
  <2>4. Items(c[k]) = c[k] /\ p[k] = [j \in DOMAIN c[k] |-> PrintBlock(c[k][j])]
    BY <2>1, <2>3 DEF PrintList, Items
  <2> QED
    BY <2>2, <2>4
<1>3. ASSUME NEW q \in Places(p)
      PROVE  /\ q \in Places(c) /\ At(c, q) \in Blocks(c)
             /\ At(p, q) = PrintBlock(At(c, q))
  <2>1. PICK k \in Lists : q \in {k} \X DOMAIN Items(p[k])
    BY DEF Places
  <2>2. q = <<k, q[2]>> /\ q[1] = k /\ q[2] \in DOMAIN Items(p[k])
    BY <2>1
  <2>3. q[2] \in DOMAIN Items(c[k]) /\ Items(c[k]) = c[k] /\ p[k][q[2]] = PrintBlock(c[k][q[2]])
    BY <2>2, <1>2
  <2>4. q \in Places(c)
    BY <2>2, <2>3 DEF Places
  <2>5. At(c, q) \in Blocks(c)
    BY <2>2, <2>3 DEF At, Blocks, Range
  <2> QED
    BY <2>2, <2>3, <2>4, <2>5 DEF At
<1>4. \A b \in Blocks(p) : \E a \in Blocks(c) : b = PrintBlock(a)
  <2> SUFFICES ASSUME NEW b \in Blocks(p) PROVE \E a \in Blocks(c) : b = PrintBlock(a)
    OBVIOUS
  <2>1. PICK k \in Lists : b \in Range(Items(p[k]))
    BY DEF Blocks
  <2>2. PICK i \in DOMAIN Items(p[k]) : b = Items(p[k])[i]
    BY <2>1 DEF Range
  <2>3. c[k][i] \in Blocks(c) /\ b = PrintBlock(c[k][i])
    BY <2>2, <1>2 DEF Blocks, Range
  <2> QED
    BY <2>3
<1>5. ~p.portVar
  BY <1>1 DEF Valid
<1>6. \A q, r \in Places(p) : q # r =>
        /\ At(p, q).host # At(p, r).host
        /\ q[1] = "hosted" /\ r[1] = "hosted" /\ At(p, q).port # None
             => At(p, q).port # At(p, r).port
  <2> SUFFICES ASSUME NEW q \in Places(p), NEW r \in Places(p), q # r
               PROVE  /\ At(p, q).host # At(p, r).host
                      /\ q[1] = "hosted" /\ r[1] = "hosted" /\ At(p, q).port # None
                           => At(p, q).port # At(p, r).port
    OBVIOUS
  <2>1. /\ At(p, q).host = At(c, q).host /\ At(p, q).port = At(c, q).port
        /\ At(p, r).host = At(c, r).host /\ At(p, r).port = At(c, r).port
    BY <1>3, <1>a, PrintedBlock
  <2> QED
    BY <2>1, <1>3 DEF Valid
<1>7. ASSUME NEW b \in Blocks(p), b.kind # "dir", IsTrue(b, "enable_lets_encrypt")
      PROVE  IsTrue(b, "terminate_tls") /\ ~IsTrue(b, "capture_subdomains")
  <2>1. PICK a \in Blocks(c) : b = PrintBlock(a)
    BY <1>4
  <2>2. a.kind \in {"hosted", "remote"} /\ IsTrue(a, "enable_lets_encrypt")
    BY <2>1, <1>7, <1>a, PrintedBlock DEF Kinds
  <2>3. IsTrue(a, "terminate_tls") /\ ~IsTrue(a, "capture_subdomains")
    BY <2>2 DEF Valid
  <2> QED
    BY <2>1, <2>2, <2>3, <1>a, PrintedBlock
<1>8. ASSUME NEW b \in Blocks(p), b.kind = "hosted", b.port # None, b.ownPort # None
      PROVE  b.ownPort = b.port
  <2>1. PICK a \in Blocks(c) : b = PrintBlock(a)
    BY <1>4
  <2>2. a.kind = "hosted" /\ a.port = b.port /\ a.ownPort = b.ownPort
    BY <2>1, <1>8, <1>a, PrintedBlock
  <2> QED
    BY <2>2, <1>8 DEF Valid
<1> QED
  BY <1>5, <1>6, <1>7, <1>8 DEF Valid, p

LEMMA WrittenIsV3 == \A c : Written(c).ver = "V3" /\ Upgrade(Written(c)) = PrintConfig(c)
BY DEF Written, Upgrade

\* What is written is a file of today's format.
LEMMA WrittenWellFormed ==
  ASSUME NEW c, WellFormed(c, "V3")
  PROVE  Written(c).ver \in Versions /\ WellFormed(Written(c).conf, Written(c).ver)
BY PrintedConfig DEF Written, Versions

LEMMA InitValid == Init => ValidInv
BY UpdateAssumption DEF Init, ValidInv, ActiveIsValid, AllWellFormed, Busy, Files

LEMMA NextValid == UpdateInv /\ ValidInv /\ [Next]_vars => ValidInv'
<1> SUFFICES ASSUME UpdateInv, ValidInv, [Next]_vars PROVE ValidInv'
  OBVIOUS
<1> USE DEF ValidInv, ActiveIsValid, AllWellFormed, Busy
<1>0. Shapes
  BY DEF UpdateInv
<1>1. ASSUME NEW h \in Handlers, Request(h) PROVE ValidInv'
  <2>1. PICK r \in MayAsk[h] : Copy(h, r)
    BY <1>1 DEF Request, AnswerAtOnce, Receive
  <2>2. UNCHANGED <<file, config, boot, pass, next>> /\ WellFormed(config, "V3")
    BY <1>1, <2>1 DEF Request, AnswerAtOnce, Receive, Copy
  <2>3. /\ base'[h] = config /\ req'[h] = r /\ r \in Requests
        /\ \A g \in Handlers \ {h} : base'[g] = base[g] /\ req'[g] = req[g]
    BY <1>0, <2>1, UpdateAssumption DEF Copy, Shapes
  <2>4. \A g \in Handlers \ {h} : pc'[g] = pc[g]
    BY <1>0, <1>1 DEF Request, AnswerAtOnce, Receive, Finish, Shapes
  <2> QED
    BY <2>2, <2>3, <2>4
<1>2. ASSUME NEW h \in Handlers, Handle(h) PROVE ValidInv'
  <2>1. UNCHANGED <<config, boot, pass, next, base, req>>
    BY <1>2 DEF Handle, Empty, Fill, WriteFails, Confirm, Timeout, Finish
  <2>2. \A g \in Handlers : Busy(g)' => Busy(g)
    BY <1>0, <1>2 DEF Handle, Empty, Fill, WriteFails, Confirm, Timeout, Finish, Shapes
  <2>3. \/ file' = Torn \/ file' = file
        \/ pc[h] = "fill" /\ file' = Written(Changed(req[h], base[h]))
    BY <1>2 DEF Handle, Empty, Fill, WriteFails, Confirm, Timeout, Modify, Draft
  <2>4. pc[h] = "fill" => WellFormed(Changed(req[h], base[h]), "V3")
    BY ChangedConfig
  <2>5. file' # Torn => file'.ver \in Versions /\ WellFormed(file'.conf, file'.ver)
    BY <2>3, <2>4, WrittenWellFormed
  <2> QED
    BY <2>1, <2>2, <2>5
<1>3. CASE Plan
  <2>1. Usable(file) /\ next' = Reloaded(file)
    BY <1>3 DEF Plan, Worthwhile
  <2>2. WellFormed(Upgrade(file), "V3") /\ Valid(Upgrade(file))
    BY <2>1, UpgradeWellFormed DEF Usable
  <2>3. WellFormed(next', "V3")
    BY <2>1, ReloadedConfig DEF Usable
  <2>4. Valid(next')
    BY <2>1, <2>2, ReloadedIsValid DEF WellFormed
  <2> QED
    BY <1>3, <2>3, <2>4 DEF Plan
<1>4. CASE TakeEvent \/ NothingToDo \/ Abandon \/ Reconcile \/ Swap
  BY <1>4 DEF TakeEvent, NothingToDo, Abandon, Reconcile, Swap
<1>5. CASE Docker \/ ContainersChange
  BY <1>5 DEF Docker, Discover, Store, ContainersChange
<1>6. CASE Load
  <2>1. Usable(file) /\ config' = Upgrade(file)
    BY <1>6 DEF Load
  <2>2. WellFormed(config', "V3") /\ Valid(config')
    BY <2>1, UpgradeWellFormed DEF Usable
  <2> QED
    BY <1>6, <2>2 DEF Load
<1>7. CASE Upgrading
  <2>1. Written(config).ver \in Versions /\ WellFormed(Written(config).conf, Written(config).ver)
    BY <1>7, WrittenWellFormed DEF Upgrading, EmptyOld, FillOld
  <2> QED
    BY <1>7, <2>1 DEF Upgrading, EmptyOld, FillOld, Modify
<1>8. CASE EditFile
  BY <1>8, UpdateAssumption DEF EditFile, Modify, Files
<1>9. CASE Crash
  BY <1>0, <1>9 DEF Crash, Shapes
<1>10. CASE UNCHANGED vars
  BY <1>10
<1> QED
  BY <1>1, <1>2, <1>3, <1>4, <1>5, <1>6, <1>7, <1>8, <1>9, <1>10 DEF Next, Monitor

LEMMA ValidAlways == Spec => []ValidInv
BY InitValid, NextValid, UpdateInvariant, PTL DEF Spec

\* No request, edit, crash or torn write ever makes a configuration active that
\* is_valid refuses (reload.rs 40, main.rs 496).
THEOREM ActiveConfigIsValid == Spec => []ActiveIsValid
<1>1. ValidInv => ActiveIsValid
  BY DEF ValidInv
<1> QED
  BY <1>1, ValidAlways, PTL

-----------------------------------------------------------------------------
(***************************************************************************)
(* Who has spoilt the file.                                                *)
(***************************************************************************)
Counted == spent \in [{"edits", "faults", "crashes", "containers"} -> Nat]

\* What an upgrade is about to write; no pass runs before it is over.
OldIsLoaded ==
  /\ pass # "idle" => boot = "up"
  /\ file = Torn \/ file \in Files \/ file.ver = "V3"
  /\ boot \in {"copied", "emptied"} => \E f \in Files : config = Upgrade(f) /\ Usable(f)

MixedHasCause ==
  \A h \in Handlers : pc[h] = "fill" /\ mixed[h] =>
    /\ ~alone[h]
    /\ spent["edits"] > 0 \/ \E g \in Handlers \ {h} : pc[g] # "new"

\* A pass, or a newer version, has found the file of a handler usable.
MineIsUsable ==
  \A h \in Handlers : alone[h] /\ pc[h] = "wait" =>
    (pass \in {"await", "swap"} \/ version > seen[h] => Usable(file))

BlameInv == Counted /\ OldIsLoaded /\ MixedHasCause /\ MineIsUsable /\ UnusableIsBlamed

LEMMA SpendCounted ==
  ASSUME Counted, NEW what \in {"edits", "faults", "crashes", "containers"}, Spend(what)
  PROVE  /\ Counted'
         /\ spent'[what] > 0
         /\ \A w \in {"edits", "faults", "crashes", "containers"} : spent'[w] >= spent[w]
<1>1. spent' = [spent EXCEPT ![what] = @ + 1]
  BY DEF Spend
<1> QED
  BY <1>1 DEF Counted

LEMMA InitBlame == Init => BlameInv
<1> SUFFICES ASSUME Init PROVE BlameInv
  OBVIOUS
<1>1. DOMAIN Limit = {"edits", "faults", "crashes", "containers"}
  BY DEF Limit
<1>2. Counted
  BY <1>1 DEF Init, Counted
<1> QED
  BY <1>2 DEF Init, BlameInv, OldIsLoaded, MixedHasCause, MineIsUsable, UnusableIsBlamed, Files

LEMMA NextCounted ==
  ASSUME Counted, [Next]_vars
  PROVE  /\ Counted'
         /\ \A w \in {"edits", "faults", "crashes", "containers"} : spent'[w] >= spent[w]
<1>1. UNCHANGED spent \/ \E w \in {"edits", "faults", "crashes", "containers"} : Spend(w)
  BY DEF Next, Request, AnswerAtOnce, Receive, Handle, Empty, Fill, WriteFails, Confirm,
    Timeout, Monitor, TakeEvent, NothingToDo, Plan, Abandon, Reconcile, Swap, Docker,
    Discover, Store, Load, Upgrading, EmptyOld, FillOld, EditFile, ContainersChange, Crash
<1> QED
  BY <1>1, SpendCounted DEF Counted

LEMMA NextOldIsLoaded == BlameInv /\ [Next]_vars => OldIsLoaded'
<1> SUFFICES ASSUME BlameInv, [Next]_vars PROVE OldIsLoaded'
  OBVIOUS
<1> USE DEF BlameInv, OldIsLoaded
<1>1. ASSUME NEW h \in Handlers, Request(h) \/ Handle(h) PROVE OldIsLoaded'
  BY <1>1, WrittenIsV3 DEF Request, AnswerAtOnce, Receive, Handle, Empty, Fill, WriteFails,
    Confirm, Timeout, Modify
<1>2. CASE Monitor
  BY <1>2, WrittenIsV3 DEF Monitor, TakeEvent, NothingToDo, Plan, Abandon, Reconcile, Swap
<1>3. CASE Docker \/ ContainersChange
  BY <1>3 DEF Docker, Discover, Store, ContainersChange
<1>4. CASE Load
  BY <1>4 DEF Load, Usable
<1>5. CASE Upgrading
  BY <1>5, WrittenIsV3 DEF Upgrading, EmptyOld, FillOld, Modify
<1>6. CASE EditFile
  BY <1>6 DEF EditFile, Modify, Files
<1>7. CASE Crash
  BY <1>7 DEF Crash
<1>8. CASE UNCHANGED vars
  BY <1>8
<1> QED
  BY <1>1, <1>2, <1>3, <1>4, <1>5, <1>6, <1>7, <1>8 DEF Next

\* A handler never becomes new again.
LEMMA NewIsFirst ==
  ASSUME Shapes, [Next]_vars, NEW h \in Handlers
  PROVE  pc[h] # "new" => pc'[h] # "new"
BY DEF Shapes, Next, Request, AnswerAtOnce, Receive, Handle, Empty, Fill, WriteFails, Confirm,
    Timeout, Finish, Monitor, TakeEvent, NothingToDo, Plan, Abandon, Reconcile, Swap, Docker,
    Discover, Store, Load, Upgrading, EmptyOld, FillOld, EditFile, ContainersChange, Crash

\* Once it has copied, nobody makes it alone again.
LEMMA AloneIsLost ==
  ASSUME Shapes, [Next]_vars, NEW h \in Handlers, pc[h] # "new", ~alone[h]
  PROVE  ~alone'[h]
<1>1. ASSUME NEW g \in Handlers, Request(g) PROVE ~alone'[h]
  BY <1>1 DEF Request, AnswerAtOnce, Receive, Copy, Shapes
<1>2. ASSUME NEW g \in Handlers, Handle(g) PROVE ~alone'[h]
  BY <1>2, DisturbShapes DEF Handle, Empty, Fill, WriteFails, Confirm, Timeout
<1>3. CASE Monitor \/ Docker \/ Load \/ Upgrading \/ ContainersChange \/ Crash
  BY <1>3 DEF Monitor, TakeEvent, NothingToDo, Plan, Abandon, Reconcile, Swap, Docker,
    Discover, Store, Load, Upgrading, EmptyOld, FillOld, ContainersChange, Crash
<1>4. CASE EditFile
  BY <1>4 DEF EditFile
<1> QED
  BY <1>1, <1>2, <1>3, <1>4 DEF Next

LEMMA NextMixed == UpdateInv /\ BlameInv /\ [Next]_vars => MixedHasCause'
<1> SUFFICES ASSUME UpdateInv, BlameInv, [Next]_vars,
                    NEW h \in Handlers, pc'[h] = "fill", mixed'[h]
             PROVE  /\ ~alone'[h]
                    /\ spent'["edits"] > 0 \/ \E g \in Handlers \ {h} : pc'[g] # "new"
  BY DEF MixedHasCause
<1>1. Shapes /\ Counted /\ Counted'
  BY NextCounted DEF UpdateInv, BlameInv
<1>2. CASE pc[h] = "fill" /\ mixed[h]
  <2>1. ~alone[h] /\ (spent["edits"] > 0 \/ \E g \in Handlers \ {h} : pc[g] # "new")
    BY <1>2 DEF BlameInv, MixedHasCause
  <2>2. spent["edits"] > 0 => spent'["edits"] > 0
    BY <1>1, NextCounted DEF Counted
  <2> QED
    BY <1>1, <1>2, <2>1, <2>2, NewIsFirst, AloneIsLost
<1>3. ASSUME NEW g \in Handlers, Fill(g), ~(pc[h] = "fill" /\ mixed[h])
      PROVE  ~alone'[h] /\ g # h /\ pc'[g] # "new"
  <2>1. g # h
    BY <1>3 DEF Fill
  <2>2. alone'[h] = (h = g /\ alone[h])
    BY <1>3, Zenon DEF Fill, Disturb
  <2>3. pc'[g] # "new"
    BY <1>1, <1>3 DEF Fill, Finish, Shapes
  <2> QED
    BY <2>1, <2>2, <2>3
<1>4. CASE EditFile
  <2>1. Spend("edits") /\ ~alone'[h]
    BY <1>4 DEF EditFile
  <2> QED
    BY <2>1, <1>1, SpendCounted
<1>5. CASE /\ ~(pc[h] = "fill" /\ mixed[h])
           /\ ~EditFile /\ \A g \in Handlers : ~Fill(g)
  <2>1. ASSUME NEW g \in Handlers, Request(g) PROVE FALSE
    BY <1>1, <1>5, <2>1 DEF Request, AnswerAtOnce, Receive, Copy, Finish, Shapes
  <2>2. ASSUME NEW g \in Handlers, Empty(g) PROVE FALSE
    BY <2>2 DEF Empty
  <2>3. ASSUME NEW g \in Handlers, WriteFails(g) \/ Confirm(g) \/ Timeout(g) PROVE FALSE
    BY <1>1, <1>5, <2>3 DEF WriteFails, Confirm, Timeout, Finish, Shapes
  <2>4. UNCHANGED handlerVars \/ Crash
    BY <1>5, <2>1, <2>2, <2>3 DEF Next, Handle, Monitor, TakeEvent, NothingToDo, Plan, Abandon,
      Reconcile, Swap, Docker, Discover, Store, Load, Upgrading, EmptyOld, FillOld,
      ContainersChange
  <2> QED
    BY <1>5, <2>4 DEF Crash
<1> QED
  BY <1>2, <1>3, <1>4, <1>5

LEMMA NextMine == UpdateInv /\ BlameInv /\ [Next]_vars => MineIsUsable'
<1> SUFFICES ASSUME UpdateInv, BlameInv, [Next]_vars,
                    NEW h \in Handlers, alone'[h], pc'[h] = "wait",
                    pass' \in {"await", "swap"} \/ version' > seen'[h]
             PROVE  Usable(file')
  BY DEF MineIsUsable, Usable
<1> USE DEF UpdateInv
<1>0. Shapes
  OBVIOUS
<1>1. ASSUME NEW g \in Handlers, Request(g) PROVE Usable(file')
  <2>1. PICK r \in MayAsk[g] : Copy(g, r)
    BY <1>1 DEF Request, AnswerAtOnce, Receive
  <2>2. g # h
    BY <1>0, <1>1 DEF Request, AnswerAtOnce, Receive, Finish, Shapes
  <2>3. /\ pc'[h] = pc[h] /\ alone'[h] = alone[h] /\ seen'[h] = seen[h]
        /\ UNCHANGED <<file, pass, version>>
    BY <1>0, <1>1, <2>1, <2>2 DEF Request, AnswerAtOnce, Receive, Copy, Finish, Shapes
  <2> QED
    BY <2>3 DEF BlameInv, MineIsUsable
<1>2. ASSUME NEW g \in Handlers, Empty(g) PROVE Usable(file')
  <2>1. alone'[h] = (h = g /\ alone[h])
    BY <1>2, Zenon DEF Empty, Disturb
  <2> QED
    BY <1>0, <1>2, <2>1 DEF Empty, Shapes
<1>3. ASSUME NEW g \in Handlers, Fill(g) PROVE Usable(file')
  <2>1. alone'[h] = (h = g /\ alone[h])
    BY <1>3, Zenon DEF Fill, Disturb
  <2>2. FileIsOpen(h)
    BY <1>3, <2>1 DEF Fill, Undisturbed
  <2>3. seen[h] \in Nat
    BY DEF Shapes
  <2> QED
    BY <1>3, <2>2, <2>3 DEF Fill, FileIsOpen
<1>4. ASSUME NEW g \in Handlers, WriteFails(g) \/ Confirm(g) \/ Timeout(g)
      PROVE  Usable(file')
  <2>1. pc[h] = "wait" /\ UNCHANGED <<file, pass, version, seen, alone>>
    BY <1>0, <1>4 DEF WriteFails, Confirm, Timeout, Finish, Shapes
  <2> QED
    BY <2>1 DEF BlameInv, MineIsUsable
<1>5. CASE Plan
  BY <1>5 DEF Plan, Worthwhile, Usable
<1>6. CASE Swap
  BY <1>6 DEF Swap, BlameInv, MineIsUsable
<1>7. CASE TakeEvent \/ NothingToDo \/ Abandon \/ Reconcile
  BY <1>7 DEF TakeEvent, NothingToDo, Abandon, Reconcile, BlameInv, MineIsUsable
<1>8. CASE Docker \/ ContainersChange \/ UNCHANGED vars
  BY <1>8 DEF Docker, Discover, Store, ContainersChange, BlameInv, MineIsUsable
<1>9. CASE Load \/ Upgrading
  <2>1. pc[h] = "wait" /\ boot # "up"
    BY <1>9 DEF Load, Upgrading, EmptyOld, FillOld
  <2> QED
    BY <2>1 DEF UnderWay, Busy
<1>10. CASE EditFile \/ Crash
  BY <1>10 DEF EditFile, Crash
<1> QED
  BY <1>1, <1>2, <1>3, <1>4, <1>5, <1>6, <1>7, <1>8, <1>9, <1>10 DEF Next, Handle, Monitor

\* The blame on another request than the one that moves stays.
LEMMA BlameOfOthers ==
  ASSUME UpdateInv, Counted, [Next]_vars, UNCHANGED file,
         NEW h \in Handlers, pc'[h] = pc[h], req'[h] = req[h], base'[h] = base[h],
         answer'[h] = answer[h], pc[h] # "new"
  PROVE  /\ SpoiltBy(h) => SpoiltBy(h)'
         /\ MixedBy(h) => MixedBy(h)'
<1>1. ~alone[h] => ~alone'[h]
  BY AloneIsLost DEF UpdateInv
<1>2. spent["edits"] > 0 => spent'["edits"] > 0
  BY NextCounted DEF Counted
<1>3. \A g \in Handlers : pc[g] # "new" => pc'[g] # "new"
  BY NewIsFirst DEF UpdateInv
<1>4. Draft(h)' = Draft(h)
  BY DEF Draft
<1> QED
  BY <1>1, <1>2, <1>3, <1>4 DEF SpoiltBy, MixedBy

LEMMA NextBlamed == UpdateInv /\ ValidInv /\ BlameInv /\ [Next]_vars => UnusableIsBlamed'
<1> SUFFICES ASSUME UpdateInv, ValidInv, BlameInv, [Next]_vars, ~Usable(file)'
             PROVE  \/ file' \in Files
                    \/ \E h \in Handlers : \/ pc'[h] = "fill"
                                           \/ SpoiltBy(h)' \/ MixedBy(h)'
                    \/ boot' = "emptied" \/ spent'["crashes"] + spent'["faults"] > 0
  BY DEF UnusableIsBlamed
<1> DEFINE Blamed == \/ file' \in Files
                     \/ \E h \in Handlers : pc'[h] = "fill" \/ SpoiltBy(h)' \/ MixedBy(h)'
                     \/ boot' = "emptied" \/ spent'["crashes"] + spent'["faults"] > 0
<1>0. Shapes /\ Counted /\ Counted'
  BY NextCounted DEF UpdateInv, BlameInv
<1>a. ASSUME spent["crashes"] + spent["faults"] > 0 PROVE Blamed
  BY <1>0, <1>a, NextCounted DEF Counted
<1>b. ASSUME UNCHANGED file, NEW g \in Handlers, \A h \in Handlers \ {g} :
               pc'[h] = pc[h] /\ req'[h] = req[h] /\ base'[h] = base[h] /\ answer'[h] = answer[h],
             boot' = boot, pc[g] # "fill"
      PROVE  Blamed \/ SpoiltBy(g) \/ MixedBy(g)
  <2>1. ~Usable(file)
    BY <1>b DEF Usable
  <2>2. CASE file \in Files \/ boot = "emptied"
    BY <1>b, <2>2
  <2>3. ASSUME NEW h \in Handlers \ {g}, SpoiltBy(h) \/ MixedBy(h) PROVE Blamed
    <3>1. pc[h] # "new"
      BY <2>3 DEF SpoiltBy, MixedBy
    <3> QED
      BY <1>0, <1>b, <2>3, <3>1, BlameOfOthers
  <2>4. ASSUME NEW h \in Handlers \ {g}, pc[h] = "fill" PROVE Blamed
    BY <1>b, <2>4
  <2> QED
    BY <2>1, <2>2, <2>3, <2>4, <1>b, <1>a DEF BlameInv, UnusableIsBlamed
<1>c. ASSUME UNCHANGED <<file, req, pc, base, answer, boot>> PROVE Blamed
  <2>1. ~Usable(file)
    BY <1>c DEF Usable
  <2>2. ASSUME NEW h \in Handlers, SpoiltBy(h) \/ MixedBy(h) PROVE Blamed
    <3>1. pc[h] # "new"
      BY <2>2 DEF SpoiltBy, MixedBy
    <3> QED
      BY <1>0, <1>c, <2>2, <3>1, BlameOfOthers
  <2> QED
    BY <2>1, <2>2, <1>c, <1>a DEF BlameInv, UnusableIsBlamed
<1>1. ASSUME NEW g \in Handlers, Request(g) PROVE Blamed
  <2>1. PICK r \in MayAsk[g] : Copy(g, r)
    BY <1>1 DEF Request, AnswerAtOnce, Receive
  <2>2. UNCHANGED <<file, boot>> /\ pc[g] = "new"
    BY <1>1, <2>1 DEF Request, AnswerAtOnce, Receive, Copy
  <2>3. \A h \in Handlers \ {g} :
          pc'[h] = pc[h] /\ req'[h] = req[h] /\ base'[h] = base[h] /\ answer'[h] = answer[h]
    BY <1>0, <1>1, <2>1 DEF Request, AnswerAtOnce, Receive, Copy, Finish, Shapes
  <2>4. ~SpoiltBy(g) /\ ~MixedBy(g)
    BY <2>2 DEF SpoiltBy, MixedBy
  <2> QED
    BY <1>b, <2>2, <2>3, <2>4
<1>2. ASSUME NEW g \in Handlers, Empty(g) PROVE Blamed
  BY <1>0, <1>2 DEF Empty, Shapes
<1>3. ASSUME NEW g \in Handlers, Fill(g) PROVE Blamed
  <2>1. Draft(g)' = Draft(g) /\ pc[g] = "fill"
    BY <1>3 DEF Fill, Draft
  <2>2. pc'[g] = "wait" \/ (pc'[g] = "done" /\ answer'[g] = "null")
    BY <1>0, <1>3 DEF Fill, Finish, Shapes
  <2>3. file' = Written(Draft(g)) \/ (mixed[g] /\ file' = Torn)
    BY <1>3 DEF Fill, Modify
  <2>4. CASE file' = Written(Draft(g))
    BY <2>1, <2>2, <2>4 DEF SpoiltBy
  <2>5. CASE mixed[g] /\ file' = Torn
    <3>1. ~alone[g] /\ (spent["edits"] > 0 \/ \E h \in Handlers \ {g} : pc[h] # "new")
      BY <2>1, <2>5 DEF BlameInv, MixedHasCause
    <3>2. ~alone'[g]
      BY <1>0, <2>1, <3>1, AloneIsLost
    <3>3. spent'["edits"] > 0 \/ \E h \in Handlers \ {g} : pc'[h] # "new"
      BY <1>0, <3>1, NextCounted, NewIsFirst DEF Counted
    <3> QED
      BY <2>2, <2>5, <3>2, <3>3 DEF MixedBy
  <2> QED
    BY <2>3, <2>4, <2>5
<1>4. ASSUME NEW g \in Handlers, WriteFails(g) PROVE Blamed
  <2>1. spent'["faults"] > 0
    BY <1>0, <1>4, SpendCounted DEF WriteFails
  <2> QED
    BY <1>0, <2>1 DEF Counted
<1>5. ASSUME NEW g \in Handlers, Confirm(g) \/ Timeout(g) PROVE Blamed
  <2>1. /\ UNCHANGED <<file, boot, req, base, alone, spent>> /\ pc[g] = "wait"
        /\ \A h \in Handlers \ {g} : pc'[h] = pc[h] /\ answer'[h] = answer[h]
        /\ pc'[g] = "done"
    BY <1>0, <1>5 DEF Confirm, Timeout, Finish, Shapes
  <2>2. CASE MixedBy(g)
    BY <1>0, <2>1, <2>2, NewIsFirst DEF MixedBy
  <2>3. CASE SpoiltBy(g)
    <3>1. file' = Written(Draft(g)') /\ Draft(g)' = Draft(g)
      BY <2>1, <2>3 DEF SpoiltBy, Draft
    <3>2. CASE Confirm(g)
      <4>1. ~alone[g]
        BY <2>1, <3>2 DEF Confirm, Usable, BlameInv, MineIsUsable
      <4> QED
        BY <2>1, <3>1, <4>1 DEF SpoiltBy
    <3>3. CASE Timeout(g)
      <4>1. answer'[g] = "failed" \/ req'[g] \in Settings
        BY <1>0, <2>1, <3>3 DEF Timeout, Finish, Shapes
      <4> QED
        BY <2>1, <3>1, <4>1 DEF SpoiltBy
    <3> QED
      BY <1>5, <3>2, <3>3
  <2> QED
    BY <1>b, <2>1, <2>2, <2>3
<1>6. CASE Monitor \/ Docker \/ ContainersChange
  <2>1. UNCHANGED <<file, req, pc, base, answer, boot>>
    BY <1>6 DEF Monitor, TakeEvent, NothingToDo, Plan, Abandon, Reconcile, Swap, Docker,
      Discover, Store, ContainersChange
  <2> QED
    BY <1>c, <2>1
<1>7. CASE Load
  <2>1. Usable(file)'
    BY <1>7 DEF Load, Usable
  <2> QED
    BY <2>1
<1>8. CASE EmptyOld
  BY <1>8 DEF EmptyOld
<1>9. CASE FillOld
  <2>1. PICK f \in Files : config = Upgrade(f) /\ Usable(f)
    BY <1>9 DEF FillOld, BlameInv, OldIsLoaded
  <2>2. WellFormed(config, "V3") /\ Valid(config) /\ Written(config) # Torn
    BY <2>1, UpgradeWellFormed, UpdateAssumption DEF Usable
  <2>3. Usable(Written(config))
    BY <2>2, PrintKeepsValid, WrittenIsV3 DEF Usable
  <2> QED
    BY <1>9, <2>3 DEF FillOld, Modify, Usable
<1>10. CASE EditFile
  BY <1>10 DEF EditFile, Modify, Files
<1>11. CASE Crash
  <2>1. spent'["crashes"] > 0
    BY <1>0, <1>11, SpendCounted DEF Crash
  <2> QED
    BY <1>0, <2>1 DEF Counted
<1>12. CASE UNCHANGED vars
  BY <1>12, <1>c
<1> QED
  BY <1>1, <1>2, <1>3, <1>4, <1>5, <1>6, <1>7, <1>8, <1>9, <1>10, <1>11, <1>12
     DEF Next, Handle, Upgrading

LEMMA BlameAlways == Spec => []BlameInv
<1>1. UpdateInv /\ ValidInv /\ BlameInv /\ [Next]_vars => BlameInv'
  BY NextCounted, NextOldIsLoaded, NextMixed, NextMine, NextBlamed DEF BlameInv
<1> QED
  BY InitBlame, <1>1, UpdateInvariant, ValidAlways, PTL DEF Spec

\* A file that odd-box cannot use has a cause that can be named: a save by a
\* person, a write under way or cut short, two writes at once, or a request
\* that has had no good answer (sites.rs 220, v3.rs 475).
THEOREM UnusableIsBlamedCorrect == Spec => []UnusableIsBlamed
<1>1. BlameInv => UnusableIsBlamed
  BY DEF BlameInv
<1> QED
  BY <1>1, BlameAlways, PTL

-----------------------------------------------------------------------------
(***************************************************************************)
(* Types.                                                                  *)
(***************************************************************************)
\* Each part of the state but the configurations, which are AllWellFormed's, and
\* what a handler has, which is in Shapes.
Ranges ==
  /\ backups \subseteq Files /\ \A f \in backups : f.ver # "V3"
  /\ events \in Nat
  /\ boot \in {"down", "copied", "emptied", "up"}
  /\ pass \in {"idle", "sleep", "await", "swap"}
  /\ boot = "down" => config = None
  /\ pass \in {"idle", "sleep"} => next = None
  /\ round \in {"idle", "store"}
  /\ docker \subseteq Containers /\ found \subseteq Containers /\ running \subseteq Containers
  /\ status \in [Names -> {None, "Remote", "Dir", "Docker"}]
  /\ \A h \in Handlers : pc[h] = "new" \/ req[h] \in Requests
  /\ \A what \in DOMAIN Limit : spent[what] \in 0..Limit[what]

LEMMA LimitIs ==
  /\ DOMAIN Limit = {"edits", "faults", "crashes", "containers"}
  /\ \A what \in DOMAIN Limit : Limit[what] \in Nat
BY UpdateAssumption DEF Limit

LEMMA InitRanges == Init => Ranges
BY LimitIs DEF Init, Ranges

AbandonedIsKnown == abandoned \in BOOLEAN

LEMMA NextAbandoned == AbandonedIsKnown /\ [Next]_vars => AbandonedIsKnown'
<1>1. [Next]_vars => abandoned' \in {abandoned, TRUE, FALSE}
  BY Zenon DEF Next, Request, AnswerAtOnce, Receive, Handle, Empty, Fill, WriteFails, Confirm,
    Timeout, Monitor, TakeEvent, NothingToDo, Plan, Abandon, Reconcile, Swap, Docker,
    Discover, Store, Load, Upgrading, EmptyOld, FillOld, EditFile, ContainersChange, Crash
<1> QED
  BY <1>1, Zenon DEF AbandonedIsKnown

StrayedAreNames == strayed \subseteq Names

\* Every site of a configuration of today's format has a name.
LEMMA HostsAreNames ==
  ASSUME NEW c, WellFormed(c, "V3"), NEW k \in Lists
  PROVE  HostsOf(c, k) \subseteq Names
<1> SUFFICES ASSUME NEW b \in Range(Items(c[k])) PROVE b.host \in Names
  BY DEF HostsOf
<1>1. b.host \in Hostnames
  <2>1. c[k] # None
    BY DEF Items, Range
  <2>2. WellFormedBlock(b, "V3", k)
    BY <2>1 DEF WellFormed, WellFormedList, Items
  <2> QED
    BY <2>2 DEF WellFormedBlock, BlocksWith
<1>2. PICK g \in Given : b.host = g.host
  BY <1>1 DEF Hostnames
<1>3. CASE \E f \in Files : g \in Blocks(f.conf)
  <2>1. PICK f \in Files : g \in Blocks(f.conf)
    BY <1>3
  <2>2. g.host \in Hosts(f.conf)
    BY <2>1 DEF Hosts
  <2> QED
    BY <1>2, <2>2, Zenon DEF Names
<1>4. CASE \E r \in Updates : g = r.block
  <2>1. PICK r \in Updates : g = r.block
    BY <1>4
  <2>2. g.host \in {r.host, r.block.host}
    BY <2>1
  <2> QED
    BY <1>2, <2>2, Zenon DEF Names
<1> QED
  BY <1>3, <1>4, Zenon DEF Given

LEMMA NextStrayed ==
  ValidInv /\ BlameInv /\ StrayedAreNames /\ [Next]_vars => StrayedAreNames'
<1> SUFFICES ASSUME ValidInv, BlameInv, StrayedAreNames, [Next]_vars
             PROVE  strayed' \subseteq Names
  BY DEF StrayedAreNames
<1>1. ASSUME NEW h \in Handlers, Receive(h) PROVE strayed' \subseteq Names
  <2>1. PICK r \in MayAsk[h] : IF r \in Deletes THEN strayed' = strayed \cup {r.host}
                                                ELSE strayed' = strayed
    BY <1>1 DEF Receive
  <2>2. r \in Deletes => r.host \in Names
    BY Zenon DEF Names
  <2> QED
    BY <2>1, <2>2 DEF StrayedAreNames
<1>2. ASSUME Abandon PROVE strayed' \subseteq Names
  <2>1. CASE pass = "swap"
    <3>1. WellFormed(config, "V3") /\ WellFormed(next, "V3")
      BY <2>1 DEF ValidInv, AllWellFormed, BlameInv, OldIsLoaded
    <3>2. Moved(config, next) \subseteq Names
      BY <3>1, HostsAreNames DEF Moved
    <3> QED
      BY <1>2, <2>1, <3>2 DEF Abandon, StrayedAreNames
  <2> QED
    BY <1>2, <2>1 DEF Abandon, StrayedAreNames
<1>3. \/ \E h \in Handlers : Receive(h)
      \/ Abandon
      \/ strayed' \in {strayed, {}}
  BY Zenon DEF Next, Request, AnswerAtOnce, Handle, Empty, Fill, WriteFails, Confirm,
    Timeout, Monitor, TakeEvent, NothingToDo, Plan, Reconcile, Swap, Docker,
    Discover, Store, Load, Upgrading, EmptyOld, FillOld, EditFile, ContainersChange, Crash,
    vars, passVars
<1> QED
  BY <1>1, <1>2, <1>3 DEF StrayedAreNames

LEMMA NextRanges == UpdateInv /\ ValidInv /\ BlameInv /\ Ranges /\ [Next]_vars => Ranges'
<1> SUFFICES ASSUME UpdateInv, ValidInv, BlameInv, Ranges, [Next]_vars PROVE Ranges'
  OBVIOUS
<1>0. Shapes /\ Counted
  BY DEF UpdateInv, BlameInv
<1>1. \A what \in DOMAIN Limit : spent'[what] \in 0..Limit[what]
  <2>1. ASSUME NEW w \in DOMAIN Limit, Spend(w)
        PROVE  \A what \in DOMAIN Limit : spent'[what] \in 0..Limit[what]
    BY <1>0, <2>1, LimitIs DEF Spend, Counted, Ranges
  <2>2. UNCHANGED spent \/ \E w \in DOMAIN Limit : Spend(w)
    BY LimitIs DEF Next, Request, AnswerAtOnce, Receive, Handle, Empty, Fill, WriteFails, Confirm,
      Timeout, Monitor, TakeEvent, NothingToDo, Plan, Abandon, Reconcile, Swap, Docker,
      Discover, Store, Load, Upgrading, EmptyOld, FillOld, EditFile, ContainersChange, Crash
  <2> QED
    BY <2>1, <2>2 DEF Ranges
<1> DEFINE Rest == /\ backups' \subseteq Files /\ \A f \in backups' : f.ver # "V3"
                   /\ events' \in Nat
                   /\ boot' \in {"down", "copied", "emptied", "up"}
                   /\ pass' \in {"idle", "sleep", "await", "swap"}
                   /\ boot' = "down" => config' = None
                   /\ pass' \in {"idle", "sleep"} => next' = None
                   /\ round' \in {"idle", "store"}
                   /\ docker' \subseteq Containers /\ found' \subseteq Containers
                   /\ running' \subseteq Containers
                   /\ status' \in [Names -> {None, "Remote", "Dir", "Docker"}]
                   /\ \A h \in Handlers : pc'[h] = "new" \/ req'[h] \in Requests
<1>a. \A h \in Handlers : pc[h] = "new" \/ req[h] \in Requests
  BY DEF Ranges
<1>2. ASSUME NEW h \in Handlers, Request(h) PROVE Rest
  <2>1. PICK r \in MayAsk[h] : Copy(h, r)
                               /\ status' \in {status, [status EXCEPT ![r.host] = None]}
    BY <1>2 DEF Request, AnswerAtOnce, Receive
  <2>2. r \in Requests
    BY UpdateAssumption
  <2>3. \A g \in Handlers : pc'[g] = "new" \/ req'[g] \in Requests
    BY <1>0, <1>a, <1>2, <2>1, <2>2 DEF Request, AnswerAtOnce, Receive, Copy, Finish, Shapes
  <2>4. status' \in [Names -> {None, "Remote", "Dir", "Docker"}]
    BY <2>1 DEF Ranges
  <2> QED
    BY <1>2, <2>3, <2>4 DEF Request, AnswerAtOnce, Receive, Ranges
<1>3. ASSUME NEW h \in Handlers, Handle(h) PROVE Rest
  <2>1. /\ UNCHANGED <<backups, boot, pass, abandoned, config, next, round, docker, found,
                       running, status, req>>
        /\ events' \in {events, events + 1, 0}
    BY <1>3 DEF Handle, Empty, Fill, WriteFails, Confirm, Timeout, Modify
  <2>2. \A g \in Handlers : pc'[g] # "new" => pc[g] # "new"
    BY <1>0, <1>3 DEF Handle, Empty, Fill, WriteFails, Confirm, Timeout, Finish, Shapes
  <2>3. events' \in Nat
    BY <2>1 DEF Ranges
  <2>4. \A g \in Handlers : pc'[g] = "new" \/ req'[g] \in Requests
    <3>1. req' = req
      BY <2>1
    <3> QED
      BY <1>a, <2>2, <3>1
  <2> QED
    BY <2>1, <2>3, <2>4 DEF Ranges
<1>4. ASSUME Monitor PROVE Rest
  <2>1. CASE TakeEvent
    BY <2>1 DEF TakeEvent, Ranges
  <2>3. CASE NothingToDo \/ Plan
    BY <2>3 DEF NothingToDo, Plan, Ranges
  <2>4. CASE Abandon
    BY <2>4 DEF Abandon, Ranges
  <2>5. CASE Swap
    BY <2>5 DEF Swap, Ranges, BlameInv, OldIsLoaded
  <2>2. CASE Reconcile
    <3>1. status' \in [Names -> {None, "Remote", "Dir", "Docker"}]
      BY <2>2 DEF Reconcile, Reconciled, Ranges
    <3> QED
      BY <2>2, <3>1 DEF Reconcile, Ranges
  <2> QED
    BY <1>4, <2>1, <2>2, <2>3, <2>4, <2>5 DEF Monitor
<1>5. ASSUME Docker \/ ContainersChange PROVE Rest
  BY <1>5 DEF Docker, Discover, Store, ContainersChange, Ranges
<1>6. ASSUME Load PROVE Rest
  <2>1. file.ver # "V3" => file \in Files
    BY <1>6 DEF Load, Usable, BlameInv, OldIsLoaded
  <2>2. status' \in [Names -> {None, "Remote", "Dir", "Docker"}]
    BY <1>6 DEF Load, Statuses, Ranges
  <2> QED
    BY <1>6, <2>1, <2>2 DEF Load, Ranges
<1>7. ASSUME Upgrading PROVE Rest
  <2>1. status' \in [Names -> {None, "Remote", "Dir", "Docker"}]
    BY <1>7 DEF Upgrading, EmptyOld, FillOld, Statuses, Ranges
  <2> QED
    BY <1>7, <2>1 DEF Upgrading, EmptyOld, FillOld, Modify, Ranges
<1>8. ASSUME EditFile PROVE Rest
  BY <1>8 DEF EditFile, Modify, Ranges
<1>9. ASSUME Crash PROVE Rest
  BY <1>0, <1>9 DEF Crash, Shapes, Ranges
<1>10. ASSUME UNCHANGED vars PROVE Rest
  BY <1>10 DEF Ranges
<1>11. Rest
  BY <1>2, <1>3, <1>4, <1>5, <1>6, <1>7, <1>8, <1>9, <1>10 DEF Next
<1> QED
  BY <1>1, <1>11 DEF Ranges

\* Whatever is loaded, written, or copied by a handler has the fields and flags
\* of its format, and every part of the state stays in its range.
THEOREM UpdateTypeCorrect == Spec => []TypeOK
<1>1. UpdateInv /\ ValidInv /\ Ranges /\ AbandonedIsKnown /\ StrayedAreNames => TypeOK
  BY DEF AbandonedIsKnown, StrayedAreNames, UpdateInv, Shapes, ValidInv, AllWellFormed, Busy,
         Ranges, TypeOK
<1>2. Init => AbandonedIsKnown
  BY Zenon DEF Init, AbandonedIsKnown
<1>3. Init => StrayedAreNames
  BY DEF Init, StrayedAreNames
<1> QED
  BY <1>1, <1>2, <1>3, InitRanges, NextRanges, NextAbandoned, NextStrayed, UpdateInvariant,
     ValidAlways, BlameAlways, PTL DEF Spec

-----------------------------------------------------------------------------
(***************************************************************************)
(* What is written and what is confirmed.                                  *)
(***************************************************************************)
\* The step that ends a write is the handler's own.
LEMMA FilledStep ==
  ASSUME UpdateInv, [Next]_vars, NEW h \in Handlers,
         pc[h] = "fill", pc'[h] # "fill", file' # file, file' # Torn
  PROVE  file' = Written(Draft(h))
<1>1. PICK g \in Handlers : Request(g) \/ Handle(g)
  BY DEF Next, Monitor, TakeEvent, NothingToDo, Plan, Abandon, Reconcile, Swap, Docker,
    Discover, Store, Load, Upgrading, EmptyOld, FillOld, ContainersChange, EditFile, Crash
<1>2. g = h
  BY <1>1 DEF Request, Handle, AnswerAtOnce, Receive, Copy, Empty, Fill, WriteFails, Confirm,
    Timeout, Finish, UpdateInv, Shapes
<1> QED
  BY <1>1, <1>2 DEF Request, Handle, AnswerAtOnce, Receive, Copy, Empty, Fill, WriteFails,
    Confirm, Timeout, Modify

\* A request leaves the other sites and settings in the file as the handler
\* found them, and its own change stands there (v3.rs 494, sites.rs 200-220).
THEOREM ChangesOnlyItsSiteCorrect == Spec => ChangesOnlyItsSite
<1>1. ASSUME UpdateInv, ValidInv, [Next]_vars, NEW h \in Handlers,
             pc[h] = "fill", pc'[h] # "fill", file' # file, file' # Torn
      PROVE  Granted(req[h], file'.conf) /\ Untouched(req[h], base[h], file'.conf)
  <2>1. req[h] \in Requests /\ WellFormed(base[h], "V3")
    BY <1>1 DEF ValidInv, AllWellFormed, Busy
  <2>2. file'.conf = PrintConfig(Changed(req[h], base[h]))
    BY <1>1, FilledStep DEF Written, Draft
  <2>3. Untouched(req[h], base[h], file'.conf)
    BY <2>1, <2>2, RequestUntouches
  <2>4. Granted(req[h], file'.conf)
    BY <2>1, <2>2, RequestGranted
  <2> QED
    BY <2>3, <2>4
<1>2. UpdateInv /\ ValidInv /\ [Next]_vars =>
        [\A h \in Handlers :
           pc[h] = "fill" /\ pc'[h] # "fill" /\ file' # file /\ file' # Torn /\ alone[h] =>
             Granted(req[h], file'.conf) /\ Untouched(req[h], base[h], file'.conf)]_vars
  BY <1>1
<1> QED
  BY <1>2, UpdateInvariant, ValidAlways, PTL DEF Spec, ChangesOnlyItsSite

\* A change that is confirmed after a reload stands in the active configuration
\* (sites.rs 258, settings.rs 223).
THEOREM AnswersAreTrueCorrect == Spec => AnswersAreTrue
<1>1. ASSUME UpdateInv, ValidInv, [Next]_vars, NEW h \in Handlers,
             pc[h] = "wait", pc'[h] = "done", answer'[h] = "ok", alone[h]
      PROVE  Granted(req[h], config) \/ (req[h] \in Settings /\ version = seen[h])
  <2> DEFINE d == Changed(req[h], base[h])
  <2>1. req[h] \in Requests /\ WellFormed(base[h], "V3")
    BY <1>1 DEF ValidInv, AllWellFormed, Busy
  <2>2. WellFormed(d, "V3")
    BY <2>1, ChangedConfig
  <2>3. CASE config = Reloaded(Written(Draft(h)))
    <3>1. /\ \A k \in Lists : Items(Reloaded(Written(d))[k]) = Items(PrintConfig(d)[k])
          /\ \A g \in Global : Reloaded(Written(d))[g] = PrintConfig(d)[g]
      BY <2>2, WrittenWellFormed, WrittenIsV3, ReloadedConfig
    <3>2. config = Reloaded(Written(d))
      BY <2>3 DEF Draft
    <3>3. Granted(req[h], config)
      BY <2>1, <3>1, <3>2, RequestGranted
    <3> QED
      BY <3>3
  <2> QED
    BY <1>1, <2>3, ConfirmedStep
<1>2. UpdateInv /\ ValidInv /\ [Next]_vars =>
        [\A h \in Handlers :
           pc[h] = "wait" /\ pc'[h] = "done" /\ answer'[h] = "ok" /\ alone[h] =>
             Granted(req[h], config) \/ (req[h] \in Settings /\ version = seen[h])]_vars
  BY <1>1
<1> QED
  BY <1>2, UpdateInvariant, ValidAlways, PTL DEF Spec, AnswersAreTrue
=============================================================================
