------------------------------ MODULE Observer ------------------------------
(***************************************************************************)
(* Traffic inspection: the events that a tracked connection broadcasts     *)
(* (proxy.rs, managed_stream.rs), the observer task that puts messages     *)
(* together again from the bytes that went by (observer.rs), and its two   *)
(* decoders (h1_parser.rs, h2_parser.rs).                                  *)
(*                                                                         *)
(* Conversations, units and what the decoders make of them: see Decoders.  *)
(* What is shown once bytes are out of step is arbitrary, and no property  *)
(* speaks about it.                                                        *)
(***************************************************************************)
EXTENDS Decoders, TLC

CONSTANTS
  Conns,        \* connections, each with a key of its own
  Talks,        \* who may come with what conversation, None for who does not come
  Capacity,     \* of the global broadcast channel
  MaxToggles,   \* presses of the key that switches inspection (bound)
  MaxRepeats,   \* short writes and reads on top of unwritten bytes (bound)
  MaxUpdates,   \* updates of a connection (bound)
  MaxPiece      \* units in one read or write (bound)

ASSUME ObserverAssumption ==
  /\ Capacity \in Nat \ {0}
  /\ {MaxToggles, MaxRepeats, MaxUpdates, MaxPiece} \subseteq Nat
  /\ \A t \in Talks : DOMAIN t = Conns
  \* Only the preface of HTTP/2 marks a stream.
  /\ \A t \in Talks : \A c \in Conns : t[c] # None =>
       t[c].marked \in BOOLEAN /\ (t[c].marked => t[c].ver = "h2")

VARIABLES
  phase,     \* "out", "open", "closing" (out of active_connections) or "gone"
  tracked,   \* in active_connections
  talk,      \* its conversation
  moved,     \* units that have gone by, in each direction
  updates,   \* updates so far
  inspect,   \* enable_global_traffic_inspection
  toggles, repeats,
  queue,     \* events the observer has not received
  resetting, \* the observer has found inspection off and is about to reset
  station,   \* what tcp_connections shows of it, None when it has no entry
  decoder,   \* its entry in h1_observers or h2_observers
  heard,     \* units the observer has received
  before,    \* the same, without the last event
  whole,     \* shown from the start, no event lost, no unit twice
  closeLost  \* its Close was overwritten in the channel

wireVars  == <<phase, tracked, talk, moved, updates, repeats>>
shownVars == <<station, decoder, heard, before>>
vars == <<wireVars, inspect, toggles, queue, resetting, shownVars, whole, closeLost>>

\* A message goes out when the one it answers has come in.
MaySend(c, d, n) ==
  \A k \in 1..n :
    LET i == AllUnits(talk[c], d)[k][2]
    IN  talk[c][d][i].after \in {0} \cup Complete(talk[c], Other(d), moved[c][Other(d)])

-----------------------------------------------------------------------------
(***************************************************************************)
(* The broadcast channel: a full one loses its oldest event.               *)
(***************************************************************************)
Event(c, kind) == [conn |-> c, kind |-> kind]
Bytes(c, d, from, to) == [conn |-> c, kind |-> d, from |-> from, to |-> to]

\* repeated: the connections whose bytes are in this event a second time.
Send(e, fresh, repeated) ==
  LET over == Len(queue) = Capacity
      lost == Head(queue)
  IN  /\ queue' = Append(IF over THEN Tail(queue) ELSE queue, e)
      /\ whole' = [c \in Conns |->
                     /\ whole[c] \/ c \in fresh
                     /\ c \notin repeated
                     /\ ~(over /\ lost.conn = c /\ lost.kind \in Directions)]
      /\ closeLost' = [c \in Conns |->
                         closeLost[c] \/ (over /\ lost.conn = c /\ lost.kind = "close")]

-----------------------------------------------------------------------------
(***************************************************************************)
(* One connection.                                                         *)
(***************************************************************************)
\* add_or_update_connection: its entry is made here and not by the observer.
Track(c) ==
  /\ phase[c] = "out" /\ talk[c] # None
  /\ phase' = [phase EXCEPT ![c] = "open"]
  /\ tracked' = [tracked EXCEPT ![c] = TRUE]
  /\ station' = [station EXCEPT ![c] = IF inspect THEN <<>> ELSE @]
  /\ Send(Event(c, "open"), IF inspect THEN {c} ELSE {}, {})
  /\ UNCHANGED <<talk, moved, updates, repeats, inspect, toggles, resetting, decoder,
                 heard, before>>

\* mutate_tracked_connection sends while it holds the entry.
Update(c) ==
  /\ tracked[c] /\ updates[c] < MaxUpdates
  /\ updates' = [updates EXCEPT ![c] = @ + 1]
  /\ Send(Event(c, "update"), {}, {})
  /\ UNCHANGED <<phase, tracked, talk, moved, repeats, inspect, toggles, resetting,
                 shownVars>>

\* poll_read and poll_write of the sealed stream: n more units go by.
Pass(c, d, n) ==
  LET m == moved[c][d] IN
  /\ phase[c] = "open" /\ m + n <= Len(AllUnits(talk[c], d)) /\ MaySend(c, d, m + n)
  /\ moved' = [moved EXCEPT ![c][d] = m + n]
  /\ Send(Bytes(c, d, m + 1, m + n), {}, {})
  /\ UNCHANGED <<phase, tracked, talk, updates, repeats, inspect, toggles, resetting,
                 shownVars>>

\* poll_write tells of all it was given, also when less was written: the rest is
\* told of again by the next write.  poll_read tells of all that is in the reader's
\* buffer, where copy_bidirectional keeps what it has not yet written.
PassAgain(c, d, n, k) ==
  LET m == moved[c][d]
      from == IF d = "in" THEN m + 1 - k ELSE m + 1
      to   == IF d = "in" THEN m + n ELSE m + n + k
  IN
  /\ phase[c] = "open" /\ repeats < MaxRepeats
  /\ from > 0 /\ to <= Len(AllUnits(talk[c], d)) /\ MaySend(c, d, to)
  /\ moved' = [moved EXCEPT ![c][d] = m + n]
  /\ repeats' = repeats + 1
  /\ Send(Bytes(c, d, from, to), {}, {c})
  /\ UNCHANGED <<phase, tracked, talk, updates, inspect, toggles, resetting, shownVars>>

\* Mutant: del_connection leaves the entry where it is.
Forget_KeepsEntry(c) ==
  /\ phase[c] = "open"
  /\ phase' = [phase EXCEPT ![c] = "closing"]
  /\ UNCHANGED <<tracked, talk, moved, updates, repeats, inspect, toggles, queue,
                 resetting, shownVars, whole, closeLost>>

\* The stream is dropped: out of active_connections first ...
Forget(c) ==
  /\ phase[c] = "open"
  /\ phase' = [phase EXCEPT ![c] = "closing"]
  /\ tracked' = [tracked EXCEPT ![c] = FALSE]
  /\ UNCHANGED <<talk, moved, updates, repeats, inspect, toggles, queue, resetting,
                 shownVars, whole, closeLost>>

\* ... and then the event.
Tell(c) ==
  /\ phase[c] = "closing"
  /\ phase' = [phase EXCEPT ![c] = "gone"]
  /\ Send(Event(c, "close"), {}, {})
  /\ UNCHANGED <<tracked, talk, moved, updates, repeats, inspect, toggles, resetting,
                 shownVars>>

\* The key 'o' of the terminal interface.
Toggle ==
  /\ toggles < MaxToggles
  /\ toggles' = toggles + 1
  /\ inspect' = ~inspect
  /\ UNCHANGED <<wireVars, queue, resetting, shownVars, whole, closeLost>>

-----------------------------------------------------------------------------
(***************************************************************************)
(* The observer task.                                                      *)
(***************************************************************************)
\* Every event of bytes carries the mark of its stream, which chooses the decoder.
NewDecoder(t) == IF t.marked THEN NewH2 ELSE NewH1

\* What bytes of direction d do: the decoder after them, the items for the
\* connection, and whether a decoder of HTTP/1 has been asked at all: what the
\* server says is only parsed for a connection that has an entry.
Decoded(c, d, units) ==
  LET t == talk[c]
      o == IF decoder[c] = None THEN NewDecoder(t) ELSE decoder[c]
      pushed == [o EXCEPT ![d] = @ \o units]
  IN  CASE t.marked -> ParseH2(t, WriteH2(t, o, d, units))
        [] ~t.marked /\ d = "out" /\ station[c] = None ->
             [o |-> pushed, items |-> <<>>]
        [] OTHER -> ParseH1(t, pushed)

\* What follows the announcement of a websocket in the client's direction is not
\* shown.
UpToUpgrade(c, items) ==
  IF talk[c].marked THEN items
  ELSE LET asks == {k \in DOMAIN items : /\ items[k].dir = "in"
                                         /\ talk[c]["in"][items[k].msg].kind = "upgrade"}
       IN  IF asks = {} THEN items
           ELSE SubSeq(items, 1, CHOOSE k \in asks : \A j \in asks : k <= j)

Shown(c, d, items) ==
  IF station[c] = None THEN None
  ELSE station[c] \o (IF d = "in" THEN UpToUpgrade(c, items) ELSE items)

\* The units that an event carries.
Carried(c, e) == SubSeq(AllUnits(talk[c], e.kind), e.from, e.to)

\* An event that comes while inspection is off: everything is going to be cleared.
FindOff ==
  /\ queue # <<>> /\ ~inspect /\ ~resetting
  /\ queue' = Tail(queue)
  /\ resetting' = TRUE
  /\ UNCHANGED <<wireVars, inspect, toggles, shownVars, whole, closeLost>>

\* MonitoringStation::reset, whoever has come in the meantime.
Reset ==
  /\ resetting
  /\ resetting' = FALSE
  /\ station' = [c \in Conns |-> None] /\ decoder' = [c \in Conns |-> None]
  /\ whole' = [c \in Conns |-> FALSE]
  /\ UNCHANGED <<wireVars, inspect, toggles, queue, heard, before, closeLost>>

Receive(e) ==
  /\ queue # <<>> /\ inspect /\ ~resetting
  /\ e = Head(queue)
  /\ queue' = Tail(queue)
  /\ UNCHANGED <<wireVars, inspect, toggles, resetting, whole, closeLost>>

\* The entry is there already.
HearOpen ==
  \E c \in Conns :
    /\ Receive(Event(c, "open"))
    /\ UNCHANGED shownVars

\* An update of a connection that is not known makes an entry.
HearUpdate ==
  \E c \in Conns :
    /\ Receive(Event(c, "update"))
    /\ station' = [station EXCEPT ![c] = IF @ = None THEN <<>> ELSE @]
    /\ UNCHANGED <<decoder, heard, before>>

HearBytes ==
  \E c \in Conns, d \in Directions :
    /\ queue # <<>> /\ Head(queue).conn = c /\ Head(queue).kind = d
    /\ Receive(Head(queue))
    /\ LET r == Decoded(c, d, Carried(c, Head(queue)))
       IN  /\ decoder' = [decoder EXCEPT ![c] = r.o]
           /\ station' = [station EXCEPT ![c] = Shown(c, d, r.items)]
    /\ heard'  = [heard  EXCEPT ![c] = IF whole[c] THEN [@ EXCEPT ![d] = Head(queue).to]
                                       ELSE @]
    /\ before' = [before EXCEPT ![c] = IF whole[c] THEN heard[c] ELSE @]

\* The decoder stays.
HearClose ==
  \E c \in Conns :
    /\ Receive(Event(c, "close"))
    /\ station' = [station EXCEPT ![c] = None]
    /\ UNCHANGED <<decoder, heard, before>>

-----------------------------------------------------------------------------
Nowhere == [in |-> 0, out |-> 0]

Init ==
  /\ phase = [c \in Conns |-> "out"] /\ tracked = [c \in Conns |-> FALSE]
  /\ talk \in Talks
  /\ moved = [c \in Conns |-> Nowhere] /\ updates = [c \in Conns |-> 0]
  /\ inspect = FALSE /\ toggles = 0 /\ repeats = 0
  /\ queue = <<>> /\ resetting = FALSE
  /\ station = [c \in Conns |-> None] /\ decoder = [c \in Conns |-> None]
  /\ heard = [c \in Conns |-> Nowhere] /\ before = [c \in Conns |-> Nowhere]
  /\ whole = [c \in Conns |-> FALSE] /\ closeLost = [c \in Conns |-> FALSE]

Connection(c) ==
  \/ Track(c) \/ Update(c) \/ Forget(c) \/ Tell(c)
  \/ \E d \in Directions, n \in 1..MaxPiece : Pass(c, d, n)
  \/ \E d \in Directions, n \in 1..MaxPiece, k \in 1..MaxPiece : PassAgain(c, d, n, k)

Observing == FindOff \/ Reset \/ HearOpen \/ HearUpdate \/ HearBytes \/ HearClose

Next == (\E c \in Conns : Connection(c)) \/ Toggle \/ Observing

Spec == Init /\ [][Next]_vars

-----------------------------------------------------------------------------
(***************************************************************************)
(* Properties.                                                             *)
(***************************************************************************)
\* An HTTP/2 frame that has an event of its own when it is complete.
Visible(m) == m.kind # "preface" /\ (m.kind \in {"headers", "cont"} => m.final)

\* The data of stream s among the first n frames of a direction.
DataOf(t, d, s, n) ==
  LET first[i \in 0..Len(t[d])] ==
        IF i = 0 THEN <<>>
        ELSE first[i - 1] \o (IF t[d][i].kind = "data" /\ t[d][i].stream = s
                              THEN OwnUnits(t, d, i) ELSE <<>>)
  IN  first[n]

\* The body that item i is to be shown with: the message itself; for HTTP/2 the
\* data of its stream, when it ends a response.
Content(t, d, i) ==
  LET m == t[d][i]
  IN  CASE t.ver = "h2" /\ m.kind \in {"headers", "cont"}        -> <<>>
        [] t.ver = "h2" /\ m.kind = "data" /\ m.ends /\ d = "out" -> DataOf(t, d, m.stream, i)
        [] OTHER -> OwnUnits(t, d, i)

\* A message whose head announces a body of another length: the answer to a HEAD
\* request, or a chunked body.  Nothing that follows it can be told apart.
Misleading(t, d, i) == t.ver = "h1" /\ \E j \in 1..i : t[d][j].says # t[d][j].len

\* The units of a body that went one way.
OneWay(body, d) ==
  LET of[n \in 0..Len(body)] ==
        IF n = 0 THEN <<>>
        ELSE IF body[n][1] = d THEN Append(of[n - 1], body[n]) ELSE of[n - 1]
  IN  of[Len(body)]

\* The frames whose header block goes on in the next one.
Unfinished(t, d) == {i \in DOMAIN t[d] : t[d][i].kind \in {"headers", "cont"} /\ ~t[d][i].final}

\* The decoder has room for one unfinished header block, whichever way it goes: where
\* both sides cut theirs one may push out the other, and its end is taken for a
\* frame of its own.
Crossed(t) == t.ver = "h2" /\ \A d \in Directions : Unfinished(t, d) # {}

\* An event stops behind an unfinished header block.  Where there are more of them the
\* decoder may come to an answer before it has come to the request.
CutTwice(t) ==
  t.ver = "h2" /\ \E d \in Directions : \E i, j \in Unfinished(t, d) : i # j

\* Until a request has ended its stream has one entry for both directions, and
\* what is shown as the response to it holds the data of both.
Right(t, d, item) ==
  LET i == item.msg IN
  \/ item.body = Content(t, d, i)
  \/ /\ t.ver = "h2" /\ t[d][i].overlaps
     /\ OneWay(item.body, d) = Content(t, d, i)
  \/ CutTwice(t)

\* What is shown of a direction is what went by, in order and with its content:
\* item k has all that can be seen of earlier messages before it, and nothing else.
ShownInOrder(c, d) ==
  LET s == station[c]
      t == talk[c]
      Before(k) == {s[l].msg : l \in {l \in 1..k - 1 : s[l].dir = d}}
  IN  \A k \in DOMAIN s :
        s[k].dir = d =>
          \/ Misleading(t, d, s[k].msg) \/ Crossed(t)
          \/ /\ Visible(t[d][s[k].msg]) /\ Right(t, d, s[k])
             /\ Before(k) = {j \in 1..s[k].msg - 1 : Visible(t[d][j])}

\* What the code fails to show, or may show late.  After an upgrade that the server
\* refused the decoder waits for the switch for ever, and what the client says is
\* not read any more (h1_parser.rs 222-246).
Refused(t, i) ==
  /\ t.ver = "h1"
  /\ \E j \in 1..i - 1 : t["in"][j].kind = "upgrade"
  /\ ~\E j \in DOMAIN t["out"] : t["out"][j].kind = "switch"

\* HTTP/2 on a stream that is not marked, because the peek did not see the preface or
\* the connection was upgraded to h2c, is unreadable to the decoder it is given to.
Missed(t, d, i) ==
  ~t.marked /\ \E j \in 1..i : t[d][j].kind \notin Requests \cup Responses \cup Frames

\* Once one side has closed a websocket frames are taken for HTTP (h1_parser.rs 258, 283).
Closed(c) == \E d \in Directions : \E i \in Complete(talk[c], d, heard[c][d]) :
               talk[c][d][i].kind = "close"

\* What lies behind a second header block in pieces may wait for more events than one.
Stalled(c, d, i) ==
  /\ talk[c].ver = "h2"
  /\ \E u, v \in Unfinished(talk[c], d) :
       /\ v < u /\ u < i
       /\ \A k \in DOMAIN station[c] : station[c][k].dir = d => station[c][k].msg < u

Hidden(c, d, i) == \/ Misleading(talk[c], d, i) \/ Crossed(talk[c])
                   \/ Stalled(c, d, i)
                   \/ d = "in" /\ Refused(talk[c], i)
                   \/ Missed(talk[c], d, i)
                   \/ Closed(c)

\* But for that, nothing is held back for longer than until the next event of the
\* connection.
NothingHeldBack(c, d) ==
  \A i \in Complete(talk[c], d, before[c][d]) :
    Visible(talk[c][d][i]) /\ ~Hidden(c, d, i)
      => \E k \in DOMAIN station[c] : station[c][k].dir = d /\ station[c][k].msg = i

\* However the bytes are cut into reads and writes, what is shown of a connection that
\* was shown from its start and whose events all arrived, each byte once, is what was
\* said, in order and complete (h1_parser.rs 156, h2_parser.rs 391, managed_stream.rs
\* 783).  The exceptions are named above: what is shown is not vouched for behind a
\* head that misleads (Misleading), where header blocks in pieces cross (Crossed) or,
\* as to its body, come twice (CutTwice); what is not shown may be Hidden, also for
\* HTTP/2 that the peek has missed and for requests after a refused websocket.
ShownIsSent ==
  \A c \in Conns : whole[c] /\ station[c] # None =>
    \A d \in Directions : ShownInOrder(c, d) /\ NothingHeldBack(c, d)

\* An entry belongs to a connection whose stream is there, or its Close is on the
\* way, or was lost; no update brings one back that has gone (proxy.rs 888-945,
\* observer.rs 213).
NoGhosts ==
  \A c \in Conns : station[c] # None =>
    \/ phase[c] \in {"open", "closing"} \/ closeLost[c]
    \/ \E k \in DOMAIN queue : queue[k] = Event(c, "close")
    \/ resetting
=============================================================================
