------------------------------ MODULE Decoders ------------------------------
(***************************************************************************)
(* What the two traffic decoders make of bytes that have gone by           *)
(* (h1_parser.rs, h2_parser.rs).                                           *)
(*                                                                         *)
(* A conversation t has the version it begins in, "h1" or "h2", and two    *)
(* sequences of messages, t["in"] from the client and t["out"] to it:      *)
(* HTTP/1 messages and websocket frames, or HTTP/2 frames.  After an       *)
(* upgrade to h2c what follows the switch is of kind "h2".  A message is   *)
(* len units long, with a unit for what a read or a write may cut off; its *)
(* head says how many units belong to it.  Unit <<d, i, j>> is unit j of   *)
(* t[d][i].  Bytes that are out of step are unreadable here, and header    *)
(* blocks decodable.  t.marked is is_http2 of its stream: the peek has     *)
(* seen the preface of HTTP/2 (managed_stream.rs 383-385); where it gave   *)
(* up before that, the connection is served all the same (proxy.rs 829).   *)
(*                                                                         *)
(* A decoded item is [dir, msg, body]: the message that completed it and   *)
(* the units it is shown with.                                             *)
(***************************************************************************)
EXTENDS Naturals, Sequences, SequencesExt

CONSTANT None

Directions == {"in", "out"}
Other(d)   == IF d = "in" THEN "out" ELSE "in"

\* The units of a message, of the first n messages and of all of a direction.
OwnUnits(t, d, i) == [j \in 1..t[d][i].len |-> <<d, i, j>>]
Units(t, d, n) ==
  LET first[i \in 0..Len(t[d])] ==
        IF i = 0 THEN <<>> ELSE first[i - 1] \o OwnUnits(t, d, i)
  IN  first[n]
AllUnits(t, d) == Units(t, d, Len(t[d]))

\* The messages that lie completely within the first n units.
Complete(t, d, n) == {i \in DOMAIN t[d] : Len(Units(t, d, i)) <= n}

Item(d, i, body) == [dir |-> d, msg |-> i, body |-> body]

\* A decoder's buffer begins with a message, and that message.
InStep(buffer) == buffer # <<>> /\ Head(buffer)[3] = 1
First(t, buffer) == t[Head(buffer)[1]][Head(buffer)[2]]

-----------------------------------------------------------------------------
(***************************************************************************)
(* HTTP/1 and websockets (H1Observer).                                     *)
(***************************************************************************)
NewH1 == [mode |-> "http", in |-> <<>>, out |-> <<>>]

Requests  == {"req", "upgrade"}
Responses == {"resp", "switch"}
Frames    == {"frame", "close"}

\* Mutant: the body may still be on its way.
Readable_HeadIsEnough(t, buffer, kinds) ==
  InStep(buffer) /\ First(t, buffer).kind \in kinds

\* A message of these kinds is there, with the body that its head announces.
Readable(t, buffer, kinds) ==
  /\ InStep(buffer) /\ First(t, buffer).kind \in kinds
  /\ Len(buffer) >= First(t, buffer).says

\* How a message that has been read changes what is read next.
ModeAfter(m, mode) == CASE m.kind = "upgrade" -> "asked"
                        [] m.kind = "switch"  -> "websocket"
                        [] m.kind = "close"   -> "http"
                        [] OTHER              -> mode

Take(t, acc, d) ==
  LET buffer == acc.o[d]
      m    == First(t, buffer)
      size == IF m.says < Len(buffer) THEN m.says ELSE Len(buffer)
  IN  [o     |-> [acc.o EXCEPT ![d] = SubSeq(@, size + 1, Len(@)),
                               !.mode = ModeAfter(m, @)],
       items |-> Append(acc.items, Item(d, Head(buffer)[2], SubSeq(buffer, 1, size)))]

\* One loop of H1Observer::parse, until nothing more can be read.
Again(t, acc, d, kinds) ==
  IF Readable(t, acc.o[d], kinds) THEN Take(t, acc, d) ELSE acc
Loop(t, acc, d, kinds) ==
  LET after[n \in 0..Len(acc.o[d])] ==
        IF n = 0 THEN acc ELSE Again(t, after[n - 1], d, kinds)
  IN  after[Len(acc.o[d])]

\* The mode is looked at once; what it becomes counts for the next event.
ParseH1(t, o) ==
  LET start == [o |-> o, items |-> <<>>] IN
  CASE o.mode = "http"  -> Loop(t, Loop(t, start, "in", Requests), "out", Responses)
    [] o.mode = "asked" -> Loop(t, start, "out", Responses)
    [] OTHER            -> Loop(t, Loop(t, start, "in", Frames), "out", Frames)

-----------------------------------------------------------------------------
(***************************************************************************)
(* HTTP/2 (H2Observer).  A headers frame has the kind of block it starts   *)
(* (head): "regular" with one of the seven known methods, "odd" with       *)
(* another, "status" or "trailer".  streams is a function from the streams *)
(* it has an entry for.                                                    *)
(***************************************************************************)
NewH2 == [in |-> <<>>, out |-> <<>>, prefaced |-> FALSE, streams |-> <<>>,
          partial |-> None]

NewStream == [head |-> None, body |-> <<>>]
StreamOf(o, s) == IF s \in DOMAIN o.streams THEN o.streams[s] ELSE NewStream

\* The stream table with an entry, and without it.
With(o, s, entry) ==
  [o EXCEPT !.streams = [x \in DOMAIN @ \cup {s} |-> IF x = s THEN entry ELSE @[x]]]
Without(o, s) == [o EXCEPT !.streams = [x \in DOMAIN @ \ {s} |-> @[x]]]

\* Nothing is read before the preface is there, and then all of it is.
WriteH2(t, o, d, units) ==
  LET buffer == o[d] \o units
      ready  == InStep(buffer) /\ First(t, buffer).kind = "preface"
                /\ Len(buffer) >= First(t, buffer).len
  IN  IF d = "in" /\ ~o.prefaced /\ ready
      THEN [o EXCEPT ![d] = SubSeq(buffer, First(t, buffer).len + 1, Len(buffer)),
                     !.prefaced = TRUE]
      ELSE [o EXCEPT ![d] = buffer]

FrameIsThere(t, buffer) ==
  /\ InStep(buffer) /\ First(t, buffer).kind # "preface"
  /\ Len(buffer) >= First(t, buffer).len

\* handle_complete_headers: one stream table for both directions.
HeadersDone(o, d, i, s, head, ends) ==
  LET st == [StreamOf(o, s) EXCEPT !.head = head]
      gone == ends /\ head \in (IF d = "in" THEN {"regular"} ELSE {"regular", "status"})
      shown == IF gone \/ (d = "out" /\ head # "trailer") THEN st.body ELSE <<>>
  IN  [o |-> IF gone THEN Without(o, s) ELSE With(o, s, st), item |-> Item(d, i, shown)]

\* handle_data_frame.
DataFrame(t, o, d, i) ==
  LET m  == t[d][i]
      st == [StreamOf(o, m.stream) EXCEPT !.body = @ \o OwnUnits(t, d, i)]
      last == m.ends /\ st.head \in (IF d = "in" THEN {"regular"}
                                     ELSE {"regular", "odd", "status"})
  IN  [o |-> IF last THEN Without(o, m.stream) ELSE With(o, m.stream, st),
       item |-> Item(d, i, IF last /\ d = "out" THEN st.body ELSE OwnUnits(t, d, i))]

\* handle_regular_frame; o is without the frame.
RegularFrame(t, o, d, i) ==
  LET m == t[d][i] IN
  CASE m.kind = "data" -> DataFrame(t, o, d, i)
    [] m.kind = "headers" /\ m.final ->
         HeadersDone(o, d, i, m.stream, m.head, m.ends)
    [] m.kind = "headers" /\ ~m.final ->
         [o |-> [o EXCEPT !.partial = [dir |-> d, stream |-> m.stream, head |-> m.head,
                                       ends |-> m.ends]],
          item |-> None]
    [] OTHER -> [o |-> o, item |-> Item(d, i, OwnUnits(t, d, i))]

\* poll_one_frame: at most one frame, and no event for an unfinished block.
PollOne(t, o, d) ==
  IF ~FrameIsThere(t, o[d]) THEN [o |-> o, item |-> None]
  ELSE
    LET i == Head(o[d])[2]
        m == t[d][i]
        p == o.partial
        rest == [o EXCEPT ![d] = SubSeq(@, m.len + 1, Len(@))]
    IN  IF p # None /\ p.dir = d /\ m.kind = "cont" /\ m.stream = p.stream
        THEN IF m.final
             THEN HeadersDone([rest EXCEPT !.partial = None], d, i, p.stream, p.head, p.ends)
             ELSE [o |-> rest, item |-> None]
        ELSE RegularFrame(t, rest, d, i)

\* poll_next: the client's direction first.
PollNext(t, o) ==
  LET a == PollOne(t, o, "in") IN
  IF a.item # None THEN a ELSE PollOne(t, a.o, "out")

\* Something to show comes of it, or the observer is done for now.
Poll(t, acc) ==
  IF acc.done THEN acc
  ELSE LET b == PollNext(t, acc.o)
       IN  [o |-> b.o, done |-> b.item = None,
            items |-> IF b.item = None THEN acc.items ELSE Append(acc.items, b.item)]

\* The observer polls until there is no event, which an unfinished header block
\* is not, whatever lies behind it.
ParseH2(t, o) ==
  LET after[n \in 0..Len(o["in"]) + Len(o["out"]) + 1] ==
        IF n = 0 THEN [o |-> o, done |-> FALSE, items |-> <<>>] ELSE Poll(t, after[n - 1])
  IN  after[Len(o["in"]) + Len(o["out"]) + 1]
=============================================================================
