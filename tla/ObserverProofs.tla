--------------------------- MODULE ObserverProofs ---------------------------
(***************************************************************************)
(* Proof that inspection shows no ghosts, and that it shows connections    *)
(* over HTTP/1, and over HTTP/2 with whole header blocks, as what was      *)
(* said, for any connections, any conversations and any capacity of the    *)
(* channel.                                                                *)
(*                                                                         *)
(* The second rests on the first's invariant and on three facts about a    *)
(* connection that is shown from its start: the channel holds what has     *)
(* gone by and has not been heard, each unit once and in order (Wire); its *)
(* Close is the last that is heard of it (Told); and decoder and list are  *)
(* what the units heard so far make (Followed, from DecoderProofs).        *)
(***************************************************************************)
EXTENDS DecoderProofs

Events == [conn : Conns, kind : {"open", "update", "close"}]
            \cup [conn : Conns, kind : Directions, from : Int, to : Int]

\* The stream is there, or its Close has been overwritten.
Excused(c) == phase[c] \in {"open", "closing"} \/ closeLost[c]

CloseIn(q, c, k) == \E j \in 1..Len(q) : j > k /\ q[j] = Event(c, "close")

Types ==
  /\ queue \in Seq(Events)
  /\ phase \in [Conns -> {"out", "open", "closing", "gone"}]
  /\ station = [c \in Conns |-> station[c]]
  /\ closeLost \in [Conns -> BOOLEAN]
  /\ tracked = [c \in Conns |-> tracked[c]]
  /\ resetting \in BOOLEAN
  /\ moved \in [Conns -> [Directions -> Int]]

TrackedIsOpen == \A c \in Conns : tracked[c] => phase[c] = "open"

\* An update still in the channel has the Close of its connection behind it, if
\* that is gone.
UpdatesAreFollowed ==
  \A c \in Conns : \A k \in 1..Len(queue) :
    queue[k] = Event(c, "update") => Excused(c) \/ CloseIn(queue, c, k)

EntriesAreExcused ==
  \A c \in Conns :
    station[c] # None => Excused(c) \/ CloseIn(queue, c, 0) \/ resetting

GhostInv == Types /\ TrackedIsOpen /\ UpdatesAreFollowed /\ EntriesAreExcused

-----------------------------------------------------------------------------
\* What a send does to the channel: the new event is last, what was there moves
\* up by at most one place, and a Close that falls out is remembered (the
\* broadcast channel of main.rs, as proxy.rs 911-943 uses it).
LEMMA SendEffect ==
  ASSUME ObserverAssumption, Types, NEW e \in Events, NEW fresh, NEW repeated,
         Send(e, fresh, repeated)
  PROVE  /\ queue' \in Seq(Events)
         /\ closeLost' \in [Conns -> BOOLEAN]
         /\ \A c \in Conns : closeLost[c] => closeLost'[c]
         /\ Len(queue') > 0 /\ queue'[Len(queue')] = e
         /\ \A k \in 1..Len(queue') - 1 :
              \/ Len(queue') = Len(queue) + 1 /\ queue'[k] = queue[k]
              \/ Len(queue') = Len(queue) /\ k + 1 \in 1..Len(queue)
                 /\ queue'[k] = queue[k + 1]
         /\ \A c \in Conns, k \in 0..Len(queue) : CloseIn(queue, c, k) =>
              \/ closeLost'[c] /\ k = 0
              \/ Len(queue') = Len(queue) + 1 /\ CloseIn(queue', c, k)
              \/ /\ Len(queue') = Len(queue)
                 /\ CloseIn(queue', c, IF k = 0 THEN 0 ELSE k - 1)
<1> DEFINE over == Len(queue) = Capacity
           lost == Head(queue)
           rest == IF over THEN Tail(queue) ELSE queue
<1>1. /\ queue \in Seq(Events) /\ closeLost \in [Conns -> BOOLEAN]
      /\ Capacity \in Nat /\ Capacity > 0
  BY DEF Types, ObserverAssumption
<1>2. /\ queue' = Append(rest, e)
      /\ closeLost' = [c \in Conns |->
           closeLost[c] \/ (over /\ lost.conn = c /\ lost.kind = "close")]
  BY DEF Send
<1>3. over => Len(queue) > 0 /\ queue # <<>>
  BY <1>1
<1>4. rest \in Seq(Events)
  BY <1>1, <1>3
<1>5. queue' \in Seq(Events) /\ Len(queue') = Len(rest) + 1 /\ queue'[Len(queue')] = e
      /\ \A k \in 1..Len(rest) : queue'[k] = rest[k]
  BY <1>2, <1>4
<1>6. CASE over
  <2>1. Len(rest) = Len(queue) - 1 /\ \A k \in 1..Len(rest) : rest[k] = queue[k + 1]
    BY <1>1, <1>3, <1>6
  <2>2. Len(queue') = Len(queue) /\ Len(queue) \in Nat
    BY <2>1, <1>5, <1>1
  <2>3. \A k \in 1..Len(queue') - 1 : k + 1 \in 1..Len(queue) /\ queue'[k] = queue[k + 1]
    BY <2>1, <2>2, <1>5
  <2>4. ASSUME NEW c \in Conns, NEW k \in 0..Len(queue), CloseIn(queue, c, k)
        PROVE  \/ closeLost'[c] /\ k = 0
               \/ CloseIn(queue', c, IF k = 0 THEN 0 ELSE k - 1)
    <3>1. PICK j \in 1..Len(queue) : j > k /\ queue[j] = Event(c, "close")
      BY <2>4 DEF CloseIn
    <3>2. CASE j = 1
      <4>1. k = 0 /\ lost = Event(c, "close")
        BY <3>1, <3>2, <2>2, <1>1, <1>3, <1>6
      <4>2. lost.conn = c /\ lost.kind = "close"
        BY <4>1 DEF Event
      <4>3. closeLost'[c]
        BY <4>2, <1>2, <1>6
      <4> QED BY <4>1, <4>3
    <3>3. CASE j # 1
      <4>1. j - 1 \in 1..Len(queue') - 1 /\ j - 1 \in 1..Len(queue')
        BY <3>3, <2>2
      <4>2. queue'[j - 1] = queue[j]
        BY <4>1, <2>3, <2>2
      <4>3. j - 1 > (IF k = 0 THEN 0 ELSE k - 1)
        BY <3>1, <3>3, <2>2
      <4> QED BY <4>1, <4>2, <4>3, <3>1 DEF CloseIn
    <3> QED BY <3>2, <3>3
  <2>5. closeLost' \in [Conns -> BOOLEAN] /\ \A c \in Conns : closeLost[c] => closeLost'[c]
    BY <1>1, <1>2
  <2>6. Len(queue') > 0
    BY <2>2, <1>3, <1>6
  <2> QED BY <2>2, <2>3, <2>4, <2>5, <2>6, <1>5
<1>7. CASE ~over
  <2>1. rest = queue
    BY <1>7
  <2>2. Len(queue') = Len(queue) + 1 /\ Len(queue) \in Nat
        /\ \A k \in 1..Len(queue) : queue'[k] = queue[k]
    BY <2>1, <1>5, <1>1
  <2>3. \A k \in 1..Len(queue') - 1 : queue'[k] = queue[k]
    BY <2>2
  <2>4. ASSUME NEW c \in Conns, NEW k \in 0..Len(queue), CloseIn(queue, c, k)
        PROVE  CloseIn(queue', c, k)
    <3>1. PICK j \in 1..Len(queue) : j > k /\ queue[j] = Event(c, "close")
      BY <2>4 DEF CloseIn
    <3>2. j \in 1..Len(queue') /\ queue'[j] = Event(c, "close")
      BY <3>1, <2>2
    <3> QED BY <3>1, <3>2 DEF CloseIn
  <2>5. closeLost' \in [Conns -> BOOLEAN] /\ \A c \in Conns : closeLost[c] => closeLost'[c]
    BY <1>1, <1>2
  <2> QED BY <2>2, <2>3, <2>4, <2>5, <1>5
<1> QED BY <1>6, <1>7

\* A send keeps the two facts, if it leaves nobody unexcused but the connection
\* whose Close it sends, and gives nobody else an entry.
LEMMA SendKeeps ==
  ASSUME ObserverAssumption, GhostInv, NEW e \in Events, NEW fresh, NEW repeated,
         Send(e, fresh, repeated),
         phase' \in [Conns -> {"out", "open", "closing", "gone"}],
         \A c \in Conns : phase[c] \in {"open", "closing"} =>
           phase'[c] \in {"open", "closing"} \/ e = Event(c, "close"),
         \A c \in Conns : station'[c] # None =>
           station[c] # None \/ phase'[c] \in {"open", "closing"},
         \A c \in Conns : e = Event(c, "update") => phase'[c] \in {"open", "closing"},
         resetting' = resetting
  PROVE  UpdatesAreFollowed' /\ EntriesAreExcused'
<1> USE DEF GhostInv
<1>1. /\ queue' \in Seq(Events)
      /\ \A c \in Conns : closeLost[c] => closeLost'[c]
      /\ Len(queue') > 0 /\ queue'[Len(queue')] = e
      /\ \A k \in 1..Len(queue') - 1 :
           \/ Len(queue') = Len(queue) + 1 /\ queue'[k] = queue[k]
           \/ Len(queue') = Len(queue) /\ k + 1 \in 1..Len(queue)
              /\ queue'[k] = queue[k + 1]
      /\ \A c \in Conns, k \in 0..Len(queue) : CloseIn(queue, c, k) =>
           \/ closeLost'[c] /\ k = 0
           \/ Len(queue') = Len(queue) + 1 /\ CloseIn(queue', c, k)
           \/ /\ Len(queue') = Len(queue)
              /\ CloseIn(queue', c, IF k = 0 THEN 0 ELSE k - 1)
  BY SendEffect
<1>2. Len(queue') \in Nat /\ Len(queue) \in Nat
  BY <1>1 DEF Types
<1>3. ASSUME NEW c \in Conns, Excused(c)
      PROVE  Excused(c)' \/ e = Event(c, "close")
  BY <1>3, <1>1 DEF Excused
<1>4. ASSUME NEW c \in Conns, e = Event(c, "close"), NEW k \in 0..Len(queue') - 1
      PROVE  CloseIn(queue', c, k)
  BY <1>4, <1>1, <1>2 DEF CloseIn
<1>5. UpdatesAreFollowed'
  <2> SUFFICES ASSUME NEW c \in Conns, NEW k \in 1..Len(queue'),
                      queue'[k] = Event(c, "update")
               PROVE  Excused(c)' \/ CloseIn(queue', c, k)
    BY DEF UpdatesAreFollowed
  <2>1. CASE k = Len(queue')
    <3>1. e = Event(c, "update")
      BY <2>1, <1>1
    <3> QED BY <3>1 DEF Excused
  <2>2. CASE k # Len(queue')
    <3>1. k \in 1..Len(queue') - 1 /\ k \in 0..Len(queue') - 1
      BY <2>2, <1>2
    <3>2. CASE Len(queue') = Len(queue) + 1 /\ queue'[k] = queue[k]
      <4>1. k \in 1..Len(queue) /\ k \in 0..Len(queue) /\ k # 0
        BY <3>1, <3>2, <1>2
      <4>2. Excused(c) \/ CloseIn(queue, c, k)
        BY <4>1, <3>2 DEF UpdatesAreFollowed
      <4>3. CASE Excused(c)
        BY <4>3, <1>3, <1>4, <3>1
      <4>4. CASE CloseIn(queue, c, k)
        BY <4>4, <4>1, <3>2, <1>1, <1>2
      <4> QED BY <4>2, <4>3, <4>4
    <3>3. CASE Len(queue') = Len(queue) /\ k + 1 \in 1..Len(queue)
               /\ queue'[k] = queue[k + 1]
      <4>1. k + 1 \in 0..Len(queue) /\ k + 1 # 0 /\ (k + 1) - 1 = k
        BY <3>1, <3>3, <1>2
      <4>2. Excused(c) \/ CloseIn(queue, c, k + 1)
        BY <3>3 DEF UpdatesAreFollowed
      <4>3. CASE Excused(c)
        BY <4>3, <1>3, <1>4, <3>1
      <4>4. CASE CloseIn(queue, c, k + 1)
        BY <4>4, <4>1, <3>3, <1>1, <1>2
      <4> QED BY <4>2, <4>3, <4>4
    <3> QED BY <3>1, <3>2, <3>3, <1>1
  <2> QED BY <2>1, <2>2
<1>6. EntriesAreExcused'
  <2> SUFFICES ASSUME NEW c \in Conns, station'[c] # None
               PROVE  Excused(c)' \/ CloseIn(queue', c, 0) \/ resetting'
    BY DEF EntriesAreExcused
  <2>1. Excused(c)' \/ Excused(c) \/ CloseIn(queue, c, 0) \/ resetting
    BY DEF EntriesAreExcused, Excused
  <2>2. CASE Excused(c)
    <3>1. 0 \in 0..Len(queue') - 1
      BY <1>1, <1>2
    <3> QED BY <3>1, <2>2, <1>3, <1>4
  <2>3. CASE CloseIn(queue, c, 0)
    <3>1. 0 \in 0..Len(queue)
      BY <1>2
    <3>2. closeLost'[c] \/ CloseIn(queue', c, 0)
      BY <3>1, <2>3, <1>1
    <3> QED BY <3>2 DEF Excused
  <2> QED BY <2>1, <2>2, <2>3
<1> QED BY <1>5, <1>6

\* What the observer takes from the channel is its first event: the others move
\* down, and only an entry whose own Close is taken loses it (observer.rs 26-43).
LEMMA TakeEffect ==
  ASSUME Types, queue # <<>>, queue' = Tail(queue)
  PROVE  /\ queue' \in Seq(Events) /\ Len(queue') = Len(queue) - 1
         /\ \A k \in 1..Len(queue') : k + 1 \in 1..Len(queue) /\ queue'[k] = queue[k + 1]
         /\ \A c \in Conns, k \in 1..Len(queue) :
              CloseIn(queue, c, k) => CloseIn(queue', c, k - 1)
         /\ \A c \in Conns : CloseIn(queue, c, 0) =>
              CloseIn(queue', c, 0) \/ Head(queue) = Event(c, "close")
<1>1. queue \in Seq(Events) /\ Len(queue) \in Nat /\ Len(queue) > 0
  BY DEF Types
<1>2. queue' \in Seq(Events) /\ Len(queue') = Len(queue) - 1
      /\ \A k \in 1..Len(queue') : queue'[k] = queue[k + 1]
  BY <1>1
<1>3. \A k \in 1..Len(queue') : k + 1 \in 1..Len(queue)
  BY <1>1, <1>2
<1>4. ASSUME NEW c \in Conns, NEW j \in 1..Len(queue), j > 1,
             queue[j] = Event(c, "close")
      PROVE  j - 1 \in 1..Len(queue') /\ queue'[j - 1] = Event(c, "close")
  <2>1. j - 1 \in 1..Len(queue') /\ (j - 1) + 1 = j
    BY <1>4, <1>1, <1>2
  <2> QED BY <2>1, <1>2, <1>4
<1>5. ASSUME NEW c \in Conns, NEW k \in 1..Len(queue), CloseIn(queue, c, k)
      PROVE  CloseIn(queue', c, k - 1)
  <2>1. PICK j \in 1..Len(queue) : j > k /\ queue[j] = Event(c, "close")
    BY <1>5 DEF CloseIn
  <2>2. j > 1 /\ j - 1 > k - 1
    BY <2>1, <1>1
  <2> QED BY <2>1, <2>2, <1>4 DEF CloseIn
<1>6. ASSUME NEW c \in Conns, CloseIn(queue, c, 0)
      PROVE  CloseIn(queue', c, 0) \/ Head(queue) = Event(c, "close")
  <2>1. PICK j \in 1..Len(queue) : queue[j] = Event(c, "close")
    BY <1>6 DEF CloseIn
  <2>2. CASE j = 1
    BY <2>1, <2>2, <1>1
  <2>3. CASE j # 1
    <3>1. j > 1 /\ j - 1 > 0
      BY <2>3, <1>1
    <3> QED BY <3>1, <2>1, <1>4 DEF CloseIn
  <2> QED BY <2>2, <2>3
<1> QED BY <1>2, <1>3, <1>5, <1>6

-----------------------------------------------------------------------------
LEMMA EventTypes ==
  ASSUME NEW c \in Conns
  PROVE  /\ \A k \in {"open", "update", "close"} : Event(c, k) \in Events
         /\ \A d \in Directions, m, n \in Int : Bytes(c, d, m, n) \in Events
         /\ \A d \in Directions, m, n \in Int, b \in Conns, k \in {"update", "close"} :
              Bytes(c, d, m, n) # Event(b, k)
  BY DEF Event, Bytes, Events, Directions

\* One more unit, or n, have gone by.
LEMMA MovedType ==
  ASSUME Types, NEW c \in Conns, NEW d \in Directions, NEW n \in Int,
         moved' = [moved EXCEPT ![c][d] = moved[c][d] + n]
  PROVE  /\ moved[c][d] \in Int
         /\ moved' \in [Conns -> [Directions -> Int]]
<1>1. moved[c] \in [Directions -> Int] /\ moved[c][d] \in Int
  BY DEF Types
<1>2. [moved[c] EXCEPT ![d] = moved[c][d] + n] \in [Directions -> Int]
  BY <1>1
<1>3. moved' = [moved EXCEPT ![c] = [moved[c] EXCEPT ![d] = moved[c][d] + n]]
  OBVIOUS
<1> QED BY <1>1, <1>2, <1>3 DEF Types

\* Every step of a connection keeps the invariant (proxy.rs 888-945,
\* managed_stream.rs 783-918).
LEMMA ConnectionKeeps ==
  ASSUME ObserverAssumption, GhostInv, NEW c \in Conns, Connection(c)
  PROVE  GhostInv'
<1> USE DEF GhostInv
<1>1. CASE Track(c)
  <2>1. Event(c, "open") \in Events
        /\ \A b \in Conns, k \in {"update", "close"} : Event(c, "open") # Event(b, k)
    BY DEF Event, Events
  <2>2. PICK fresh : Send(Event(c, "open"), fresh, {})
    BY <1>1 DEF Track
  <2>3. queue' \in Seq(Events) /\ closeLost' \in [Conns -> BOOLEAN]
    BY <2>1, <2>2, SendEffect
  <2>4. /\ phase' \in [Conns -> {"out", "open", "closing", "gone"}]
        /\ phase'[c] = "open" /\ \A b \in Conns \ {c} : phase'[b] = phase[b]
    BY <1>1 DEF Track, Types
  <2>5. /\ station' = [b \in Conns |-> station'[b]]
        /\ \A b \in Conns \ {c} : station'[b] = station[b]
    BY <1>1 DEF Track, Types
  <2>6. Types'
    BY <1>1, <2>3, <2>4, <2>5 DEF Track, Types
  <2>7. TrackedIsOpen'
    BY <1>1, <2>4 DEF Track, TrackedIsOpen, Types
  <2>8. UpdatesAreFollowed' /\ EntriesAreExcused'
    <3>1. \A b \in Conns : phase[b] \in {"open", "closing"} =>
            phase'[b] \in {"open", "closing"}
      BY <2>4
    <3>2. \A b \in Conns : station'[b] # None =>
            station[b] # None \/ phase'[b] \in {"open", "closing"}
      BY <2>4, <2>5
    <3>3. resetting' = resetting
      BY <1>1 DEF Track
    <3> QED BY <2>1, <2>2, <2>4, <3>1, <3>2, <3>3, SendKeeps
  <2> QED BY <2>6, <2>7, <2>8
<1>2. CASE Update(c)
  <2>1. Event(c, "update") \in Events
        /\ \A b \in Conns : Event(c, "update") = Event(b, "update") => b = c
    BY DEF Event, Events
  <2>2. Send(Event(c, "update"), {}, {}) /\ phase' = phase /\ tracked' = tracked
        /\ station' = station /\ resetting' = resetting /\ moved' = moved
    BY <1>2 DEF Update, shownVars
  <2>3. queue' \in Seq(Events) /\ closeLost' \in [Conns -> BOOLEAN]
    BY <2>1, <2>2, SendEffect
  <2>4. phase[c] = "open"
    BY <1>2 DEF Update, TrackedIsOpen
  <2>5. Types' /\ TrackedIsOpen'
    BY <2>2, <2>3 DEF Types, TrackedIsOpen
  <2>6. UpdatesAreFollowed' /\ EntriesAreExcused'
    BY <2>1, <2>2, <2>4, <2>5, SendKeeps DEF Types
  <2> QED BY <2>5, <2>6
<1>3. ASSUME NEW d \in Directions, NEW m \in Int, NEW n \in Int, NEW repeated,
             NEW k \in Int,
             Send(Bytes(c, d, m, n), {}, repeated),
             moved' = [moved EXCEPT ![c][d] = moved[c][d] + k],
             phase' = phase, tracked' = tracked, station' = station,
             resetting' = resetting
      PROVE  GhostInv'
  <2>1. Bytes(c, d, m, n) \in Events
        /\ \A b \in Conns, x \in {"update", "close"} : Bytes(c, d, m, n) # Event(b, x)
    BY EventTypes
  <2>2. queue' \in Seq(Events) /\ closeLost' \in [Conns -> BOOLEAN]
    BY <2>1, <1>3, SendEffect
  <2>3. Types' /\ TrackedIsOpen'
    BY <1>3, <2>2, MovedType DEF Types, TrackedIsOpen
  <2>4. UpdatesAreFollowed' /\ EntriesAreExcused'
    BY <1>3, <2>1, <2>3, SendKeeps DEF Types
  <2> QED BY <2>3, <2>4
<1>4. ASSUME NEW d \in Directions, NEW n \in 1..MaxPiece, Pass(c, d, n)
      PROVE  GhostInv'
  <2>1. moved[c][d] \in Int /\ n \in Int
    BY DEF Types
  <2>2. moved[c][d] + 1 \in Int /\ moved[c][d] + n \in Int
    BY <2>1
  <2> QED BY <1>3, <1>4, <2>1, <2>2 DEF Pass, shownVars
<1>5. ASSUME NEW d \in Directions, NEW n \in 1..MaxPiece, NEW k \in 1..MaxPiece,
             PassAgain(c, d, n, k)
      PROVE  GhostInv'
  <2> DEFINE from == IF d = "in" THEN moved[c][d] + 1 - k ELSE moved[c][d] + 1
             to   == IF d = "in" THEN moved[c][d] + n ELSE moved[c][d] + n + k
  <2>1. moved[c][d] \in Int /\ n \in Int /\ k \in Int
    BY DEF Types
  <2>2. from \in Int /\ to \in Int
    BY <2>1
  <2>3. Send(Bytes(c, d, from, to), {}, {c})
        /\ moved' = [moved EXCEPT ![c][d] = moved[c][d] + n]
        /\ phase' = phase /\ tracked' = tracked /\ station' = station
        /\ resetting' = resetting
    BY <1>5 DEF PassAgain, shownVars
  <2> HIDE DEF from, to
  <2> QED BY <1>3, <2>1, <2>2, <2>3
<1>6. CASE Forget(c)
  <2>1. /\ phase' \in [Conns -> {"out", "open", "closing", "gone"}]
        /\ phase'[c] = "closing" /\ \A b \in Conns \ {c} : phase'[b] = phase[b]
        /\ queue' = queue /\ closeLost' = closeLost /\ station' = station
        /\ resetting' = resetting /\ moved' = moved
    BY <1>6 DEF Forget, Types, shownVars
  <2>2. Types' /\ TrackedIsOpen'
    BY <1>6, <2>1 DEF Forget, Types, TrackedIsOpen
  <2>3. \A b \in Conns : Excused(b) => Excused(b)'
    BY <2>1 DEF Excused
  <2>4. UpdatesAreFollowed' /\ EntriesAreExcused'
    BY <2>1, <2>3 DEF UpdatesAreFollowed, EntriesAreExcused
  <2> QED BY <2>2, <2>4
<1>7. CASE Tell(c)
  <2>1. Event(c, "close") \in Events /\ \A b \in Conns : Event(c, "close") # Event(b, "update")
    BY DEF Event, Events
  <2>2. /\ phase' \in [Conns -> {"out", "open", "closing", "gone"}]
        /\ \A b \in Conns \ {c} : phase'[b] = phase[b]
        /\ phase[c] = "closing"
        /\ Send(Event(c, "close"), {}, {}) /\ tracked' = tracked
        /\ station' = station /\ resetting' = resetting /\ moved' = moved
    BY <1>7 DEF Tell, Types, shownVars
  <2>3. queue' \in Seq(Events) /\ closeLost' \in [Conns -> BOOLEAN]
    BY <2>1, <2>2, SendEffect
  <2>4. Types'
    BY <2>2, <2>3 DEF Types
  <2>5. TrackedIsOpen'
    <3>1. ~tracked[c]
      BY <2>2 DEF TrackedIsOpen
    <3> QED BY <3>1, <2>2 DEF TrackedIsOpen
  <2>6. \A b \in Conns : phase[b] \in {"open", "closing"} =>
          phase'[b] \in {"open", "closing"} \/ Event(c, "close") = Event(b, "close")
    BY <2>2
  <2>7. UpdatesAreFollowed' /\ EntriesAreExcused'
    BY <2>1, <2>2, <2>6, SendKeeps
  <2> QED BY <2>4, <2>5, <2>7
<1> QED BY <1>1, <1>2, <1>4, <1>5, <1>6, <1>7 DEF Connection

\* Taking the first event keeps the invariant, if it takes the entry of a
\* connection with its Close, makes one only for an update, or leaves a reset.
LEMMA TakeKeeps ==
  ASSUME GhostInv, queue # <<>>, queue' = Tail(queue),
         phase' = phase, tracked' = tracked, moved' = moved, closeLost' = closeLost,
         resetting' \in BOOLEAN,
         station' = [c \in Conns |-> station'[c]],
         \A c \in Conns : station'[c] # None =>
           \/ resetting'
           \/ /\ Head(queue) # Event(c, "close")
              /\ ~resetting
              /\ station[c] # None \/ Head(queue) = Event(c, "update")
  PROVE  GhostInv'
<1> USE DEF GhostInv
<1>1. /\ queue' \in Seq(Events) /\ Len(queue') = Len(queue) - 1
      /\ \A k \in 1..Len(queue') : k + 1 \in 1..Len(queue) /\ queue'[k] = queue[k + 1]
      /\ \A c \in Conns, k \in 1..Len(queue) :
           CloseIn(queue, c, k) => CloseIn(queue', c, k - 1)
      /\ \A c \in Conns : CloseIn(queue, c, 0) =>
           CloseIn(queue', c, 0) \/ Head(queue) = Event(c, "close")
  BY TakeEffect
<1>2. Types' /\ TrackedIsOpen'
  BY <1>1 DEF Types, TrackedIsOpen
<1>3. \A c \in Conns : Excused(c)' = Excused(c)
  BY DEF Excused
<1>4. UpdatesAreFollowed'
  <2> SUFFICES ASSUME NEW c \in Conns, NEW k \in 1..Len(queue'),
                      queue'[k] = Event(c, "update")
               PROVE  Excused(c)' \/ CloseIn(queue', c, k)
    BY DEF UpdatesAreFollowed
  <2>1. k + 1 \in 1..Len(queue) /\ queue[k + 1] = Event(c, "update") /\ (k + 1) - 1 = k
    BY <1>1
  <2>2. Excused(c) \/ CloseIn(queue, c, k + 1)
    BY <2>1 DEF UpdatesAreFollowed
  <2>3. CloseIn(queue, c, k + 1) => CloseIn(queue', c, (k + 1) - 1)
    BY <2>1, <1>1
  <2> QED BY <2>1, <2>2, <2>3, <1>3
<1>5. EntriesAreExcused'
  <2> SUFFICES ASSUME NEW c \in Conns, station'[c] # None, ~resetting'
               PROVE  Excused(c)' \/ CloseIn(queue', c, 0)
    BY DEF EntriesAreExcused
  <2>1. Head(queue) # Event(c, "close") /\ ~resetting
    OBVIOUS
  <2>2. CASE station[c] # None
    <3>1. Excused(c) \/ CloseIn(queue, c, 0)
      BY <2>1, <2>2 DEF EntriesAreExcused
    <3> QED BY <3>1, <2>1, <1>1, <1>3
  <2>3. CASE Head(queue) = Event(c, "update")
    <3>1. Len(queue) \in Nat /\ Len(queue) > 0 /\ 1 \in 1..Len(queue)
          /\ queue[1] = Event(c, "update")
      BY <2>3 DEF Types
    <3>2. Excused(c) \/ CloseIn(queue, c, 1)
      BY <3>1 DEF UpdatesAreFollowed
    <3>3. CloseIn(queue, c, 1) => CloseIn(queue', c, 0)
      BY <3>1, <1>1
    <3> QED BY <3>2, <3>3, <1>3
  <2> QED BY <2>2, <2>3
<1> QED BY <1>2, <1>4, <1>5

\* Every step of the observer keeps the invariant (observer.rs 26-43, 166-345).
LEMMA ObservingKeeps ==
  ASSUME GhostInv, Observing
  PROVE  GhostInv'
<1>1. CASE FindOff
  <2>1. queue # <<>> /\ queue' = Tail(queue) /\ phase' = phase /\ tracked' = tracked
        /\ moved' = moved /\ closeLost' = closeLost /\ resetting' = TRUE
        /\ station' = station
    BY <1>1 DEF FindOff, wireVars, shownVars
  <2>2. station' = [c \in Conns |-> station'[c]]
    BY <2>1 DEF GhostInv, Types
  <2> QED BY <2>1, <2>2, TakeKeeps
<1>2. CASE Reset
  <2>1. queue' = queue /\ phase' = phase /\ tracked' = tracked /\ moved' = moved
        /\ closeLost' = closeLost /\ resetting' = FALSE
        /\ station' = [c \in Conns |-> None]
    BY <1>2 DEF Reset, wireVars
  <2>2. station' = [c \in Conns |-> station'[c]] /\ \A c \in Conns : station'[c] = None
    BY <2>1
  <2>3. Types' /\ TrackedIsOpen'
    BY <2>1, <2>2 DEF GhostInv, Types, TrackedIsOpen
  <2>4. UpdatesAreFollowed' /\ EntriesAreExcused'
    BY <2>1, <2>2 DEF GhostInv, UpdatesAreFollowed, EntriesAreExcused, Excused
  <2> QED BY <2>3, <2>4 DEF GhostInv
<1>3. ASSUME NEW e, Receive(e)
      PROVE  /\ queue # <<>> /\ queue' = Tail(queue) /\ e = Head(queue)
             /\ phase' = phase /\ tracked' = tracked /\ moved' = moved
             /\ closeLost' = closeLost /\ resetting' = resetting /\ ~resetting
             /\ resetting' \in BOOLEAN
  BY <1>3 DEF Receive, wireVars, GhostInv, Types
<1>4. ASSUME NEW c \in Conns, Receive(Event(c, "open")), UNCHANGED shownVars
      PROVE  GhostInv'
  <2>1. \A b \in Conns : Event(c, "open") # Event(b, "close")
    BY DEF Event
  <2>2. station' = station /\ station' = [b \in Conns |-> station'[b]]
    BY <1>4 DEF shownVars, GhostInv, Types
  <2> QED BY <1>3, <1>4, <2>1, <2>2, TakeKeeps
<1>5. ASSUME NEW c \in Conns, Receive(Event(c, "update")),
             station' = [station EXCEPT ![c] = IF @ = None THEN <<>> ELSE @]
      PROVE  GhostInv'
  <2>1. \A b \in Conns : Event(c, "update") # Event(b, "close")
    BY DEF Event
  <2>2. station' = [b \in Conns |-> station'[b]]
        /\ \A b \in Conns : station'[b] # None => station[b] # None \/ b = c
    BY <1>5 DEF GhostInv, Types
  <2> QED BY <1>3, <1>5, <2>1, <2>2, TakeKeeps
<1>6. ASSUME NEW c \in Conns, NEW d \in Directions, NEW items,
             Head(queue).kind = d, Receive(Head(queue)),
             station' = [station EXCEPT ![c] = Shown(c, d, items)]
      PROVE  GhostInv'
  <2>1. \A b \in Conns : Head(queue) # Event(b, "close")
    BY <1>6 DEF Event, Directions
  <2>2. station[c] = None => Shown(c, d, items) = None
    BY DEF Shown
  <2>3. station' = [b \in Conns |-> station'[b]]
        /\ \A b \in Conns : station'[b] # None => station[b] # None
    BY <1>6, <2>2 DEF GhostInv, Types
  <2> QED BY <1>3, <1>6, <2>1, <2>3, TakeKeeps
<1>7. ASSUME NEW c \in Conns, Receive(Event(c, "close")),
             station' = [station EXCEPT ![c] = None]
      PROVE  GhostInv'
  <2>1. \A b \in Conns : Event(c, "close") = Event(b, "close") => b = c
    BY DEF Event
  <2>2. station' = [b \in Conns |-> station'[b]]
        /\ \A b \in Conns : station'[b] # None => station[b] # None /\ b # c
    BY <1>7 DEF GhostInv, Types
  <2> QED BY <1>3, <1>7, <2>1, <2>2, TakeKeeps
<1>8. CASE HearBytes
  <2>1. PICK c \in Conns, d \in Directions :
          /\ Head(queue).kind = d /\ Receive(Head(queue))
          /\ station' = [station EXCEPT ![c] =
               Shown(c, d, Decoded(c, d, Carried(c, Head(queue))).items)]
    BY <1>8 DEF HearBytes
  <2> QED BY <2>1, <1>6
<1>9. CASE HearOpen
  BY <1>4, <1>9 DEF HearOpen
<1>10. CASE HearUpdate
  BY <1>5, <1>10 DEF HearUpdate
<1>11. CASE HearClose
  BY <1>7, <1>11 DEF HearClose
<1> QED BY <1>1, <1>2, <1>8, <1>9, <1>10, <1>11 DEF Observing

-----------------------------------------------------------------------------
\* No entry is there at first.
LEMMA GhostInit ==
  ASSUME Init PROVE GhostInv
<1>1. queue = <<>> /\ queue \in Seq(Events) /\ Len(queue) = 0
  BY DEF Init
<1>2. Nowhere \in [Directions -> Int]
  BY DEF Nowhere, Directions
<1>3. Types
  BY <1>1, <1>2 DEF Init, Types
<1>4. TrackedIsOpen /\ EntriesAreExcused
  BY DEF Init, TrackedIsOpen, EntriesAreExcused
<1>5. UpdatesAreFollowed
  BY <1>1 DEF UpdatesAreFollowed
<1> QED
  BY <1>3, <1>4, <1>5 DEF GhostInv

\* The key of the terminal interface changes nothing that the invariant is about.
LEMMA GhostIdle ==
  ASSUME GhostInv, Toggle \/ UNCHANGED vars
  PROVE  GhostInv'
<1>1. queue' = queue /\ phase' = phase /\ tracked' = tracked /\ moved' = moved
      /\ closeLost' = closeLost /\ resetting' = resetting /\ station' = station
  BY DEF Toggle, vars, wireVars, shownVars
<1> QED
  BY <1>1 DEF GhostInv, Types, TrackedIsOpen, UpdatesAreFollowed, EntriesAreExcused, Excused

\* An entry of the monitoring station belongs to a connection whose stream is
\* there, or its Close is on the way or was lost, for any connections, any
\* conversations and any capacity (proxy.rs 888-945, observer.rs 26-43, 213).
THEOREM NoGhostsCorrect == Spec => []NoGhosts
<1>1. ObserverAssumption
  BY ObserverAssumption
<1>2. Init => GhostInv
  BY GhostInit
<1>3. GhostInv /\ [Next]_vars => GhostInv'
  <2> SUFFICES ASSUME GhostInv, [Next]_vars PROVE GhostInv'
    OBVIOUS
  <2>1. CASE \E c \in Conns : Connection(c)
    BY <2>1, <1>1, ConnectionKeeps
  <2>2. CASE Toggle \/ UNCHANGED vars
    BY <2>2, GhostIdle
  <2>3. CASE Observing
    BY <2>3, ObservingKeeps
  <2> QED BY <2>1, <2>2, <2>3 DEF Next
<1>4. GhostInv => NoGhosts
  <2> SUFFICES ASSUME GhostInv, NEW c \in Conns, station[c] # None
               PROVE  \/ phase[c] \in {"open", "closing"} \/ closeLost[c]
                      \/ \E k \in DOMAIN queue : queue[k] = Event(c, "close")
                      \/ resetting
    BY DEF NoGhosts
  <2>1. Excused(c) \/ CloseIn(queue, c, 0) \/ resetting
    BY DEF GhostInv, EntriesAreExcused
  <2>2. DOMAIN queue = 1..Len(queue)
    BY DEF GhostInv, Types
  <2> QED BY <2>1, <2>2 DEF Excused, CloseIn
<1> QED BY <1>2, <1>3, <1>4, PTL DEF Spec

-----------------------------------------------------------------------------
(***************************************************************************)
(* The channel between what has gone by and what has been heard.           *)
(***************************************************************************)
\* Event k of the channel tells of bytes of a direction.
Said(q, c, d, k) == q[k].conn = c /\ q[k].kind = d

\* What has not been heard is in the channel, each unit once and in order.
Gapless(q, c, d, h, m) ==
  /\ h \in Nat /\ m \in Nat /\ h <= m
  /\ \A n \in h + 1..m : \E k \in 1..Len(q) : Said(q, c, d, k) /\ q[k].from <= n /\ n <= q[k].to
  /\ \A k \in 1..Len(q) : Said(q, c, d, k) =>
       h < q[k].from /\ q[k].from <= q[k].to /\ q[k].to <= m
  /\ \A j, k \in 1..Len(q) : j < k /\ Said(q, c, d, j) /\ Said(q, c, d, k) => q[j].to < q[k].from

\* What a message answers has been heard, or is in the channel before it.
Answers(q, c, t, d, g) ==
  \A k \in 1..Len(q) : Said(q, c, d, k) =>
    \A i \in 1..Len(t[d]) : End(t, d, i - 1) < q[k].to /\ t[d][i].after # 0 =>
      /\ t[d][i].after \in 1..Len(t[Other(d)])
      /\ \/ End(t, Other(d), t[d][i].after) <= g
         \/ \E j \in 1..k - 1 : Said(q, c, Other(d), j)
                                /\ End(t, Other(d), t[d][i].after) <= q[j].to

\* The units that an event tells of.
LEMMA EventNumbers ==
  ASSUME NEW q \in Seq(Events), NEW c, NEW d \in Directions
  PROVE  \A k \in 1..Len(q) : Said(q, c, d, k) => q[k].from \in Int /\ q[k].to \in Int
<1> TAKE k \in 1..Len(q)
<1>1. q[k] \in Events
  BY ElementOfSeq
<1> QED
  BY <1>1 DEF Said, Events, Directions

\* The first event is taken, and does not tell of these bytes.
LEMMA TailKeeps ==
  ASSUME NEW q \in Seq(Events), q # <<>>, NEW c, NEW d \in Directions, ~Said(q, c, d, 1),
         NEW h, NEW m, Gapless(q, c, d, h, m)
  PROVE  Gapless(Tail(q), c, d, h, m)
<1> DEFINE p == Tail(q)
<1>1. /\ Len(p) = Len(q) - 1 /\ Len(q) \in Nat /\ Len(p) \in Nat
      /\ \A k \in 1..Len(p) : p[k] = q[k + 1] /\ k + 1 \in 1..Len(q)
  BY HeadTailProperties
<1>2. h \in Nat /\ m \in Nat /\ h <= m
  BY DEF Gapless
<1> HIDE DEF p
<1>3. \A k \in 1..Len(p) : Said(p, c, d, k) <=> Said(q, c, d, k + 1)
  BY <1>1 DEF Said
<1>4. ASSUME NEW n \in h + 1..m
      PROVE  \E k \in 1..Len(p) : Said(p, c, d, k) /\ p[k].from <= n /\ n <= p[k].to
  <2>1. PICK k \in 1..Len(q) : Said(q, c, d, k) /\ q[k].from <= n /\ n <= q[k].to
    BY <1>4 DEF Gapless
  <2>2. k # 1
    BY <2>1
  <2>3. k - 1 \in 1..Len(p) /\ (k - 1) + 1 = k
    BY <1>1, <2>2
  <2>4. p[k - 1] = q[k] /\ Said(p, c, d, k - 1)
    BY <1>1, <1>3, <2>1, <2>3
  <2> QED
    BY <2>1, <2>3, <2>4
<1>5. ASSUME NEW k \in 1..Len(p), Said(p, c, d, k)
      PROVE  h < p[k].from /\ p[k].from <= p[k].to /\ p[k].to <= m
  BY <1>1, <1>3, <1>5 DEF Gapless
<1>6. ASSUME NEW j \in 1..Len(p), NEW k \in 1..Len(p), j < k, Said(p, c, d, j), Said(p, c, d, k)
      PROVE  p[j].to < p[k].from
  <2>1. j + 1 \in 1..Len(q) /\ k + 1 \in 1..Len(q) /\ j + 1 < k + 1
        /\ Said(q, c, d, j + 1) /\ Said(q, c, d, k + 1)
    BY <1>1, <1>3, <1>6
  <2>2. q[j + 1].to < q[k + 1].from
    BY <2>1 DEF Gapless
  <2> QED
    BY <1>1, <2>2
<1> QED
  BY <1>2, <1>4, <1>5, <1>6 DEF Gapless, p

\* Nor anything of the other direction.
LEMMA TailAnswers ==
  ASSUME NEW q \in Seq(Events), q # <<>>, NEW c, NEW t, NEW d \in Directions, NEW g,
         ~Said(q, c, Other(d), 1), Answers(q, c, t, d, g)
  PROVE  Answers(Tail(q), c, t, d, g)
<1> DEFINE p == Tail(q)
<1>1. /\ Len(p) = Len(q) - 1 /\ Len(q) \in Nat /\ Len(p) \in Nat
      /\ \A k \in 1..Len(p) : p[k] = q[k + 1] /\ k + 1 \in 1..Len(q)
  BY HeadTailProperties
<1> HIDE DEF p
<1>2. \A e : \A k \in 1..Len(p) : Said(p, c, e, k) <=> Said(q, c, e, k + 1)
  BY <1>1 DEF Said
<1>3. ASSUME NEW k \in 1..Len(p), Said(p, c, d, k), NEW i \in 1..Len(t[d]),
             End(t, d, i - 1) < p[k].to, t[d][i].after # 0
      PROVE  /\ t[d][i].after \in 1..Len(t[Other(d)])
             /\ \/ End(t, Other(d), t[d][i].after) <= g
                \/ \E j \in 1..k - 1 : Said(p, c, Other(d), j)
                                       /\ End(t, Other(d), t[d][i].after) <= p[j].to
  <2> DEFINE a == t[d][i].after
             b == End(t, Other(d), a)
  <2>1. k + 1 \in 1..Len(q) /\ Said(q, c, d, k + 1) /\ p[k] = q[k + 1] /\ (k + 1) - 1 = k
    BY <1>1, <1>2, <1>3
  <2>2. /\ a \in 1..Len(t[Other(d)])
        /\ b <= g \/ \E j \in 1..(k + 1) - 1 : Said(q, c, Other(d), j) /\ b <= q[j].to
    BY <1>3, <2>1 DEF Answers
  <2> HIDE DEF a, b
  <2>3. ASSUME NEW j \in 1..(k + 1) - 1, Said(q, c, Other(d), j), b <= q[j].to
        PROVE  \E l \in 1..k - 1 : Said(p, c, Other(d), l) /\ b <= p[l].to
    <3>1. j # 1
      BY <2>3
    <3>2. j - 1 \in 1..k - 1 /\ j - 1 \in 1..Len(p) /\ (j - 1) + 1 = j
      BY <1>1, <3>1
    <3>3. p[j - 1] = q[j] /\ Said(p, c, Other(d), j - 1)
      BY <1>1, <1>2, <2>3, <3>2
    <3> QED
      BY <2>3, <3>2, <3>3
  <2> QED
    BY <2>2, <2>3 DEF a, b
<1> QED
  BY <1>3 DEF Answers, p

\* An event is sent that does not tell of these bytes.
LEMMA AppendKeeps ==
  ASSUME NEW q \in Seq(Events), NEW x \in Events, NEW c, NEW d \in Directions,
         ~(x.conn = c /\ x.kind = d), NEW h, NEW m, Gapless(q, c, d, h, m)
  PROVE  Gapless(Append(q, x), c, d, h, m)
<1> DEFINE p == Append(q, x)
<1>1. /\ Len(p) = Len(q) + 1 /\ Len(q) \in Nat /\ p[Len(q) + 1] = x
      /\ \A k \in 1..Len(q) : p[k] = q[k] /\ k \in 1..Len(p)
  BY AppendProperties
<1> HIDE DEF p
<1>2. ASSUME NEW k \in 1..Len(p), Said(p, c, d, k) PROVE k \in 1..Len(q) /\ p[k] = q[k] /\ Said(q, c, d, k)
  <2>1. k # Len(q) + 1
    BY <1>1, <1>2 DEF Said
  <2> QED
    BY <1>1, <1>2, <2>1 DEF Said
<1>3. ASSUME NEW k \in 1..Len(q), Said(q, c, d, k) PROVE k \in 1..Len(p) /\ p[k] = q[k] /\ Said(p, c, d, k)
  BY <1>1, <1>3 DEF Said
<1> QED
  BY <1>2, <1>3 DEF Gapless, p

\* Nor did that one need an answer.
LEMMA AppendAnswers ==
  ASSUME NEW q \in Seq(Events), NEW x \in Events, NEW c, NEW t, NEW d \in Directions, NEW g,
         ~(x.conn = c /\ x.kind = d), Answers(q, c, t, d, g)
  PROVE  Answers(Append(q, x), c, t, d, g)
<1> DEFINE p == Append(q, x)
<1>1. /\ Len(p) = Len(q) + 1 /\ Len(q) \in Nat /\ p[Len(q) + 1] = x
      /\ \A k \in 1..Len(q) : p[k] = q[k] /\ k \in 1..Len(p)
  BY AppendProperties
<1> HIDE DEF p
<1>2. ASSUME NEW k \in 1..Len(p), Said(p, c, d, k)
      PROVE  k \in 1..Len(q) /\ p[k] = q[k] /\ Said(q, c, d, k) /\ \A j \in 1..k - 1 : p[j] = q[j]
  <2>1. k # Len(q) + 1
    BY <1>1, <1>2 DEF Said
  <2>2. k \in 1..Len(q) /\ \A j \in 1..k - 1 : j \in 1..Len(q)
    BY <1>1, <2>1
  <2> QED
    BY <1>1, <1>2, <2>2 DEF Said
<1>3. ASSUME NEW k \in 1..Len(p), Said(p, c, d, k), NEW i \in 1..Len(t[d]),
             End(t, d, i - 1) < p[k].to, t[d][i].after # 0
      PROVE  /\ t[d][i].after \in 1..Len(t[Other(d)])
             /\ \/ End(t, Other(d), t[d][i].after) <= g
                \/ \E j \in 1..k - 1 : Said(p, c, Other(d), j)
                                       /\ End(t, Other(d), t[d][i].after) <= p[j].to
  <2> DEFINE a == t[d][i].after
             b == End(t, Other(d), a)
  <2>1. k \in 1..Len(q) /\ p[k] = q[k] /\ Said(q, c, d, k) /\ \A j \in 1..k - 1 : p[j] = q[j]
    BY <1>2, <1>3
  <2>2. /\ a \in 1..Len(t[Other(d)])
        /\ b <= g \/ \E j \in 1..k - 1 : Said(q, c, Other(d), j) /\ b <= q[j].to
    BY <1>3, <2>1 DEF Answers
  <2> HIDE DEF a, b
  <2>3. \A j \in 1..k - 1 : Said(q, c, Other(d), j) => Said(p, c, Other(d), j)
    BY <2>1 DEF Said
  <2> QED
    BY <2>1, <2>2, <2>3 DEF a, b
<1> QED
  BY <1>3 DEF Answers, p

\* The next n units are told of.
LEMMA AppendGrows ==
  ASSUME NEW q \in Seq(Events), NEW x \in Events, NEW c, NEW d \in Directions,
         NEW h, NEW m, NEW n \in Nat \ {0}, Gapless(q, c, d, h, m),
         x.conn = c, x.kind = d, x.from = m + 1, x.to = m + n
  PROVE  Gapless(Append(q, x), c, d, h, m + n)
<1> DEFINE p == Append(q, x)
<1>1. /\ Len(p) = Len(q) + 1 /\ Len(q) \in Nat /\ p[Len(q) + 1] = x
      /\ \A k \in 1..Len(q) : p[k] = q[k] /\ k \in 1..Len(p)
  BY AppendProperties
<1> HIDE DEF p
<1>2. h \in Nat /\ m \in Nat /\ h <= m /\ m + n \in Nat /\ h <= m + n
  BY DEF Gapless
<1>3. ASSUME NEW k \in 1..Len(q)
      PROVE  /\ k \in 1..Len(p) /\ p[k] = q[k] /\ (Said(p, c, d, k) <=> Said(q, c, d, k))
             /\ Said(q, c, d, k) => q[k].from \in Int /\ q[k].to \in Int
  BY <1>1, EventNumbers DEF Said
<1>4. LET k == Len(q) + 1 IN k \in 1..Len(p) /\ Said(p, c, d, k) /\ p[k].from = m + 1 /\ p[k].to = m + n
  BY <1>1 DEF Said
<1>5. ASSUME NEW i \in h + 1..m + n
      PROVE  \E k \in 1..Len(p) : Said(p, c, d, k) /\ p[k].from <= i /\ i <= p[k].to
  <2>1. CASE i <= m
    <3>1. PICK k \in 1..Len(q) : Said(q, c, d, k) /\ q[k].from <= i /\ i <= q[k].to
      <4>1. i \in h + 1..m
        BY <1>2, <2>1
      <4> QED
        BY <4>1 DEF Gapless
    <3> QED
      BY <1>3, <3>1
  <2>2. CASE ~(i <= m)
    <3>1. m + 1 <= i /\ i <= m + n
      BY <1>2, <2>2
    <3> QED
      BY <1>4, <3>1
  <2> QED
    BY <2>1, <2>2
<1>6. ASSUME NEW k \in 1..Len(p), Said(p, c, d, k)
      PROVE  h < p[k].from /\ p[k].from <= p[k].to /\ p[k].to <= m + n
  <2>1. CASE k = Len(q) + 1
    BY <1>2, <1>4, <2>1
  <2>2. CASE k # Len(q) + 1
    <3>1. k \in 1..Len(q)
      BY <1>1, <2>2
    <3>2. h < q[k].from /\ q[k].from <= q[k].to /\ q[k].to <= m /\ q[k].to \in Int
      BY <1>3, <1>6, <3>1 DEF Gapless
    <3> QED
      BY <1>2, <1>3, <3>1, <3>2
  <2> QED
    BY <2>1, <2>2
<1>7. ASSUME NEW j \in 1..Len(p), NEW k \in 1..Len(p), j < k, Said(p, c, d, j), Said(p, c, d, k)
      PROVE  p[j].to < p[k].from
  <2>1. j \in 1..Len(q) /\ p[j] = q[j] /\ Said(q, c, d, j) /\ q[j].to \in Int
    <3>1. j \in 1..Len(q)
      BY <1>1, <1>7
    <3> QED
      BY <1>3, <1>7, <3>1
  <2>2. CASE k = Len(q) + 1
    <3>1. q[j].to <= m
      BY <2>1 DEF Gapless
    <3> QED
      BY <1>2, <1>4, <2>1, <2>2, <3>1
  <2>3. CASE k # Len(q) + 1
    <3>1. k \in 1..Len(q)
      BY <1>1, <2>3
    <3>2. q[j].to < q[k].from
      BY <1>3, <1>7, <2>1, <3>1 DEF Gapless
    <3> QED
      BY <1>3, <2>1, <3>1, <3>2
  <2> QED
    BY <2>2, <2>3
<1> QED
  BY <1>2, <1>5, <1>6, <1>7 DEF Gapless, p

\* What is sent answers what has gone by, which has been heard or is in the channel
\* before it.
LEMMA AppendAnswersOwn ==
  ASSUME NEW t, Spoken(t), NEW q \in Seq(Events), NEW x \in Events, NEW c,
         NEW d \in Directions, NEW g, NEW m, Answers(q, c, t, d, g), Gapless(q, c, Other(d), g, m),
         \A i \in 1..Len(t[d]) : End(t, d, i - 1) < x.to /\ t[d][i].after # 0 =>
           /\ t[d][i].after \in 1..Len(t[Other(d)])
           /\ End(t, Other(d), t[d][i].after) <= m
  PROVE  Answers(Append(q, x), c, t, d, g)
<1> DEFINE p == Append(q, x)
<1>1. /\ Len(p) = Len(q) + 1 /\ Len(q) \in Nat /\ p[Len(q) + 1] = x
      /\ \A k \in 1..Len(q) : p[k] = q[k] /\ k \in 1..Len(p)
  BY AppendProperties
<1> HIDE DEF p
<1>0. Other(d) \in Directions
  BY DEF Other, Directions
<1>2. g \in Nat /\ m \in Nat
  BY DEF Gapless
<1>3. ASSUME NEW k \in 1..Len(p), Said(p, c, d, k), NEW i \in 1..Len(t[d]),
             End(t, d, i - 1) < p[k].to, t[d][i].after # 0
      PROVE  /\ t[d][i].after \in 1..Len(t[Other(d)])
             /\ \/ End(t, Other(d), t[d][i].after) <= g
                \/ \E j \in 1..k - 1 : Said(p, c, Other(d), j)
                                       /\ End(t, Other(d), t[d][i].after) <= p[j].to
  <2> DEFINE a == t[d][i].after
             b == End(t, Other(d), a)
  <2>1. CASE k = Len(q) + 1
    <3>1. a \in 1..Len(t[Other(d)]) /\ b <= m
      BY <1>1, <1>3, <2>1
    <3>2. a \in 0..Len(t[Other(d)])
      BY <3>1
    <3>3. b \in Nat
      BY <1>0, <3>2, UnitsAre
    <3> HIDE DEF b
    <3>4. ASSUME ~(b <= g) PROVE \E j \in 1..k - 1 : Said(p, c, Other(d), j) /\ b <= p[j].to
      <4>1. b \in g + 1..m
        BY <1>2, <3>1, <3>3, <3>4
      <4>2. PICK j \in 1..Len(q) : Said(q, c, Other(d), j) /\ b <= q[j].to
        BY <4>1 DEF Gapless
      <4>3. p[j] = q[j] /\ j \in 1..k - 1 /\ Said(p, c, Other(d), j)
        BY <1>1, <2>1, <4>2 DEF Said
      <4> QED
        BY <4>2, <4>3
    <3> QED
      BY <3>1, <3>4 DEF b
  <2>2. CASE k # Len(q) + 1
    <3>1. k \in 1..Len(q) /\ p[k] = q[k] /\ Said(q, c, d, k) /\ \A j \in 1..k - 1 : p[j] = q[j]
      <4>1. k \in 1..Len(q) /\ \A j \in 1..k - 1 : j \in 1..Len(q)
        BY <1>1, <2>2
      <4> QED
        BY <1>1, <1>3, <4>1 DEF Said
    <3>2. /\ a \in 1..Len(t[Other(d)])
          /\ b <= g \/ \E j \in 1..k - 1 : Said(q, c, Other(d), j) /\ b <= q[j].to
      BY <1>3, <3>1 DEF Answers
    <3> HIDE DEF a, b
    <3>3. \A j \in 1..k - 1 : Said(q, c, Other(d), j) => Said(p, c, Other(d), j)
      BY <3>1 DEF Said
    <3> QED
      BY <3>1, <3>2, <3>3 DEF a, b
  <2> QED
    BY <2>1, <2>2
<1> QED
  BY <1>3 DEF Answers, p

\* The first event is taken, and tells of the next units.
LEMMA HeadIsNext ==
  ASSUME NEW q \in Seq(Events), q # <<>>, NEW c, NEW d \in Directions, Said(q, c, d, 1),
         NEW h, NEW m, Gapless(q, c, d, h, m)
  PROVE  /\ q[1].from = h + 1 /\ q[1].to \in Nat /\ h < q[1].to /\ q[1].to <= m
         /\ Gapless(Tail(q), c, d, q[1].to, m)
<1> DEFINE p == Tail(q)
<1>1. /\ Len(p) = Len(q) - 1 /\ Len(q) \in Nat /\ Len(p) \in Nat /\ 1 \in 1..Len(q)
      /\ \A k \in 1..Len(p) : p[k] = q[k + 1] /\ k + 1 \in 1..Len(q)
  BY HeadTailProperties
<1> HIDE DEF p
<1>2. h \in Nat /\ m \in Nat /\ h <= m
  BY DEF Gapless
<1>3. /\ h < q[1].from /\ q[1].from <= q[1].to /\ q[1].to <= m
      /\ q[1].from \in Int /\ q[1].to \in Int
  BY <1>1, EventNumbers DEF Gapless
<1>4. \A k \in 1..Len(q) : Said(q, c, d, k) => q[k].from \in Int /\ q[k].to \in Int
  BY EventNumbers
<1>5. q[1].from = h + 1
  <2>1. h + 1 \in h + 1..m
    BY <1>2, <1>3
  <2>2. PICK k \in 1..Len(q) : Said(q, c, d, k) /\ q[k].from <= h + 1 /\ h + 1 <= q[k].to
    BY <2>1 DEF Gapless
  <2>3. CASE k = 1
    BY <1>2, <1>3, <2>2, <2>3
  <2>4. CASE k # 1
    <3>1. q[1].to < q[k].from /\ q[k].from \in Int
      BY <1>1, <1>4, <2>2, <2>4 DEF Gapless
    <3> QED
      BY <1>2, <1>3, <2>2, <3>1
  <2> QED
    BY <2>3, <2>4
<1>6. \A k \in 1..Len(p) : Said(p, c, d, k) <=> Said(q, c, d, k + 1)
  BY <1>1 DEF Said
<1> DEFINE g == q[1].to
<1>7. g \in Nat /\ h < g /\ g <= m /\ g \in Int
  BY <1>2, <1>3
<1>8. ASSUME NEW n \in g + 1..m
      PROVE  \E k \in 1..Len(p) : Said(p, c, d, k) /\ p[k].from <= n /\ n <= p[k].to
  <2>0. n \in h + 1..m /\ g < n
    BY <1>2, <1>7
  <2>1. PICK k \in 1..Len(q) : Said(q, c, d, k) /\ q[k].from <= n /\ n <= q[k].to
    BY <2>0 DEF Gapless
  <2>2. k # 1
    BY <1>7, <2>0, <2>1
  <2>3. k - 1 \in 1..Len(p) /\ (k - 1) + 1 = k
    BY <1>1, <2>2
  <2>4. p[k - 1] = q[k] /\ Said(p, c, d, k - 1)
    BY <1>1, <1>6, <2>1, <2>3
  <2> QED
    BY <2>1, <2>3, <2>4
<1>9. ASSUME NEW k \in 1..Len(p), Said(p, c, d, k)
      PROVE  g < p[k].from /\ p[k].from <= p[k].to /\ p[k].to <= m
  <2>1. k + 1 \in 1..Len(q) /\ Said(q, c, d, k + 1) /\ p[k] = q[k + 1] /\ 1 < k + 1
    BY <1>1, <1>6, <1>9
  <2> QED
    BY <1>1, <2>1 DEF Gapless
<1>10. ASSUME NEW j \in 1..Len(p), NEW k \in 1..Len(p), j < k, Said(p, c, d, j), Said(p, c, d, k)
       PROVE  p[j].to < p[k].from
  <2>1. j + 1 \in 1..Len(q) /\ k + 1 \in 1..Len(q) /\ j + 1 < k + 1
        /\ Said(q, c, d, j + 1) /\ Said(q, c, d, k + 1)
    BY <1>1, <1>6, <1>10
  <2>2. q[j + 1].to < q[k + 1].from
    BY <2>1 DEF Gapless
  <2> QED
    BY <1>1, <2>2
<1> HIDE DEF g
<1>11. Gapless(p, c, d, g, m)
  BY <1>2, <1>7, <1>8, <1>9, <1>10 DEF Gapless
<1> QED
  BY <1>5, <1>7, <1>11 DEF g, p

\* What was answered by bytes that were on their way has now been heard.
LEMMA HeadAnswers ==
  ASSUME NEW q \in Seq(Events), q # <<>>, NEW c, NEW t, Spoken(t), NEW d \in Directions, NEW h,
         NEW g, h \in Nat, g \in Nat, h <= g, Said(q, c, Other(d), 1), g = q[1].to,
         Answers(q, c, t, d, h)
  PROVE  Answers(Tail(q), c, t, d, g)
<1> DEFINE p == Tail(q)
<1>1. /\ Len(p) = Len(q) - 1 /\ Len(q) \in Nat /\ Len(p) \in Nat
      /\ \A k \in 1..Len(p) : p[k] = q[k + 1] /\ k + 1 \in 1..Len(q)
  BY HeadTailProperties
<1> HIDE DEF p
<1>0. Other(d) \in Directions
  BY DEF Other, Directions
<1>2. \A e : \A k \in 1..Len(p) : Said(p, c, e, k) <=> Said(q, c, e, k + 1)
  BY <1>1 DEF Said
<1>3. ASSUME NEW k \in 1..Len(p), Said(p, c, d, k), NEW i \in 1..Len(t[d]),
             End(t, d, i - 1) < p[k].to, t[d][i].after # 0
      PROVE  /\ t[d][i].after \in 1..Len(t[Other(d)])
             /\ \/ End(t, Other(d), t[d][i].after) <= g
                \/ \E j \in 1..k - 1 : Said(p, c, Other(d), j)
                                       /\ End(t, Other(d), t[d][i].after) <= p[j].to
  <2> DEFINE a == t[d][i].after
             b == End(t, Other(d), a)
  <2>1. k + 1 \in 1..Len(q) /\ Said(q, c, d, k + 1) /\ p[k] = q[k + 1] /\ (k + 1) - 1 = k
    BY <1>1, <1>2, <1>3
  <2>2. /\ a \in 1..Len(t[Other(d)])
        /\ b <= h \/ \E j \in 1..(k + 1) - 1 : Said(q, c, Other(d), j) /\ b <= q[j].to
    BY <1>3, <2>1 DEF Answers
  <2>n. b \in Nat
    <3>1. a \in 0..Len(t[Other(d)])
      BY <2>2
    <3> QED
      BY <1>0, <3>1, UnitsAre
  <2> HIDE DEF a, b
  <2>3. ASSUME NEW j \in 1..(k + 1) - 1, Said(q, c, Other(d), j), b <= q[j].to, ~(b <= g)
        PROVE  \E l \in 1..k - 1 : Said(p, c, Other(d), l) /\ b <= p[l].to
    <3>1. j # 1
      BY <2>3
    <3>2. j - 1 \in 1..k - 1 /\ j - 1 \in 1..Len(p) /\ (j - 1) + 1 = j
      BY <1>1, <3>1
    <3>3. p[j - 1] = q[j] /\ Said(p, c, Other(d), j - 1)
      BY <1>1, <1>2, <2>3, <3>2
    <3> QED
      BY <2>3, <3>2, <3>3
  <2>4. b <= h => b <= g
    BY <2>n
  <2> QED
    BY <2>2, <2>3, <2>4 DEF a, b
<1> QED
  BY <1>3 DEF Answers, p

\* What the first event answers has been heard.
LEMMA HeadCausal ==
  ASSUME NEW q \in Seq(Events), q # <<>>, NEW c, NEW t, NEW d \in Directions, NEW g,
         Said(q, c, d, 1), Answers(q, c, t, d, g)
  PROVE  \A i \in 1..Len(t[d]) : End(t, d, i - 1) < q[1].to /\ t[d][i].after # 0 =>
           /\ t[d][i].after \in 1..Len(t[Other(d)])
           /\ End(t, Other(d), t[d][i].after) <= g
<1>1. 1 \in 1..Len(q) /\ 1..1 - 1 = {}
  OBVIOUS
<1> QED
  BY <1>1 DEF Answers

\* A message goes out when the one it answers has come in.
LEMMA MaySendIs ==
  ASSUME NEW c, NEW t, t = talk[c], Spoken(t), NEW d \in Directions,
         NEW n \in 0..Total(t, d), MaySend(c, d, n)
  PROVE  \A i \in 1..Len(t[d]) : End(t, d, i - 1) < n /\ t[d][i].after # 0 =>
           /\ t[d][i].after \in 1..Len(t[Other(d)])
           /\ End(t, Other(d), t[d][i].after) <= moved[c][Other(d)]
<1> SUFFICES ASSUME NEW i \in 1..Len(t[d]), End(t, d, i - 1) < n, t[d][i].after # 0
             PROVE  /\ t[d][i].after \in 1..Len(t[Other(d)])
                    /\ End(t, Other(d), t[d][i].after) <= moved[c][Other(d)]
  OBVIOUS
<1>0. Other(d) \in Directions
  BY DEF Other, Directions
<1>1. t[d][i].len \in Nat \ {0} /\ i - 1 \in 0..Len(t[d]) /\ DOMAIN t[Other(d)] = 1..Len(t[Other(d)])
  BY <1>0 DEF Spoken
<1>2. 1 \in 1..t[d][i].len
  BY <1>1
<1>3. AllUnits(t, d)[End(t, d, i - 1) + 1] = <<d, i, 1>>
  BY <1>2, Begins
<1>4. End(t, d, i - 1) \in Nat
  BY <1>1, UnitsAre
<1> DEFINE p == End(t, d, i - 1) + 1
<1>5. p \in 1..n /\ AllUnits(t, d)[p] = <<d, i, 1>>
  BY <1>3, <1>4
<1> HIDE DEF p
<1>6. AllUnits(t, d)[p][2] = i
  BY <1>5
<1>7. t[d][i].after \in {0} \cup Complete(t, Other(d), moved[c][Other(d)])
  BY <1>5, <1>6 DEF MaySend
<1> QED
  BY <1>1, <1>7 DEF Complete, End

\* The channel between what has gone by of a connection and what has been heard.
Wire(q, c, t, h, m) ==
  \A d \in Directions : Gapless(q, c, d, h[d], m[d]) /\ Answers(q, c, t, d, h[Other(d)])

\* There are two directions.
LEMMA OtherIs ==
  ASSUME NEW d \in Directions
  PROVE  /\ Other(d) \in Directions /\ Other(Other(d)) = d /\ Other(d) # d
         /\ \A e \in Directions : e = d \/ e = Other(d)
  BY DEF Other, Directions

\* An event that tells of no bytes of the connection is taken, ...
LEMMA WireTail ==
  ASSUME NEW q \in Seq(Events), q # <<>>, NEW c, NEW t, NEW h, NEW m, Wire(q, c, t, h, m),
         \A d \in Directions : ~Said(q, c, d, 1)
  PROVE  Wire(Tail(q), c, t, h, m)
<1> SUFFICES ASSUME NEW d \in Directions
             PROVE  Gapless(Tail(q), c, d, h[d], m[d]) /\ Answers(Tail(q), c, t, d, h[Other(d)])
  BY DEF Wire
<1>1. Gapless(q, c, d, h[d], m[d]) /\ Answers(q, c, t, d, h[Other(d)])
  BY DEF Wire
<1>2. ~Said(q, c, d, 1) /\ ~Said(q, c, Other(d), 1)
  BY OtherIs
<1> QED
  BY <1>1, <1>2, TailKeeps, TailAnswers

\* ... or sent.
LEMMA WireOther ==
  ASSUME NEW q \in Seq(Events), NEW x \in Events, NEW c, NEW t, NEW h, NEW m,
         Wire(q, c, t, h, m), ~(x.conn = c /\ x.kind \in Directions)
  PROVE  Wire(Append(q, x), c, t, h, m)
<1> SUFFICES ASSUME NEW d \in Directions
             PROVE  /\ Gapless(Append(q, x), c, d, h[d], m[d])
                    /\ Answers(Append(q, x), c, t, d, h[Other(d)])
  BY DEF Wire
<1>1. Gapless(q, c, d, h[d], m[d]) /\ Answers(q, c, t, d, h[Other(d)])
  BY DEF Wire
<1>2. ~(x.conn = c /\ x.kind = d)
  OBVIOUS
<1> QED
  BY <1>1, <1>2, AppendKeeps, AppendAnswers

\* The next n units of a direction go by (managed_stream.rs 783-918).
LEMMA WirePass ==
  ASSUME NEW t, Spoken(t), NEW q \in Seq(Events), NEW x \in Events, NEW c, NEW h, NEW m,
         Wire(q, c, t, h, m), NEW d \in Directions, NEW n \in Nat \ {0},
         x.conn = c, x.kind = d, x.from = m[d] + 1, x.to = m[d] + n,
         \A i \in 1..Len(t[d]) : End(t, d, i - 1) < x.to /\ t[d][i].after # 0 =>
           /\ t[d][i].after \in 1..Len(t[Other(d)])
           /\ End(t, Other(d), t[d][i].after) <= m[Other(d)],
         NEW k, k[d] = m[d] + n, k[Other(d)] = m[Other(d)]
  PROVE  Wire(Append(q, x), c, t, h, k)
<1> SUFFICES ASSUME NEW e \in Directions
             PROVE  /\ Gapless(Append(q, x), c, e, h[e], k[e])
                    /\ Answers(Append(q, x), c, t, e, h[Other(e)])
  BY DEF Wire
<1>1. /\ Gapless(q, c, e, h[e], m[e]) /\ Answers(q, c, t, e, h[Other(e)])
      /\ Gapless(q, c, Other(d), h[Other(d)], m[Other(d)])
  BY OtherIs DEF Wire
<1>2. CASE e = d
  <2>1. Gapless(Append(q, x), c, d, h[d], m[d] + n)
    BY <1>1, <1>2, AppendGrows
  <2>2. Answers(Append(q, x), c, t, d, h[Other(d)])
    BY <1>1, <1>2, AppendAnswersOwn
  <2> QED
    BY <1>2, <2>1, <2>2
<1>3. CASE e # d
  <2>1. e = Other(d) /\ ~(x.conn = c /\ x.kind = e)
    BY <1>3, OtherIs
  <2> QED
    BY <1>1, <2>1, AppendKeeps, AppendAnswers
<1> QED
  BY <1>2, <1>3

\* The first event is heard: it tells of the next units of its direction, and of no
\* message before the one that it answers (observer.rs 229-345).
LEMMA WireHear ==
  ASSUME NEW t, Spoken(t), NEW q \in Seq(Events), q # <<>>, NEW c, NEW h, NEW m,
         Wire(q, c, t, h, m), NEW d \in Directions, Said(q, c, d, 1),
         NEW k, k[d] = q[1].to, k[Other(d)] = h[Other(d)], Causal(t, h)
  PROVE  /\ q[1].from = h[d] + 1 /\ h[d] \in Nat /\ k[d] \in Nat /\ h[d] < k[d] /\ k[d] <= m[d]
         /\ Wire(Tail(q), c, t, k, m) /\ Causal(t, k)
<1> DEFINE g == h[d]
           p == q[1].to
<1>1. /\ \A e \in Directions : Gapless(q, c, e, h[e], m[e]) /\ Answers(q, c, t, e, h[Other(e)])
      /\ Gapless(q, c, d, g, m[d])
  BY DEF Wire
<1>2. /\ q[1].from = g + 1 /\ p \in Nat /\ g < p /\ p <= m[d]
      /\ Gapless(Tail(q), c, d, p, m[d])
  <2> HIDE DEF g
  <2> QED
    BY <1>1, HeadIsNext
<1>3. g \in Nat
  BY <1>1 DEF Gapless
<1>4. ASSUME NEW e \in Directions
      PROVE  Gapless(Tail(q), c, e, k[e], m[e]) /\ Answers(Tail(q), c, t, e, k[Other(e)])
  <2>1. CASE e = d
    <3>1. ~Said(q, c, Other(d), 1)
      BY OtherIs DEF Said
    <3>2. Answers(Tail(q), c, t, d, h[Other(d)])
      BY <1>1, <3>1, TailAnswers
    <3> QED
      BY <1>2, <2>1, <3>2
  <2>2. CASE e # d
    <3>1. e = Other(d) /\ Other(e) = d /\ ~Said(q, c, e, 1)
      BY <2>2, OtherIs DEF Said
    <3>2. Gapless(Tail(q), c, e, h[e], m[e])
      BY <1>1, <3>1, TailKeeps
    <3>3. Answers(q, c, t, e, g) /\ Said(q, c, Other(e), 1)
      BY <1>1, <3>1
    <3>4. Answers(Tail(q), c, t, e, p)
      <4>1. p = q[1].to /\ p \in Nat /\ g \in Nat /\ g <= p
        BY <1>2, <1>3
      <4> HIDE DEF g, p
      <4> QED
        BY <3>3, <4>1, HeadAnswers
    <3> QED
      BY <3>1, <3>2, <3>4
  <2> QED
    BY <2>1, <2>2
<1>5. Causal(t, k)
  <2> SUFFICES ASSUME NEW e \in Directions, NEW i \in 1..Len(t[e]),
                      End(t, e, i - 1) < k[e], t[e][i].after # 0
               PROVE  /\ t[e][i].after \in 1..Len(t[Other(e)])
                      /\ End(t, Other(e), t[e][i].after) <= k[Other(e)]
    BY DEF Causal
  <2>1. CASE e = d
    <3>1. Answers(q, c, t, d, h[Other(d)])
      BY <1>1
    <3>2. /\ t[d][i].after \in 1..Len(t[Other(d)])
          /\ End(t, Other(d), t[d][i].after) <= h[Other(d)]
      BY <2>1, <3>1, HeadCausal
    <3> QED
      BY <2>1, <3>2
  <2>2. CASE e # d
    <3>1. e = Other(d) /\ Other(e) = d
      BY <2>2, OtherIs
    <3> DEFINE a == t[e][i].after
               b == End(t, d, a)
    <3>2. a \in 1..Len(t[d]) /\ b <= g
      BY <3>1 DEF Causal
    <3>3. a \in 0..Len(t[d])
      BY <3>2
    <3>4. b \in Nat
      BY <3>3, UnitsAre
    <3> HIDE DEF b, g, p
    <3>5. b <= p
      BY <1>2, <1>3, <3>2, <3>4
    <3> QED
      BY <3>1, <3>2, <3>5 DEF b, p
  <2> QED
    BY <2>1, <2>2
<1>6. Wire(Tail(q), c, t, k, m)
  BY <1>4 DEF Wire
<1> QED
  BY <1>2, <1>3, <1>5, <1>6

\* The event has been heard.
LEMMA WireHears ==
  ASSUME NEW t, Spoken(t), NEW d \in Directions, NEW h, NEW k, NEW m,
         \A e \in Directions : h[e] \in Nat /\ h[e] <= m[e] /\ m[e] \in 0..Total(t, e),
         k[d] \in Nat, h[d] < k[d], k[d] <= m[d], k[Other(d)] = h[Other(d)],
         Causal(t, h), Causal(t, k)
  PROVE  Hears(t, d, h, k)
<1>1. \A e \in Directions : Total(t, e) \in Nat
  BY AllAre
<1>2. ASSUME NEW e \in Directions PROVE h[e] \in 0..Total(t, e) /\ k[e] \in 0..Total(t, e)
  BY <1>1, OtherIs
<1> QED
  BY <1>2 DEF Hears

-----------------------------------------------------------------------------
(***************************************************************************)
(* Who is in the channel, and who has been told of.                        *)
(***************************************************************************)
\* No event of the connection is in the channel.
Nothing(q, c) == \A k \in 1..Len(q) : q[k].conn # c

\* Its Close is not.
NoClose(q, c) == \A k \in 1..Len(q) : q[k].conn = c => q[k].kind # "close"

\* Its Close is the last.
CloseLast(q, c) ==
  \A j, k \in 1..Len(q) : j < k /\ q[j].conn = c /\ q[k].conn = c => q[j].kind # "close"

\* What can be left when the oldest event may have fallen out.
Trimmed(q, p) == p = q \/ (q # <<>> /\ p = Tail(q))

\* An event falls out, or none does.
LEMMA TrimmedKeeps ==
  ASSUME NEW q \in Seq(Events), NEW p, Trimmed(q, p), NEW c
  PROVE  /\ p \in Seq(Events)
         /\ Nothing(q, c) => Nothing(p, c)
         /\ NoClose(q, c) => NoClose(p, c)
         /\ CloseLast(q, c) => CloseLast(p, c)
         /\ p # q /\ CloseLast(q, c) /\ q[1].conn = c /\ q[1].kind = "close" => Nothing(p, c)
<1>1. CASE p = q
  BY <1>1
<1>2. CASE q # <<>> /\ p = Tail(q)
  <2>1. /\ p \in Seq(Events) /\ Len(p) = Len(q) - 1 /\ Len(q) \in Nat /\ Len(p) \in Nat
        /\ \A k \in 1..Len(p) : p[k] = q[k + 1] /\ k + 1 \in 1..Len(q)
    BY <1>2, HeadTailProperties
  <2>2. 1 \in 1..Len(q)
    BY <1>2
  <2>3. Nothing(q, c) => Nothing(p, c)
    BY <2>1 DEF Nothing
  <2>4. NoClose(q, c) => NoClose(p, c)
    BY <2>1 DEF NoClose
  <2>5. ASSUME CloseLast(q, c) PROVE CloseLast(p, c)
    <3> SUFFICES ASSUME NEW j \in 1..Len(p), NEW k \in 1..Len(p), j < k, p[j].conn = c, p[k].conn = c
                 PROVE  p[j].kind # "close"
      BY DEF CloseLast
    <3>1. j + 1 \in 1..Len(q) /\ k + 1 \in 1..Len(q) /\ j + 1 < k + 1
          /\ p[j] = q[j + 1] /\ p[k] = q[k + 1]
      BY <2>1
    <3> QED
      BY <2>5, <3>1 DEF CloseLast
  <2>6. ASSUME CloseLast(q, c), q[1].conn = c, q[1].kind = "close" PROVE Nothing(p, c)
    <3> SUFFICES ASSUME NEW k \in 1..Len(p), p[k].conn = c PROVE FALSE
      BY DEF Nothing
    <3>1. k + 1 \in 1..Len(q) /\ 1 < k + 1 /\ q[k + 1].conn = c
      BY <2>1
    <3> QED
      BY <2>2, <2>6, <3>1 DEF CloseLast
  <2> QED
    BY <2>1, <2>3, <2>4, <2>5, <2>6
<1> QED
  BY <1>1, <1>2 DEF Trimmed

\* One more event is sent.
LEMMA AppendedKeeps ==
  ASSUME NEW q \in Seq(Events), NEW x \in Events, NEW c
  PROVE  /\ Append(q, x) \in Seq(Events)
         /\ x.conn # c /\ Nothing(q, c) => Nothing(Append(q, x), c)
         /\ ~(x.conn = c /\ x.kind = "close") /\ NoClose(q, c) => NoClose(Append(q, x), c)
         /\ x.conn # c /\ CloseLast(q, c) => CloseLast(Append(q, x), c)
         /\ NoClose(q, c) => CloseLast(Append(q, x), c)
<1> DEFINE p == Append(q, x)
<1>1. /\ p \in Seq(Events) /\ Len(p) = Len(q) + 1 /\ Len(q) \in Nat /\ p[Len(q) + 1] = x
      /\ \A k \in 1..Len(q) : p[k] = q[k] /\ k \in 1..Len(p)
  BY AppendProperties
<1> HIDE DEF p
<1>2. \A k \in 1..Len(p) : k \in 1..Len(q) \/ k = Len(q) + 1
  BY <1>1
<1>3. x.conn # c /\ Nothing(q, c) => Nothing(p, c)
  BY <1>1, <1>2 DEF Nothing
<1>4. ~(x.conn = c /\ x.kind = "close") /\ NoClose(q, c) => NoClose(p, c)
  BY <1>1, <1>2 DEF NoClose
<1>5. ASSUME x.conn # c, CloseLast(q, c) PROVE CloseLast(p, c)
  <2> SUFFICES ASSUME NEW j \in 1..Len(p), NEW k \in 1..Len(p), j < k, p[j].conn = c, p[k].conn = c
               PROVE  p[j].kind # "close"
    BY DEF CloseLast
  <2>1. j \in 1..Len(q) /\ k \in 1..Len(q) /\ p[j] = q[j] /\ p[k] = q[k]
    BY <1>1, <1>2, <1>5
  <2> QED
    BY <1>5, <2>1 DEF CloseLast
<1>6. ASSUME NoClose(q, c) PROVE CloseLast(p, c)
  <2> SUFFICES ASSUME NEW j \in 1..Len(p), NEW k \in 1..Len(p), j < k, p[j].conn = c, p[k].conn = c
               PROVE  p[j].kind # "close"
    BY DEF CloseLast
  <2>1. j \in 1..Len(q) /\ p[j] = q[j]
    BY <1>1
  <2> QED
    BY <1>6, <2>1 DEF NoClose
<1> QED
  BY <1>1, <1>3, <1>4, <1>5, <1>6 DEF p

\* What a send does to the channel and to who is shown from the start.
LEMMA SentIs ==
  ASSUME ObserverAssumption, Types, NEW x, NEW fresh, NEW repeated,
         Send(x, fresh, repeated)
  PROVE  \E p : /\ Trimmed(queue, p) /\ queue' = Append(p, x)
                /\ whole' \in [Conns -> BOOLEAN]
                /\ \A c \in Conns : whole'[c] =>
                     /\ whole[c] \/ c \in fresh
                     /\ c \notin repeated
                     /\ p = queue \/ \A d \in Directions : ~Said(queue, c, d, 1)
<1> DEFINE over == Len(queue) = Capacity
           p == IF over THEN Tail(queue) ELSE queue
<1>1. queue \in Seq(Events) /\ Capacity \in Nat /\ Capacity > 0
  BY DEF Types, ObserverAssumption
<1>2. /\ queue' = Append(p, x)
      /\ whole' = [c \in Conns |->
                     /\ whole[c] \/ c \in fresh
                     /\ c \notin repeated
                     /\ ~(over /\ Head(queue).conn = c /\ Head(queue).kind \in Directions)]
  BY DEF Send
<1>3. over => queue # <<>> /\ Head(queue) = queue[1]
  BY <1>1
<1>4. Trimmed(queue, p)
  BY <1>3 DEF Trimmed
<1>5. ASSUME NEW c \in Conns, whole'[c]
      PROVE  /\ whole[c] \/ c \in fresh
             /\ c \notin repeated
             /\ p = queue \/ \A d \in Directions : ~Said(queue, c, d, 1)
  BY <1>2, <1>3, <1>5 DEF Said
<1>6. whole' \in [Conns -> BOOLEAN]
  BY <1>2
<1> QED
  BY <1>2, <1>4, <1>5, <1>6

\* What falls out tells of no bytes of a connection that stays whole.
LEMMA WireTrimmed ==
  ASSUME NEW q \in Seq(Events), NEW p, Trimmed(q, p), NEW c, NEW t, NEW h, NEW m,
         Wire(q, c, t, h, m), p = q \/ \A d \in Directions : ~Said(q, c, d, 1)
  PROVE  Wire(p, c, t, h, m)
<1>1. CASE p = q
  BY <1>1
<1>2. CASE p # q
  BY <1>2, WireTail DEF Trimmed
<1> QED
  BY <1>1, <1>2

\* Before the first byte.
LEMMA WireStart ==
  ASSUME NEW q, NEW c, Nothing(q, c), NEW t, NEW h, NEW m,
         \A d \in Directions : h[d] = 0 /\ m[d] = 0
  PROVE  Wire(q, c, t, h, m)
<1> SUFFICES ASSUME NEW d \in Directions
             PROVE  Gapless(q, c, d, h[d], m[d]) /\ Answers(q, c, t, d, h[Other(d)])
  BY DEF Wire
<1>1. \A k \in 1..Len(q) : ~Said(q, c, d, k)
  BY DEF Nothing, Said
<1>2. h[d] = 0 /\ m[d] = 0
  OBVIOUS
<1>3. Gapless(q, c, d, 0, 0)
  BY <1>1 DEF Gapless
<1>4. Answers(q, c, t, d, h[Other(d)])
  BY <1>1 DEF Answers
<1> QED
  BY <1>2, <1>3, <1>4

-----------------------------------------------------------------------------
(***************************************************************************)
(* One connection: what is shown of it keeps up with what has been heard.  *)
(***************************************************************************)
\* The types that GhostInv leaves out.
HearTypes ==
  /\ heard \in [Conns -> [Directions -> Int]] /\ before \in [Conns -> [Directions -> Int]]
  /\ whole \in [Conns -> BOOLEAN]
  /\ decoder = [c \in Conns |-> decoder[c]]

\* Before it is tracked nothing is known of a connection.
Unstarted(c) ==
  phase[c] = "out" =>
    /\ \A d \in Directions : moved[c][d] = 0 /\ heard[c][d] = 0 /\ before[c][d] = 0
    /\ Nothing(queue, c) /\ decoder[c] = None /\ ~whole[c]

\* Nothing comes after the Close; who has lost the entry has had it.
Told(c) ==
  /\ CloseLast(queue, c) /\ (phase[c] # "gone" => NoClose(queue, c))
  /\ whole[c] /\ station[c] = None => phase[c] = "gone" /\ Nothing(queue, c)

\* What is shown of a conversation that is shown from its start.
Followed(c) ==
  /\ talk[c] # None
  /\ \A d \in Directions : moved[c][d] \in 0..Total(talk[c], d)
  /\ Causal(talk[c], heard[c])
  /\ ~resetting => Wire(queue, c, talk[c], heard[c], moved[c])
  /\ station[c] # None => KeepsPace(DecoderOf(c), talk[c], station[c], heard[c], before[c])

KeepsUp(c) == Unstarted(c) /\ Told(c) /\ (whole[c] => Followed(c))

\* The step leaves what is shown of the connection.
Untouched(c) ==
  /\ talk' = talk /\ decoder'[c] = decoder[c]
  /\ heard'[c] = heard[c] /\ before'[c] = before[c]

\* A send leaves who has not been tracked where it is, ...
LEMMA SendUnstarted ==
  ASSUME Types, NEW c \in Conns, NEW x \in Events, NEW p, Trimmed(queue, p),
         queue' = Append(p, x), KeepsUp(c), Untouched(c), moved'[c] = moved[c],
         whole'[c] => whole[c],
         phase'[c] = phase[c] \/ phase'[c] = "gone",
         x.conn = c => phase[c] # "out"
  PROVE  Unstarted(c)'
<1> SUFFICES ASSUME phase'[c] = "out"
             PROVE  /\ \A d \in Directions : moved'[c][d] = 0 /\ heard'[c][d] = 0 /\ before'[c][d] = 0
                    /\ Nothing(queue', c) /\ decoder'[c] = None /\ ~whole'[c]
  BY DEF Unstarted
<1>1. phase[c] = "out" /\ x.conn # c
  OBVIOUS
<1>2. /\ \A d \in Directions : moved[c][d] = 0 /\ heard[c][d] = 0 /\ before[c][d] = 0
      /\ Nothing(queue, c) /\ decoder[c] = None /\ ~whole[c]
  BY <1>1 DEF KeepsUp, Unstarted
<1>3. queue \in Seq(Events)
  BY DEF Types
<1>4. p \in Seq(Events) /\ Nothing(p, c)
  BY <1>2, <1>3, TrimmedKeeps
<1>5. Nothing(queue', c)
  BY <1>1, <1>4, AppendedKeeps
<1> QED
  BY <1>2, <1>5 DEF Untouched

\* ... and the Close last.
LEMMA SendTold ==
  ASSUME Types, NEW c \in Conns, NEW x \in Events, NEW p, Trimmed(queue, p),
         queue' = Append(p, x), KeepsUp(c), station'[c] = station[c],
         whole'[c] => whole[c],
         phase'[c] = phase[c] \/ phase'[c] = "gone",
         x.conn = c => phase[c] # "gone" /\ (x.kind = "close" => phase'[c] = "gone")
  PROVE  Told(c)'
<1>1. queue \in Seq(Events)
  BY DEF Types
<1>2. CloseLast(queue, c) /\ (phase[c] # "gone" => NoClose(queue, c))
  BY DEF KeepsUp, Told
<1>3. p \in Seq(Events) /\ CloseLast(p, c) /\ (phase[c] # "gone" => NoClose(p, c))
  BY <1>1, <1>2, TrimmedKeeps
<1>4. CloseLast(queue', c)
  BY <1>3, AppendedKeeps
<1>5. phase'[c] # "gone" => NoClose(queue', c)
  BY <1>3, AppendedKeeps
<1>6. ASSUME whole'[c], station'[c] = None PROVE phase'[c] = "gone" /\ Nothing(queue', c)
  <2>1. phase[c] = "gone" /\ Nothing(queue, c)
    BY <1>6 DEF KeepsUp, Told
  <2>2. x.conn # c /\ Nothing(p, c)
    BY <1>1, <2>1, TrimmedKeeps
  <2> QED
    BY <1>3, <2>1, <2>2, AppendedKeeps
<1> QED
  BY <1>4, <1>5, <1>6 DEF Told

\* An event that tells of no bytes of the connection.
LEMMA SendStep ==
  ASSUME ObserverAssumption, Types, NEW x \in Events, NEW fresh, NEW repeated,
         Send(x, fresh, repeated), NEW c \in Conns, KeepsUp(c), Untouched(c),
         moved'[c] = moved[c], station'[c] = station[c], resetting' = resetting,
         c \notin fresh,
         phase'[c] = phase[c] \/ phase'[c] = "gone",
         x.conn = c => /\ phase[c] \in {"open", "closing"} /\ x.kind \notin Directions
                       /\ x.kind = "close" => phase'[c] = "gone"
  PROVE  KeepsUp(c)'
<1>1. PICK p : /\ Trimmed(queue, p) /\ queue' = Append(p, x)
               /\ \A b \in Conns : whole'[b] =>
                    /\ whole[b] \/ b \in fresh
                    /\ b \notin repeated
                    /\ p = queue \/ \A d \in Directions : ~Said(queue, b, d, 1)
  BY SentIs
<1>2. whole'[c] => whole[c] /\ (p = queue \/ \A d \in Directions : ~Said(queue, c, d, 1))
  BY <1>1
<1>3. Unstarted(c)'
  BY <1>1, <1>2, SendUnstarted
<1>4. Told(c)'
  BY <1>1, <1>2, SendTold
<1>5. ASSUME whole'[c] PROVE Followed(c)'
  <2>1. Followed(c)
    BY <1>2, <1>5 DEF KeepsUp
  <2>2. DecoderOf(c)' = DecoderOf(c)
    BY DEF DecoderOf, Untouched
  <2>3. ASSUME ~resetting' PROVE Wire(queue', c, talk[c], heard[c], moved[c])
    <3>1. Wire(queue, c, talk[c], heard[c], moved[c]) /\ queue \in Seq(Events)
      BY <2>1, <2>3 DEF Followed, Types
    <3>2. Wire(p, c, talk[c], heard[c], moved[c]) /\ p \in Seq(Events)
      BY <1>1, <1>2, <1>5, <3>1, WireTrimmed, TrimmedKeeps
    <3> QED
      BY <1>1, <3>2, WireOther
  <2> QED
    BY <2>1, <2>2, <2>3 DEF Followed, Untouched
<1> QED
  BY <1>3, <1>4, <1>5 DEF KeepsUp

\* Units of the connection go by (managed_stream.rs 783-918), for the first time or
\* once more.
LEMMA PassStep ==
  ASSUME ObserverAssumption, Types, NEW c \in Conns, KeepsUp(c), Untouched(c),
         talk[c] # None => Understood(talk[c]),
         station'[c] = station[c], resetting' = resetting, phase' = phase,
         phase[c] = "open", NEW d \in Directions, NEW n \in Nat \ {0}, NEW repeated,
         NEW x \in Events, Send(x, {}, repeated), x.conn = c, x.kind = d,
         moved' = [moved EXCEPT ![c][d] = moved[c][d] + n],
         c \notin repeated =>
           /\ x.from = moved[c][d] + 1 /\ x.to = moved[c][d] + n
           /\ moved[c][d] + n <= Len(AllUnits(talk[c], d))
           /\ MaySend(c, d, moved[c][d] + n)
  PROVE  KeepsUp(c)'
<1>1. PICK p : /\ Trimmed(queue, p) /\ queue' = Append(p, x)
               /\ \A b \in Conns : whole'[b] =>
                    /\ whole[b] \/ b \in {}
                    /\ b \notin repeated
                    /\ p = queue \/ \A e \in Directions : ~Said(queue, b, e, 1)
  BY SentIs, SMTT(30)
<1>2. whole'[c] => whole[c] /\ c \notin repeated
                   /\ (p = queue \/ \A e \in Directions : ~Said(queue, c, e, 1))
  BY <1>1
<1>3. Unstarted(c)'
  BY DEF Unstarted
<1>4. Told(c)'
  <2>1. x.kind # "close"
    BY DEF Directions
  <2> QED
    BY <1>1, <1>2, <2>1, SendTold
<1>5. ASSUME whole'[c] PROVE Followed(c)'
  <2> DEFINE t == talk[c]
             m == moved[c]
             k == moved'[c]
             h == heard[c]
  <2>1. Followed(c) /\ t # None /\ Spoken(t)
    BY <1>2, <1>5, UnderstoodIs DEF KeepsUp, Followed
  <2>2. \A e \in Directions : m[e] \in 0..Total(t, e) /\ Total(t, e) \in Nat
                              /\ Len(AllUnits(t, e)) = Total(t, e)
    BY <2>1, AllAre DEF Followed
  <2>3. k[d] = m[d] + n /\ \A e \in Directions : e # d => k[e] = m[e]
    <3>1. moved[c] \in [Directions -> Int]
      BY DEF Types
    <3> QED
      BY <3>1 DEF Types
  <2>4. m[d] + n \in 0..Total(t, d)
    <3>1. m[d] \in Nat /\ n \in Nat /\ m[d] + n <= Total(t, d) /\ Total(t, d) \in Nat
      BY <1>2, <1>5, <2>2
    <3> HIDE DEF t, m
    <3> QED
      BY <3>1
  <2>5. \A e \in Directions : k[e] \in 0..Total(t, e)
    BY <2>2, <2>3, <2>4
  <2>6. DecoderOf(c)' = DecoderOf(c)
    BY DEF DecoderOf, Untouched
  <2>7. ASSUME ~resetting PROVE Wire(queue', c, t, h, k)
    <3>1. Wire(queue, c, t, h, m) /\ queue \in Seq(Events)
      BY <2>1, <2>7 DEF Followed, Types
    <3>2. Wire(p, c, t, h, m) /\ p \in Seq(Events)
      BY <1>1, <1>2, <1>5, <3>1, WireTrimmed, TrimmedKeeps
    <3>3. MaySend(c, d, m[d] + n) /\ x.from = m[d] + 1 /\ x.to = m[d] + n
      BY <1>2, <1>5
    <3>4. \A i \in 1..Len(t[d]) : End(t, d, i - 1) < x.to /\ t[d][i].after # 0 =>
            /\ t[d][i].after \in 1..Len(t[Other(d)])
            /\ End(t, Other(d), t[d][i].after) <= m[Other(d)]
      <4> DEFINE j == m[d] + n
      <4>1. j \in 0..Total(t, d) /\ MaySend(c, d, j) /\ x.to = j
        BY <2>4, <3>3
      <4> HIDE DEF j
      <4>2. t = talk[c] /\ m[Other(d)] = moved[c][Other(d)]
        OBVIOUS
      <4> HIDE DEF t, m
      <4>3. \A i \in 1..Len(t[d]) : End(t, d, i - 1) < j /\ t[d][i].after # 0 =>
            /\ t[d][i].after \in 1..Len(t[Other(d)])
            /\ End(t, Other(d), t[d][i].after) <= moved[c][Other(d)]
        BY <2>1, <4>1, <4>2, MaySendIs
      <4> QED
        BY <4>1, <4>2, <4>3
    <3>5. k[d] = m[d] + n /\ k[Other(d)] = m[Other(d)]
      BY <2>3, OtherIs
    <3> HIDE DEF t, m, h, k
    <3> QED
      BY <1>1, <2>1, <3>2, <3>3, <3>4, <3>5, WirePass
  <2> QED
    BY <2>1, <2>5, <2>6, <2>7 DEF Followed, Untouched
<1> QED
  BY <1>3, <1>4, <1>5 DEF KeepsUp

\* The connection is tracked (proxy.rs 888).
LEMMA TrackStep ==
  ASSUME ObserverAssumption, Types, NEW c \in Conns, KeepsUp(c), Untouched(c),
         None \notin Seq(H1Items),
         Understood(talk[c]), talk[c] # None, moved' = moved, resetting' = resetting,
         phase[c] = "out", phase'[c] = "open", station'[c] = IF inspect THEN <<>> ELSE station[c],
         Send(Event(c, "open"), IF inspect THEN {c} ELSE {}, {})
  PROVE  KeepsUp(c)'
<1> DEFINE x == Event(c, "open")
<1>1. x \in Events /\ x.conn = c /\ x.kind = "open" /\ x.kind \notin Directions
  BY EventTypes DEF Event, Directions
<1>2. PICK p : /\ Trimmed(queue, p) /\ queue' = Append(p, x)
               /\ \A b \in Conns : whole'[b] =>
                    /\ whole[b] \/ b \in (IF inspect THEN {c} ELSE {})
                    /\ b \notin {}
                    /\ p = queue \/ \A e \in Directions : ~Said(queue, b, e, 1)
  BY SentIs
<1> HIDE DEF x
<1>3. /\ \A d \in Directions : moved[c][d] = 0 /\ heard[c][d] = 0 /\ before[c][d] = 0
      /\ Nothing(queue, c) /\ decoder[c] = None /\ ~whole[c] /\ NoClose(queue, c)
  BY DEF KeepsUp, Unstarted, Nothing, NoClose
<1>4. whole'[c] => inspect
  BY <1>2, <1>3
<1>5. p \in Seq(Events) /\ Nothing(p, c) /\ NoClose(p, c)
  BY <1>2, <1>3, TrimmedKeeps DEF Types
<1>6. Unstarted(c)'
  BY DEF Unstarted
<1>7. whole'[c] => station'[c] = <<>>
  BY <1>4
<1>8. <<>> # None => Told(c)'
  <2>1. CloseLast(queue', c) /\ NoClose(queue', c)
    BY <1>1, <1>2, <1>5, AppendedKeeps
  <2> QED
    BY <1>7, <2>1 DEF Told
<1>9. ASSUME whole'[c] PROVE Followed(c)'
  <2> DEFINE t == talk[c]
             h == heard[c]
             g == before[c]
             m == moved[c]
  <2>1. \A d \in Directions : Spoken(t) /\ Total(t, d) \in Nat /\ Len(t[d]) \in Nat
    BY UnderstoodIs, AllAre DEF Spoken
  <2>2. \A d \in Directions : m[d] \in 0..Total(t, d)
    BY <1>3, <2>1
  <2>3. Causal(t, h)
    <3> SUFFICES ASSUME NEW d \in Directions, NEW i \in 1..Len(t[d]), End(t, d, i - 1) < h[d]
                 PROVE  FALSE
      BY DEF Causal
    <3>1. i - 1 \in 0..Len(t[d])
      BY <2>1
    <3>2. End(t, d, i - 1) \in Nat
      BY <2>1, <3>1, UnitsAre
    <3> QED
      BY <1>3, <3>2
  <2>4. Wire(p, c, t, h, m)
    <3>1. \A d \in Directions : h[d] = 0 /\ m[d] = 0
      BY <1>3
    <3> HIDE DEF h, m, t
    <3> QED
      BY <1>5, <3>1, WireStart
  <2>5. Wire(queue', c, t, h, m)
    BY <1>1, <1>2, <1>5, <2>4, WireOther
  <2>6. KeepsPace(NewDecoder(t), t, <<>>, h, g)
    <3>1. Understood(t) /\ \A d \in Directions : h[d] = 0 /\ g[d] = 0
      BY <1>3
    <3> HIDE DEF h, g, t
    <3> QED
      BY <3>1, KeepsPaceStart
  <2>7. DecoderOf(c)' = NewDecoder(t)
    BY <1>3 DEF DecoderOf, Untouched
  <2>8. talk'[c] = t /\ heard'[c] = h /\ before'[c] = g /\ moved'[c] = m
        /\ station'[c] = <<>>
    BY <1>7, <1>9 DEF Untouched
  <2> HIDE DEF t, h, g, m
  <2>9. KeepsPace(DecoderOf(c)', talk'[c], station'[c], heard'[c], before'[c])
    BY <2>6, <2>7, <2>8
  <2>10. /\ talk'[c] # None /\ Causal(talk'[c], heard'[c])
         /\ \A d \in Directions : moved'[c][d] \in 0..Total(talk'[c], d)
         /\ Wire(queue', c, talk'[c], heard'[c], moved'[c])
    BY <2>2, <2>3, <2>5, <2>8 DEF t
  <2> QED
    BY <2>9, <2>10 DEF Followed
<1>10. <<>> # None
  <2>1. <<>> \in Seq(H1Items)
    OBVIOUS
  <2> QED
    BY <2>1
<1> QED
  BY <1>6, <1>8, <1>9, <1>10 DEF KeepsUp

\* The observer takes an event that tells of no bytes of the connection, or is
\* about to reset (observer.rs 26-43).
LEMMA TakeStep ==
  ASSUME Types, queue # <<>>, queue' = Tail(queue), NEW c \in Conns, KeepsUp(c),
         Untouched(c), phase' = phase, moved' = moved, whole' = whole,
         ~resetting' => ~resetting /\ \A d \in Directions : ~Said(queue, c, d, 1),
         whole[c] => \/ station'[c] = station[c]
                     \/ station'[c] = None /\ queue[1].conn = c /\ queue[1].kind = "close"
  PROVE  KeepsUp(c)'
<1>1. queue \in Seq(Events) /\ Trimmed(queue, queue') /\ queue' # queue /\ 1 \in 1..Len(queue)
  <2>1. queue \in Seq(Events) /\ Len(queue') = Len(queue) - 1 /\ Len(queue) \in Nat
    BY HeadTailProperties DEF Types
  <2>2. Len(queue) > 0
    BY <2>1
  <2> DEFINE n == Len(queue)
             l == Len(queue')
  <2> HIDE DEF n, l
  <2>5. l # n /\ 1 \in 1..n
    <3>1. l = n - 1 /\ n \in Nat /\ n > 0
      BY <2>1, <2>2 DEF n, l
    <3> QED
      BY <3>1
  <2>3. Len(queue') # Len(queue) /\ 1 \in 1..Len(queue)
    BY <2>5 DEF n, l
  <2>4. queue' # queue
    BY <2>3, Zenon
  <2> QED
    BY <2>1, <2>3, <2>4 DEF Trimmed
<1>2. /\ queue' \in Seq(Events) /\ (Nothing(queue, c) => Nothing(queue', c))
      /\ NoClose(queue, c) => NoClose(queue', c)
      /\ CloseLast(queue, c) => CloseLast(queue', c)
      /\ CloseLast(queue, c) /\ queue[1].conn = c /\ queue[1].kind = "close" => Nothing(queue', c)
  BY <1>1, TrimmedKeeps
<1>3. Unstarted(c)'
  BY <1>2 DEF KeepsUp, Unstarted, Untouched
<1>4. Told(c)'
  <2>1. CloseLast(queue', c) /\ (phase'[c] # "gone" => NoClose(queue', c))
    BY <1>2 DEF KeepsUp, Told
  <2>2. ASSUME whole'[c], station'[c] = None PROVE phase'[c] = "gone" /\ Nothing(queue', c)
    <3>1. CASE station[c] = None
      BY <1>2, <2>2, <3>1 DEF KeepsUp, Told
    <3>2. CASE queue[1].conn = c /\ queue[1].kind = "close"
      BY <1>1, <1>2, <3>2 DEF KeepsUp, Told, NoClose
    <3> QED
      BY <2>2, <3>1, <3>2
  <2> QED
    BY <2>1, <2>2 DEF Told
<1>5. ASSUME whole'[c] PROVE Followed(c)'
  <2>1. Followed(c) /\ (station'[c] # None => station'[c] = station[c])
    BY <1>5 DEF KeepsUp
  <2>2. DecoderOf(c)' = DecoderOf(c)
    BY DEF DecoderOf, Untouched
  <2>3. ASSUME ~resetting' PROVE Wire(queue', c, talk[c], heard[c], moved[c])
    <3>1. Wire(queue, c, talk[c], heard[c], moved[c])
      BY <2>1, <2>3 DEF Followed
    <3> QED
      BY <1>1, <2>3, <3>1, WireTail
  <2> QED
    BY <2>1, <2>2, <2>3 DEF Followed, Untouched
<1> QED
  BY <1>3, <1>4, <1>5 DEF KeepsUp

\* The observer takes bytes of the connection, which is shown from its start
\* (observer.rs 229-345).
LEMMA HearFollows ==
  ASSUME Types, NoneIsNew, NEW c \in Conns, Followed(c),
         Understood(talk[c]), ~resetting, queue # <<>>, NEW d \in Directions, Said(queue, c, d, 1),
         station[c] # None,
         NEW k, k[d] = queue[1].to, k[Other(d)] = heard[c][Other(d)],
         NEW z, z = Decoded(c, d, Carried(c, Head(queue)))
  PROVE  /\ Causal(talk[c], k) /\ Wire(Tail(queue), c, talk[c], k, moved[c])
         /\ z.o # None /\ Shown(c, d, z.items) \in Seq(H1Items)
         /\ KeepsPace(z.o, talk[c], Shown(c, d, z.items), k, heard[c])
<1> DEFINE t == talk[c]
           h == heard[c]
           m == moved[c]
           s == station[c]
           q == queue
<1>1. /\ \A e \in Directions : m[e] \in 0..Total(t, e)
      /\ Causal(t, h) /\ Wire(q, c, t, h, m)
      /\ KeepsPace(DecoderOf(c), t, s, h, before[c])
  BY DEF Followed
<1>2. q \in Seq(Events) /\ Head(q) = q[1] /\ q[1].kind = d
  BY DEF Types, Said
<1>3. k[d] = q[1].to /\ k[Other(d)] = h[Other(d)]
  OBVIOUS
<1>4. Spoken(t)
  BY UnderstoodIs
<1>5. \A e \in Directions : h[e] \in Nat /\ h[e] <= m[e]
  BY <1>1 DEF Wire, Gapless
<1>6. /\ q[1].from = h[d] + 1 /\ h[d] \in Nat /\ k[d] \in Nat /\ h[d] < k[d] /\ k[d] <= m[d]
      /\ Wire(Tail(q), c, t, k, m) /\ Causal(t, k)
  <2>1. q # <<>> /\ Said(q, c, d, 1)
    OBVIOUS
  <2> HIDE DEF t, h, m, q
  <2> QED
    BY <1>1, <1>2, <1>3, <1>4, <2>1, WireHear
<1>7. Hears(t, d, h, k)
  <2>1. Spoken(t) /\ \A e \in Directions : h[e] \in Nat /\ h[e] <= m[e] /\ m[e] \in 0..Total(t, e)
    BY <1>1, <1>4, <1>5
  <2> HIDE DEF t, h, m, q
  <2> QED
    BY <1>1, <1>3, <1>6, <2>1, WireHears
<1>8. Carried(c, Head(q)) = News(t, d, h[d], k[d])
  BY <1>2, <1>3, <1>6 DEF Carried, News
<1>9. z = Decoded(c, d, News(t, d, h[d], k[d]))
  BY <1>8
<1>10. /\ z.o # None /\ Shown(c, d, z.items) \in Seq(H1Items)
       /\ KeepsPace(z.o, t, Shown(c, d, z.items), k, h)
  <2>1. t = talk[c] /\ s = station[c] /\ s # None
    OBVIOUS
  <2> HIDE DEF t, h, s
  <2> QED
    BY <1>1, <1>7, <1>9, <2>1, KeepsPaceHears
<1> QED
  BY <1>6, <1>10

\* The observer takes bytes of the connection, shown from its start or not.
LEMMA HearStep ==
  ASSUME Types, HearTypes, NoneIsNew,
         NEW c \in Conns, KeepsUp(c), talk[c] # None => Understood(talk[c]),
         ~resetting, resetting' = resetting, queue # <<>>, queue' = Tail(queue),
         NEW d \in Directions, Said(queue, c, d, 1),
         talk' = talk, phase' = phase, moved' = moved, whole' = whole,
         NEW z, z = Decoded(c, d, Carried(c, Head(queue))),
         decoder'[c] = z.o, station'[c] = Shown(c, d, z.items),
         whole[c] => /\ heard'[c] = [heard[c] EXCEPT ![d] = Head(queue).to]
                     /\ before'[c] = heard[c]
  PROVE  KeepsUp(c)'
<1>1. queue \in Seq(Events) /\ Trimmed(queue, queue') /\ 1 \in 1..Len(queue) /\ Head(queue) = queue[1]
  BY HeadTailProperties DEF Types, Trimmed
<1>2. /\ queue' \in Seq(Events)
      /\ NoClose(queue, c) => NoClose(queue', c)
      /\ CloseLast(queue, c) => CloseLast(queue', c)
  BY <1>1, TrimmedKeeps
<1>3. ~Nothing(queue, c)
  BY <1>1 DEF Nothing, Said
<1>4. Unstarted(c)'
  BY <1>3 DEF KeepsUp, Unstarted
<1>5. whole'[c] => whole[c] /\ station[c] # None /\ Followed(c) /\ Understood(talk[c])
  BY <1>3 DEF KeepsUp, Told, Followed
<1>6. ASSUME whole'[c] PROVE Followed(c)' /\ station'[c] # None
  <2>1. heard'[c][d] = queue[1].to /\ heard'[c][Other(d)] = heard[c][Other(d)]
    <3>1. heard[c] \in [Directions -> Int]
      BY DEF HearTypes
    <3>2. heard'[c] = [heard[c] EXCEPT ![d] = queue[1].to]
      BY <1>1, <1>5, <1>6
    <3> QED
      BY <3>1, <3>2, OtherIs
  <2> DEFINE k == heard'[c]
  <2>2. k[d] = queue[1].to /\ k[Other(d)] = heard[c][Other(d)]
    BY <2>1
  <2> HIDE DEF k
  <2>3. /\ Causal(talk[c], k) /\ Wire(Tail(queue), c, talk[c], k, moved[c])
        /\ z.o # None /\ Shown(c, d, z.items) \in Seq(H1Items)
        /\ KeepsPace(z.o, talk[c], Shown(c, d, z.items), k, heard[c])
    BY <1>5, <1>6, <2>2, HearFollows
  <2>4. DecoderOf(c)' = z.o
    BY <2>3 DEF DecoderOf
  <2>5. Shown(c, d, z.items) \in Seq(H1Items)
    BY <2>3
  <2>6. \A e \in Directions : moved[c][e] \in 0..Total(talk[c], e)
    BY <1>5, <1>6 DEF Followed
  <2>7. before'[c] = heard[c] /\ talk[c] # None
    BY <1>5, <1>6 DEF Followed
  <2>8. station'[c] # None
    BY <2>5 DEF NoneIsNew
  <2>9. KeepsPace(DecoderOf(c)', talk'[c], station'[c], heard'[c], before'[c])
    BY <2>3, <2>4, <2>7 DEF k
  <2>10. Causal(talk'[c], heard'[c]) /\ Wire(queue', c, talk'[c], heard'[c], moved'[c])
    BY <2>3 DEF k
  <2> QED
    BY <2>6, <2>7, <2>8, <2>9, <2>10 DEF Followed
<1>7. Told(c)'
  BY <1>2, <1>6 DEF KeepsUp, Told
<1> QED
  BY <1>4, <1>6, <1>7 DEF KeepsUp

\* The connection is silent or understood.
IsUnderstood(c) == talk[c] # None => Understood(talk[c])

\* All conversations are.
AllUnderstood == \A t \in Talks : \A c \in Conns : t[c] = None \/ Understood(t[c])

\* What is heard and shown of the connections that are understood is kept up with,
\* whatever the others speak.
ShownInv ==
  /\ GhostInv /\ HearTypes /\ talk \in Talks
  /\ \A c \in Conns : IsUnderstood(c) => KeepsUp(c)

\* A send keeps the types.
LEMMA SendTypes ==
  ASSUME ObserverAssumption, GhostInv, HearTypes, NEW x, NEW fresh, NEW repeated,
         Send(x, fresh, repeated), decoder' = decoder, heard' = heard, before' = before
  PROVE  HearTypes'
<1>1. whole' \in [Conns -> BOOLEAN]
  BY SentIs DEF GhostInv
<1> QED
  BY <1>1 DEF HearTypes

\* A step of a connection keeps up, for itself and the others.
LEMMA ConnectionShows ==
  ASSUME ObserverAssumption, NoneIsNew, ShownInv, NEW b \in Conns, Connection(b)
  PROVE  ShownInv'
<1>0. /\ GhostInv /\ Types /\ HearTypes /\ talk \in Talks /\ TrackedIsOpen
      /\ \A c \in Conns : IsUnderstood(c) => KeepsUp(c)
  BY DEF ShownInv, GhostInv
<1>1. GhostInv'
  BY <1>0, ConnectionKeeps
<1>2. talk' = talk => \A c \in Conns : IsUnderstood(c)' => IsUnderstood(c)
  BY DEF IsUnderstood
<1>3. CASE Track(b)
  <2>1. /\ phase[b] = "out" /\ talk[b] # None /\ phase' = [phase EXCEPT ![b] = "open"]
        /\ station' = [station EXCEPT ![b] = IF inspect THEN <<>> ELSE @]
        /\ Send(Event(b, "open"), IF inspect THEN {b} ELSE {}, {})
        /\ talk' = talk /\ moved' = moved /\ resetting' = resetting /\ decoder' = decoder
        /\ heard' = heard /\ before' = before
    BY <1>3 DEF Track
  <2>2. HearTypes'
    BY <1>0, <2>1, SendTypes
  <2>3. Event(b, "open") \in Events /\ Event(b, "open").conn = b
    BY EventTypes DEF Event
  <2>4. ASSUME NEW c \in Conns, IsUnderstood(c), c # b PROVE KeepsUp(c)'
    <3>1. phase'[c] = phase[c] /\ station'[c] = station[c]
      BY <1>0, <2>1, <2>4 DEF Types
    <3>2. c \notin (IF inspect THEN {b} ELSE {})
      BY <2>4
    <3>3. Untouched(c) /\ moved'[c] = moved[c]
      BY <2>1 DEF Untouched
    <3> QED
      BY <1>0, <2>1, <2>3, <2>4, <3>1, <3>2, <3>3, SendStep
  <2>5. IsUnderstood(b) => KeepsUp(b)'
    <3>1. phase'[b] = "open" /\ station'[b] = IF inspect THEN <<>> ELSE station[b]
      BY <1>0, <2>1 DEF Types
    <3>2. Untouched(b)
      BY <2>1 DEF Untouched
    <3> QED
      BY <1>0, <2>1, <3>1, <3>2, TrackStep DEF NoneIsNew, IsUnderstood
  <2> QED
    BY <1>0, <1>1, <1>2, <2>1, <2>2, <2>4, <2>5 DEF ShownInv
<1>4. CASE Update(b)
  <2>1. /\ phase' = phase /\ station' = station /\ Send(Event(b, "update"), {}, {})
        /\ talk' = talk /\ moved' = moved /\ resetting' = resetting /\ decoder' = decoder
        /\ heard' = heard /\ before' = before /\ phase[b] = "open"
    BY <1>0, <1>4 DEF Update, shownVars, TrackedIsOpen
  <2>2. HearTypes'
    BY <1>0, <2>1, SendTypes
  <2>3. Event(b, "update") \in Events /\ Event(b, "update").conn = b
        /\ Event(b, "update").kind = "update" /\ "update" \notin Directions
    BY EventTypes DEF Event, Directions
  <2>4. ASSUME NEW c \in Conns, IsUnderstood(c) PROVE KeepsUp(c)'
    <3>1. Untouched(c) /\ moved'[c] = moved[c] /\ station'[c] = station[c] /\ phase'[c] = phase[c]
      BY <2>1 DEF Untouched
    <3>2. c \notin {}
      OBVIOUS
    <3>3. Event(b, "update").conn = c =>
            /\ phase[c] \in {"open", "closing"} /\ Event(b, "update").kind \notin Directions
            /\ Event(b, "update").kind = "close" => phase'[c] = "gone"
      BY <2>1, <2>3
    <3> QED
      BY <1>0, <2>4, <2>1, <2>3, <3>1, <3>2, <3>3, SendStep
  <2> QED
    BY <1>0, <1>1, <1>2, <2>1, <2>2, <2>4 DEF ShownInv
<1>5. CASE Tell(b)
  <2>1. /\ phase' = [phase EXCEPT ![b] = "gone"] /\ station' = station
        /\ Send(Event(b, "close"), {}, {})
        /\ talk' = talk /\ moved' = moved /\ resetting' = resetting /\ decoder' = decoder
        /\ heard' = heard /\ before' = before /\ phase[b] = "closing"
    BY <1>5 DEF Tell, shownVars
  <2>2. HearTypes'
    BY <1>0, <2>1, SendTypes
  <2>3. Event(b, "close") \in Events /\ Event(b, "close").conn = b
        /\ Event(b, "close").kind = "close" /\ "close" \notin Directions
    BY EventTypes DEF Event, Directions
  <2>4. phase'[b] = "gone" /\ \A c \in Conns : c # b => phase'[c] = phase[c]
    BY <1>0, <2>1 DEF Types
  <2>5. ASSUME NEW c \in Conns, IsUnderstood(c) PROVE KeepsUp(c)'
    <3>1. Untouched(c) /\ moved'[c] = moved[c] /\ station'[c] = station[c]
          /\ (phase'[c] = phase[c] \/ phase'[c] = "gone")
      BY <2>1, <2>4 DEF Untouched
    <3>2. c \notin {}
      OBVIOUS
    <3>3. Event(b, "close").conn = c =>
            /\ phase[c] \in {"open", "closing"} /\ Event(b, "close").kind \notin Directions
            /\ Event(b, "close").kind = "close" => phase'[c] = "gone"
      BY <2>1, <2>3, <2>4
    <3> QED
      BY <1>0, <2>5, <2>1, <2>3, <3>1, <3>2, <3>3, SendStep
  <2> QED
    BY <1>0, <1>1, <1>2, <2>1, <2>2, <2>5 DEF ShownInv
<1>6. CASE Forget(b)
  <2>1. /\ phase' = [phase EXCEPT ![b] = "closing"] /\ phase[b] = "open"
        /\ talk' = talk /\ moved' = moved /\ queue' = queue /\ resetting' = resetting
        /\ station' = station /\ decoder' = decoder /\ heard' = heard /\ before' = before
        /\ whole' = whole
    BY <1>6 DEF Forget, shownVars
  <2>2. HearTypes'
    BY <1>0, <2>1 DEF HearTypes
  <2>3. ASSUME NEW c \in Conns, IsUnderstood(c) PROVE KeepsUp(c)'
    <3>1. phase'[c] = phase[c] \/ (phase[c] = "open" /\ phase'[c] = "closing")
      BY <1>0, <2>1 DEF Types
    <3>2. Unstarted(c)' /\ Told(c)'
      BY <1>0, <2>3, <2>1, <3>1 DEF KeepsUp, Unstarted, Told
    <3>3. whole[c] => Followed(c)'
      <4>1. DecoderOf(c)' = DecoderOf(c)
        BY <2>1 DEF DecoderOf
      <4> QED
        BY <1>0, <2>3, <2>1, <4>1 DEF KeepsUp, Followed
    <3> QED
      BY <2>1, <3>2, <3>3 DEF KeepsUp
  <2> QED
    BY <1>0, <1>1, <1>2, <2>1, <2>2, <2>3 DEF ShownInv
<1>7. ASSUME NEW d \in Directions, NEW n \in Nat \ {0}, NEW x \in Events, NEW repeated,
             Send(x, {}, repeated), x.conn = b, x.kind = d, repeated \in SUBSET {b},
             moved' = [moved EXCEPT ![b][d] = moved[b][d] + n], phase[b] = "open",
             phase' = phase, talk' = talk, station' = station, resetting' = resetting,
             decoder' = decoder, heard' = heard, before' = before,
             b \notin repeated =>
               /\ x.from = moved[b][d] + 1 /\ x.to = moved[b][d] + n
               /\ moved[b][d] + n <= Len(AllUnits(talk[b], d))
               /\ MaySend(b, d, moved[b][d] + n)
      PROVE  ShownInv'
  <2>1. HearTypes'
    BY <1>0, <1>7, SendTypes
  <2>2. ASSUME NEW c \in Conns PROVE Untouched(c) /\ station'[c] = station[c] /\ phase'[c] = phase[c]
    BY <1>7 DEF Untouched
  <2>3. ASSUME NEW c \in Conns, IsUnderstood(c), c # b PROVE KeepsUp(c)'
    <3>1. moved'[c] = moved[c]
      BY <1>0, <1>7, <2>3 DEF Types
    <3>2. c \notin {} /\ x.conn # c
      BY <1>7, <2>3
    <3> QED
      BY <1>0, <2>3, <1>7, <2>2, <3>1, <3>2, SendStep
  <2>4. IsUnderstood(b) => KeepsUp(b)'
    BY <1>0, <1>7, <2>2, PassStep DEF IsUnderstood
  <2> QED
    BY <1>0, <1>1, <1>2, <1>7, <2>1, <2>3, <2>4 DEF ShownInv
<1>8. ASSUME NEW d \in Directions, NEW n \in 1..MaxPiece, Pass(b, d, n) PROVE ShownInv'
  <2> DEFINE m == moved[b][d]
             x == Bytes(b, d, m + 1, m + n)
  <2>1. m \in Int /\ n \in Nat \ {0}
    BY <1>0 DEF Types
  <2>2. x \in Events /\ x.conn = b /\ x.kind = d /\ x.from = m + 1 /\ x.to = m + n
    <3>1. m + 1 \in Int /\ m + n \in Int
      BY <2>1
    <3> QED
      BY <3>1, EventTypes DEF Bytes
  <2>3. /\ phase[b] = "open" /\ m + n <= Len(AllUnits(talk[b], d)) /\ MaySend(b, d, m + n)
        /\ moved' = [moved EXCEPT ![b][d] = m + n] /\ Send(x, {}, {})
        /\ phase' = phase /\ talk' = talk /\ station' = station /\ resetting' = resetting
        /\ decoder' = decoder /\ heard' = heard /\ before' = before
    BY <1>8 DEF Pass, shownVars
  <2> HIDE DEF x
  <2> QED
    BY <1>7, <2>1, <2>2, <2>3
<1>9. ASSUME NEW d \in Directions, NEW n \in 1..MaxPiece, NEW k \in 1..MaxPiece,
             PassAgain(b, d, n, k)
      PROVE  ShownInv'
  <2> DEFINE m == moved[b][d]
             from == IF d = "in" THEN m + 1 - k ELSE m + 1
             to   == IF d = "in" THEN m + n ELSE m + n + k
             x == Bytes(b, d, from, to)
  <2>1. m \in Int /\ n \in Nat \ {0} /\ k \in Int
    BY <1>0 DEF Types
  <2>2. from \in Int /\ to \in Int
    BY <2>1
  <2>3. /\ phase[b] = "open"
        /\ moved' = [moved EXCEPT ![b][d] = m + n] /\ Send(x, {}, {b})
        /\ phase' = phase /\ talk' = talk /\ station' = station /\ resetting' = resetting
        /\ decoder' = decoder /\ heard' = heard /\ before' = before
    BY <1>9 DEF PassAgain, shownVars
  <2> HIDE DEF from, to
  <2>4. x \in Events /\ x.conn = b /\ x.kind = d
    BY <2>2, EventTypes DEF Bytes
  <2> HIDE DEF x
  <2> QED
    BY <1>7, <2>1, <2>3, <2>4
<1> QED
  BY <1>3, <1>4, <1>5, <1>6, <1>8, <1>9 DEF Connection

\* What a step of the observer does that takes an event and makes no decoder speak.
LEMMA TakingKeepsUp ==
  ASSUME ShownInv, queue # <<>>, queue' = Tail(queue), talk' = talk,
         phase' = phase, moved' = moved, whole' = whole, decoder' = decoder,
         heard' = heard, before' = before,
         ~resetting' => ~resetting /\ Head(queue).kind \notin Directions,
         \A c \in Conns : IsUnderstood(c) /\ whole[c] =>
           \/ station'[c] = station[c]
           \/ station'[c] = None /\ Head(queue).conn = c /\ Head(queue).kind = "close"
  PROVE  GhostInv' => ShownInv'
<1>0. /\ GhostInv /\ Types /\ HearTypes /\ talk \in Talks
      /\ \A c \in Conns : IsUnderstood(c) => KeepsUp(c)
      /\ Head(queue) = queue[1]
  BY DEF ShownInv, GhostInv, Types
<1>1. HearTypes'
  BY <1>0 DEF HearTypes
<1>2. ASSUME NEW c \in Conns, IsUnderstood(c) PROVE KeepsUp(c)'
  <2>1. Untouched(c)
    BY DEF Untouched
  <2>2. ~resetting' => \A d \in Directions : ~Said(queue, c, d, 1)
    BY <1>0 DEF Said
  <2> QED
    BY <1>0, <1>2, <2>1, <2>2, TakeStep
<1> QED
  BY <1>0, <1>1, <1>2 DEF ShownInv, IsUnderstood

\* Every step of the observer keeps up (observer.rs 26-43, 166-345).
LEMMA ObservingShows ==
  ASSUME NoneIsNew, ShownInv, Observing
  PROVE  ShownInv'
<1>0. /\ GhostInv /\ Types /\ HearTypes /\ talk \in Talks
      /\ \A c \in Conns : IsUnderstood(c) => KeepsUp(c)
  BY DEF ShownInv, GhostInv
<1>1. GhostInv'
  BY <1>0, ObservingKeeps
<1>2. talk' = talk => \A c \in Conns : IsUnderstood(c)' => IsUnderstood(c)
  BY DEF IsUnderstood
<1>3. CASE FindOff
  BY <1>1, <1>3, TakingKeepsUp DEF FindOff, wireVars, shownVars
<1>4. CASE Reset
  <2>1. /\ queue' = queue /\ phase' = phase /\ moved' = moved /\ talk' = talk
        /\ heard' = heard /\ before' = before
        /\ station' = [c \in Conns |-> None] /\ decoder' = [c \in Conns |-> None]
        /\ whole' = [c \in Conns |-> FALSE]
    BY <1>4 DEF Reset, wireVars
  <2>2. HearTypes'
    BY <1>0, <2>1 DEF HearTypes
  <2>3. ASSUME NEW c \in Conns, IsUnderstood(c) PROVE KeepsUp(c)'
    <3>1. ~whole'[c] /\ decoder'[c] = None
      BY <2>1
    <3>2. Unstarted(c)' /\ Told(c)'
      BY <1>0, <2>3, <2>1, <3>1 DEF KeepsUp, Unstarted, Told
    <3> QED
      BY <3>1, <3>2 DEF KeepsUp
  <2> QED
    BY <1>0, <1>1, <1>2, <2>1, <2>2, <2>3 DEF ShownInv
<1>5. ASSUME NEW e, Receive(e)
      PROVE  /\ queue # <<>> /\ queue' = Tail(queue) /\ e = Head(queue)
             /\ phase' = phase /\ moved' = moved /\ talk' = talk /\ whole' = whole
             /\ resetting' = resetting /\ ~resetting
  BY <1>5 DEF Receive, wireVars
<1>6. CASE HearOpen
  <2>1. PICK b \in Conns : Receive(Event(b, "open")) /\ UNCHANGED shownVars
    BY <1>6 DEF HearOpen
  <2>2. Head(queue) = Event(b, "open") /\ Event(b, "open").kind = "open" /\ "open" \notin Directions
    BY <1>5, <2>1 DEF Event, Directions
  <2>3. station' = station /\ decoder' = decoder /\ heard' = heard /\ before' = before
    BY <2>1 DEF shownVars
  <2> QED
    BY <1>1, <1>5, <2>1, <2>2, <2>3, TakingKeepsUp
<1>7. CASE HearUpdate
  <2>1. PICK b \in Conns : /\ Receive(Event(b, "update"))
                           /\ station' = [station EXCEPT ![b] = IF @ = None THEN <<>> ELSE @]
                           /\ decoder' = decoder /\ heard' = heard /\ before' = before
    BY <1>7 DEF HearUpdate
  <2>2. /\ Head(queue) = Event(b, "update") /\ Event(b, "update").kind = "update"
        /\ Event(b, "update").conn = b /\ "update" \notin Directions
    BY <1>5, <2>1 DEF Event, Directions
  <2>3. ~Nothing(queue, b)
    <3>1. queue # <<>> /\ 1 \in 1..Len(queue) /\ Head(queue) = queue[1]
      BY <1>0, <1>5, <2>1 DEF Types
    <3> QED
      BY <2>2, <3>1 DEF Nothing
  <2>4. ASSUME NEW c \in Conns, IsUnderstood(c), whole[c] PROVE station'[c] = station[c]
    <3>1. IsUnderstood(b) /\ whole[b] => station[b] # None
      BY <1>0, <2>3 DEF KeepsUp, Told
    <3> QED
      BY <1>0, <2>1, <2>4, <3>1 DEF Types
  <2> QED
    BY <1>1, <1>5, <2>1, <2>2, <2>4, TakingKeepsUp
<1>8. CASE HearClose
  <2>1. PICK b \in Conns : /\ Receive(Event(b, "close"))
                           /\ station' = [station EXCEPT ![b] = None]
                           /\ decoder' = decoder /\ heard' = heard /\ before' = before
    BY <1>8 DEF HearClose
  <2>2. /\ Head(queue) = Event(b, "close") /\ Event(b, "close").kind = "close"
        /\ Event(b, "close").conn = b /\ "close" \notin Directions
    BY <1>5, <2>1 DEF Event, Directions
  <2>3. ASSUME NEW c \in Conns
        PROVE  \/ station'[c] = station[c]
               \/ station'[c] = None /\ Head(queue).conn = c /\ Head(queue).kind = "close"
    BY <1>0, <2>1, <2>2 DEF Types
  <2> QED
    BY <1>1, <1>5, <2>1, <2>2, <2>3, TakingKeepsUp
<1>9. CASE HearBytes
  <2>1. PICK b \in Conns, d \in Directions :
          /\ Head(queue).conn = b /\ Head(queue).kind = d /\ Receive(Head(queue))
          /\ decoder' = [decoder EXCEPT ![b] = Decoded(b, d, Carried(b, Head(queue))).o]
          /\ station' = [station EXCEPT ![b] =
               Shown(b, d, Decoded(b, d, Carried(b, Head(queue))).items)]
          /\ heard'  = [heard  EXCEPT ![b] = IF whole[b] THEN [@ EXCEPT ![d] = Head(queue).to]
                                             ELSE @]
          /\ before' = [before EXCEPT ![b] = IF whole[b] THEN heard[b] ELSE @]
    BY <1>9 DEF HearBytes
  <2>2. /\ queue # <<>> /\ queue' = Tail(queue) /\ 1 \in 1..Len(queue) /\ Head(queue) = queue[1]
        /\ Said(queue, b, d, 1) /\ queue \in Seq(Events)
    BY <1>0, <1>5, <2>1 DEF Types, Said
  <2>3. Head(queue).to \in Int
    BY <2>2, EventNumbers
  <2> DEFINE z == Decoded(b, d, Carried(b, Head(queue)))
             p == Head(queue).to
  <2>4. HearTypes'
    <3>1. heard \in [Conns -> [Directions -> Int]] /\ heard[b] \in [Directions -> Int]
      BY <1>0 DEF HearTypes
    <3>2. [heard[b] EXCEPT ![d] = p] \in [Directions -> Int]
      BY <2>3, <3>1
    <3>3. heard' \in [Conns -> [Directions -> Int]]
      BY <2>1, <3>1, <3>2
    <3>4. before' \in [Conns -> [Directions -> Int]]
      BY <1>0, <2>1, <3>1 DEF HearTypes
    <3>5. whole' = whole /\ decoder' = [c \in Conns |-> decoder'[c]]
      <4> HIDE DEF z
      <4> QED
        BY <1>0, <1>5, <2>1 DEF HearTypes
    <3> QED
      BY <1>0, <3>3, <3>4, <3>5 DEF HearTypes
  <2>5. /\ decoder'[b] = z.o /\ station'[b] = Shown(b, d, z.items)
        /\ whole[b] => /\ heard'[b] = [heard[b] EXCEPT ![d] = p]
                       /\ before'[b] = heard[b]
    <3>1. b \in DOMAIN decoder /\ b \in DOMAIN station /\ b \in DOMAIN heard /\ b \in DOMAIN before
      BY <1>0 DEF HearTypes, Types
    <3> QED
      BY <2>1, <3>1
  <2>6. IsUnderstood(b) => KeepsUp(b)'
    <3> SUFFICES ASSUME IsUnderstood(b) PROVE KeepsUp(b)'
      OBVIOUS
    <3>1. /\ KeepsUp(b) /\ (talk[b] # None => Understood(talk[b]))
          /\ ~resetting /\ resetting' = resetting
          /\ talk' = talk /\ phase' = phase /\ moved' = moved /\ whole' = whole
      BY <1>0, <1>5, <2>1 DEF IsUnderstood
    <3> DEFINE y == z
    <3>2. y = Decoded(b, d, Carried(b, Head(queue)))
      OBVIOUS
    <3>3. /\ decoder'[b] = y.o /\ station'[b] = Shown(b, d, y.items)
          /\ whole[b] => /\ heard'[b] = [heard[b] EXCEPT ![d] = Head(queue).to]
                         /\ before'[b] = heard[b]
      BY <2>5
    <3> HIDE DEF y
    <3> QED
      BY <1>0, <2>2, <3>1, <3>2, <3>3, HearStep
  <2>7. ASSUME NEW c \in Conns, IsUnderstood(c), c # b PROVE KeepsUp(c)'
    <3>1. Untouched(c) /\ station'[c] = station[c]
      <4> HIDE DEF z
      <4> QED
        BY <1>0, <1>5, <2>1, <2>7 DEF Untouched, HearTypes, Types
    <3>2. \A e \in Directions : ~Said(queue, c, e, 1)
      BY <2>2, <2>7 DEF Said
    <3>3. ~resetting /\ phase' = phase /\ moved' = moved /\ whole' = whole
      BY <1>5, <2>1
    <3> QED
      BY <1>0, <2>7, <2>2, <3>1, <3>2, <3>3, TakeStep
  <2>8. talk' = talk
    BY <1>5, <2>1
  <2> QED
    BY <1>0, <1>1, <1>2, <2>4, <2>6, <2>7, <2>8 DEF ShownInv
<1> QED
  BY <1>3, <1>4, <1>6, <1>7, <1>8, <1>9 DEF Observing

\* Nothing is shown at first.
LEMMA ShownInit ==
  ASSUME Init PROVE ShownInv
<1>1. GhostInv
  BY GhostInit
<1>2. Nowhere \in [Directions -> Int] /\ \A d \in Directions : Nowhere[d] = 0
  BY DEF Nowhere, Directions
<1>3. HearTypes /\ talk \in Talks
  BY <1>2 DEF Init, HearTypes
<1>4. ASSUME NEW c \in Conns PROVE KeepsUp(c)
  <2>1. queue = <<>> /\ Len(queue) = 0 /\ phase[c] = "out" /\ ~whole[c] /\ decoder[c] = None
        /\ moved[c] = Nowhere /\ heard[c] = Nowhere /\ before[c] = Nowhere
    BY DEF Init
  <2>2. Nothing(queue, c) /\ NoClose(queue, c) /\ CloseLast(queue, c)
    BY <2>1 DEF Nothing, NoClose, CloseLast
  <2>3. Unstarted(c) /\ Told(c)
    BY <1>2, <2>1, <2>2 DEF Unstarted, Told
  <2> QED
    BY <2>1, <2>3 DEF KeepsUp
<1> QED
  BY <1>1, <1>3, <1>4 DEF ShownInv

\* Every step of the program keeps up.
LEMMA ShownStep ==
  ASSUME NoneIsNew, ShownInv, [Next]_vars
  PROVE  ShownInv'
<1>1. ObserverAssumption
  BY ObserverAssumption
<1>2. CASE \E c \in Conns : Connection(c)
  BY <1>1, <1>2, ConnectionShows
<1>3. CASE Toggle \/ UNCHANGED vars
  <2>1. /\ queue' = queue /\ phase' = phase /\ moved' = moved /\ resetting' = resetting
        /\ station' = station /\ talk' = talk /\ decoder' = decoder /\ heard' = heard
        /\ before' = before /\ whole' = whole
    BY <1>3 DEF Toggle, vars, wireVars, shownVars
  <2>2. GhostInv'
    BY <1>3, GhostIdle DEF ShownInv
  <2>3. HearTypes' /\ talk' \in Talks
    BY <2>1 DEF ShownInv, HearTypes
  <2>4. ASSUME NEW c \in Conns, IsUnderstood(c) PROVE KeepsUp(c)'
    <3>1. KeepsUp(c)
      BY <2>4 DEF ShownInv
    <3> QED
      BY <2>1, <3>1 DEF KeepsUp, Unstarted, Told, Followed, DecoderOf
  <2> QED
    BY <2>1, <2>2, <2>3, <2>4 DEF ShownInv, IsUnderstood
<1>4. CASE Observing
  BY <1>4, ObservingShows
<1> QED
  BY <1>2, <1>3, <1>4 DEF Next

\* What ShownIsSent says of one connection.
ConnShownIsSent(c) ==
  whole[c] /\ station[c] # None =>
    \A d \in Directions : ShownInOrder(c, d) /\ NothingHeldBack(c, d)

\* However the bytes are cut into reads and writes, whatever other connections speak,
\* and whether their events come in between, are lost or cause a reset: what is shown of
\* a connection over HTTP/1, with or without a websocket, or over HTTP/2 with whole
\* header blocks, is what was said, in order and with its content, up to a head that
\* misleads; and nothing is held back but what Hidden names: what lies behind such a
\* head, requests after a refused websocket, frames after its close, and all HTTP/2 that
\* the peek has missed, of which nothing is shown.  For any connections, conversations
\* and capacity of the channel (managed_stream.rs 383-385, 783-918, observer.rs 166-345,
\* h1_parser.rs 156-240, h2_parser.rs 320-437).
THEOREM UnderstoodIsShown ==
  ASSUME NoneIsNew
  PROVE  Spec => [](\A c \in Conns : IsUnderstood(c) => ConnShownIsSent(c))
<1>1. NoneIsNew
  OBVIOUS
<1>2. Init => ShownInv
  BY ShownInit
<1>3. ShownInv /\ [Next]_vars => ShownInv'
  BY <1>1, ShownStep
<1>4. ShownInv => \A c \in Conns : IsUnderstood(c) => ConnShownIsSent(c)
  <2> SUFFICES ASSUME ShownInv, NEW c \in Conns, IsUnderstood(c), whole[c], station[c] # None,
                      NEW d \in Directions
               PROVE  ShownInOrder(c, d) /\ NothingHeldBack(c, d)
    BY DEF ConnShownIsSent
  <2>1. Followed(c)
    BY DEF ShownInv, KeepsUp
  <2> QED
    BY <2>1, KeepsPaceShows DEF Followed
<1> QED
  BY <1>2, <1>3, <1>4, PTL DEF Spec

\* Where all conversations are of these kinds, what ShownIsSent says holds of all of
\* them, with the exceptions that it names (observer.rs 166-345).
THEOREM ShownIsSentCorrect ==
  ASSUME AllUnderstood, NoneIsNew
  PROVE  Spec => []ShownIsSent
<1>1. NoneIsNew /\ AllUnderstood
  OBVIOUS
<1>2. Init => ShownInv
  BY ShownInit
<1>3. ShownInv /\ [Next]_vars => ShownInv'
  BY <1>1, ShownStep
<1>4. Spec => [](\A c \in Conns : IsUnderstood(c) => ConnShownIsSent(c))
  BY <1>1, UnderstoodIsShown
<1>5. ShownInv /\ (\A c \in Conns : IsUnderstood(c) => ConnShownIsSent(c)) => ShownIsSent
  <2> SUFFICES ASSUME ShownInv, \A c \in Conns : IsUnderstood(c) => ConnShownIsSent(c)
               PROVE  ShownIsSent
    OBVIOUS
  <2>1. \A c \in Conns : IsUnderstood(c)
    BY <1>1 DEF AllUnderstood, ShownInv, IsUnderstood
  <2> QED
    BY <2>1 DEF ShownIsSent, ConnShownIsSent
<1> QED
  BY <1>2, <1>3, <1>4, <1>5, PTL DEF Spec
=============================================================================
