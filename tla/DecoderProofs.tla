---------------------------- MODULE DecoderProofs ----------------------------
(***************************************************************************)
(* What the decoders make of a conversation whose bytes reach them in      *)
(* order, however they are cut: first that of HTTP/1 and of websockets,    *)
(* then that of HTTP/2.  For each an invariant (Follows, Follows2) relates *)
(* the decoder and the list that is shown to the number of units that have *)
(* been heard, every event keeps it (FollowsHears, Follows2Hears), and it  *)
(* gives what ShownIsSent asks for (FollowsShows, Follows2Shows).  The     *)
(* last section puts the two together.  ObserverProofs shows that the      *)
(* bytes do come in order.                                                 *)
(***************************************************************************)
EXTENDS Observer, SequenceTheorems, WellFoundedInduction, TLAPS

\* A set of numbers has a least one.
LEMMA Least ==
  ASSUME NEW T, T \subseteq Nat, T # {}
  PROVE  \E x \in T : \A y \in T : x <= y
<1> DEFINE R == OpToRel(<, Nat)
<1>1. IsWellFoundedOn(R, Nat)
  BY NatLessThanWellFounded
<1>2. \A x, y \in Nat : x < y => <<x, y>> \in R
  BY DEF OpToRel
<1> HIDE DEF R
<1>3. PICK x \in T : \A y \in T : <<y, x>> \notin R
  BY <1>1, WFMin
<1>4. \A y \in T : x <= y
  <2> TAKE y \in T
  <2>1. x \in Nat /\ y \in Nat
    OBVIOUS
  <2>2. ~(y < x)
    BY <2>1, <1>2, <1>3
  <2> QED
    BY <2>1, <2>2
<1> QED
  BY <1>4

\* By induction up to n.
LEMMA UpTo ==
  ASSUME NEW n \in Nat, NEW S, 0 \in S, \A i \in 1..n : i - 1 \in S => i \in S
  PROVE  \A i \in 0..n : i \in S
<1> SUFFICES ASSUME (0..n) \ S # {} PROVE FALSE
  OBVIOUS
<1> DEFINE T == (0..n) \ S
<1>0. T \subseteq Nat /\ T # {}
  OBVIOUS
<1>1. PICK x \in T : \A y \in T : x <= y
  <2> HIDE DEF T
  <2> QED
    BY <1>0, Least
<1>2. x # 0 /\ x \in 1..n /\ x - 1 \in 0..n /\ x - 1 \in S
  BY <1>1
<1> QED
  BY <1>1, <1>2

\* A conversation with messages of at least one unit.
Spoken(t) ==
  \A d \in Directions :
    /\ Len(t[d]) \in Nat /\ DOMAIN t[d] = 1..Len(t[d])
    /\ \A i \in 1..Len(t[d]) : t[d][i].len \in Nat \ {0}

\* A unit of a conversation, and the place where message n of it ends.
Marks == Directions \X Nat \X Nat
End(t, d, n) == Len(Units(t, d, n))

\* Step i of the recursion of Units.
UnitStep(t, d, f, i) == IF i = 0 THEN <<>> ELSE f[i - 1] \o OwnUnits(t, d, i)

\* The recursion of Units, step by step.
LEMMA UnitsDef ==
  ASSUME NEW t, NEW d, Len(t[d]) \in Nat
  PROVE  /\ Units(t, d, 0) = <<>>
         /\ \A i \in 1..Len(t[d]) : Units(t, d, i) = Units(t, d, i - 1) \o OwnUnits(t, d, i)
<1> DEFINE L == Len(t[d])
           S == {n \in 0..L : \E f : f = [i \in 0..n |-> UnitStep(t, d, f, i)]}
           F == CHOOSE f : f = [i \in 0..L |-> UnitStep(t, d, f, i)]
<1>1. 0 \in S
  <2> DEFINE f == [i \in 0..0 |-> <<>>]
  <2>1. f = [i \in 0..0 |-> UnitStep(t, d, f, i)]
    BY DEF UnitStep
  <2> QED
    BY <2>1
<1>2. ASSUME NEW n \in 1..L, n - 1 \in S PROVE n \in S
  <2>1. PICK f : f = [i \in 0..n - 1 |-> UnitStep(t, d, f, i)]
    BY <1>2
  <2> DEFINE g == [i \in 0..n |-> IF i \in 0..n - 1 THEN f[i] ELSE UnitStep(t, d, f, i)]
  <2>2. \A i \in 0..n : g[i] = UnitStep(t, d, g, i)
    <3> TAKE i \in 0..n
    <3>1. i # 0 => i - 1 \in 0..n - 1 /\ g[i - 1] = f[i - 1]
      OBVIOUS
    <3>2. UnitStep(t, d, g, i) = UnitStep(t, d, f, i)
      BY <3>1 DEF UnitStep
    <3>3. i \in 0..n - 1 => f[i] = UnitStep(t, d, f, i)
      BY <2>1
    <3> QED
      BY <3>2, <3>3
  <2> HIDE DEF g
  <2>3. g = [i \in 0..n |-> UnitStep(t, d, g, i)]
    BY <2>2 DEF g
  <2> QED
    BY <2>3
<1>3. L \in S
  <2>1. L \in Nat
    OBVIOUS
  <2> HIDE DEF S, L
  <2>2. \A n \in 0..L : n \in S
    BY <1>1, <1>2, <2>1, UpTo
  <2> QED
    BY <2>1, <2>2
<1>4. F = [i \in 0..L |-> UnitStep(t, d, F, i)]
  BY <1>3
<1>5. \A n : Units(t, d, n) = F[n]
  BY Zenon DEF Units, UnitStep
<1> HIDE DEF S, F
<1>6. \A i \in 0..L : F[i] = UnitStep(t, d, F, i)
  BY <1>4
<1>7. 0 \in 0..L /\ \A i \in 1..L : i \in 0..L /\ i # 0
  OBVIOUS
<1> QED
  BY <1>5, <1>6, <1>7 DEF UnitStep

\* The units of one message.
LEMMA OwnUnitsAre ==
  ASSUME NEW t, Spoken(t), NEW d \in Directions, NEW i \in 1..Len(t[d])
  PROVE  /\ OwnUnits(t, d, i) \in Seq(Marks) /\ Len(OwnUnits(t, d, i)) = t[d][i].len
         /\ \A j \in 1..t[d][i].len : OwnUnits(t, d, i)[j] = <<d, i, j>>
<1>1. t[d][i].len \in Nat /\ i \in Nat
  BY DEF Spoken
<1>2. \A j \in 1..t[d][i].len : <<d, i, j>> \in Marks
  BY <1>1 DEF Marks
<1> QED
  BY <1>1, <1>2 DEF OwnUnits

\* The units of the first n messages follow each other message by message.
LEMMA UnitsAre ==
  ASSUME NEW t, Spoken(t), NEW d \in Directions
  PROVE  /\ \A n \in 0..Len(t[d]) : Units(t, d, n) \in Seq(Marks) /\ End(t, d, n) \in Nat
         /\ End(t, d, 0) = 0
         /\ \A n \in 1..Len(t[d]) : End(t, d, n) = End(t, d, n - 1) + t[d][n].len
<1> DEFINE L == Len(t[d])
           S == {n \in 0..L : Units(t, d, n) \in Seq(Marks)}
<1>0. L \in Nat
  BY DEF Spoken
<1>1. Units(t, d, 0) = <<>>
      /\ \A i \in 1..L : Units(t, d, i) = Units(t, d, i - 1) \o OwnUnits(t, d, i)
  BY <1>0, UnitsDef
<1>2. 0 \in S
  <2>1. Units(t, d, 0) \in Seq(Marks)
    BY <1>1, EmptySeq
  <2> QED
    BY <1>0, <2>1
<1>3. ASSUME NEW i \in 1..L, i - 1 \in S PROVE i \in S
  <2>1. Units(t, d, i) = Units(t, d, i - 1) \o OwnUnits(t, d, i)
    BY <1>1
  <2>2. Units(t, d, i - 1) \in Seq(Marks) /\ OwnUnits(t, d, i) \in Seq(Marks)
    BY <1>3, OwnUnitsAre
  <2>3. Units(t, d, i) \in Seq(Marks)
    BY <2>1, <2>2, ConcatProperties
  <2> QED
    BY <2>3
<1>4. \A n \in 0..L : n \in S
  <2> HIDE DEF S, L
  <2> QED
    BY <1>0, <1>2, <1>3, UpTo
<1>5. \A n \in 0..L : Units(t, d, n) \in Seq(Marks) /\ End(t, d, n) \in Nat
  BY <1>4 DEF End
<1>6. ASSUME NEW n \in 1..L PROVE End(t, d, n) = End(t, d, n - 1) + t[d][n].len
  <2>1. n - 1 \in 0..L
    OBVIOUS
  <2>2. Units(t, d, n - 1) \in Seq(Marks)
    BY <1>5, <2>1
  <2>3. Len(Units(t, d, n - 1) \o OwnUnits(t, d, n))
          = Len(Units(t, d, n - 1)) + Len(OwnUnits(t, d, n))
    BY <2>2, OwnUnitsAre, ConcatProperties
  <2> QED
    BY <1>1, <2>3, OwnUnitsAre DEF End
<1> QED
  BY <1>1, <1>5, <1>6 DEF End

\* A later message ends later.
LEMMA EndsGrow ==
  ASSUME NEW t, Spoken(t), NEW d \in Directions, NEW m \in 0..Len(t[d])
  PROVE  \A n \in 0..Len(t[d]) : m < n => End(t, d, m) < End(t, d, n)
<1> DEFINE L == Len(t[d])
           S == {n \in 0..L : m < n => End(t, d, m) < End(t, d, n)}
<1>0. L \in Nat
  BY DEF Spoken
<1>1. 0 \in S
  BY <1>0
<1>2. ASSUME NEW n \in 1..L, n - 1 \in S PROVE n \in S
  <2>1. End(t, d, n) = End(t, d, n - 1) + t[d][n].len /\ t[d][n].len \in Nat \ {0}
    BY UnitsAre DEF Spoken
  <2>2. n - 1 \in 0..L /\ End(t, d, n) \in Nat /\ End(t, d, n - 1) \in Nat /\ End(t, d, m) \in Nat
    BY UnitsAre
  <2>3. m < n => m = n - 1 \/ m < n - 1
    OBVIOUS
  <2> QED
    BY <1>2, <2>1, <2>2, <2>3
<1>3. \A n \in 0..L : n \in S
  <2> HIDE DEF S, L
  <2> QED
    BY <1>0, <1>1, <1>2, UpTo
<1> QED
  BY <1>3

\* Unit j of message k is at the same place however many messages are counted.
LEMMA UnitAt ==
  ASSUME NEW t, Spoken(t), NEW d \in Directions, NEW k \in 1..Len(t[d]),
         NEW j \in 1..t[d][k].len
  PROVE  \A n \in 0..Len(t[d]) : k <= n => Units(t, d, n)[End(t, d, k - 1) + j] = <<d, k, j>>
<1> DEFINE L == Len(t[d])
           p == End(t, d, k - 1) + j
           S == {n \in 0..L : k <= n => Units(t, d, n)[p] = <<d, k, j>>}
<1>0. L \in Nat /\ t[d][k].len \in Nat /\ k - 1 \in 0..L /\ End(t, d, k - 1) \in Nat
  BY UnitsAre DEF Spoken
<1>1. 0 \in S
  BY <1>0
<1>2. ASSUME NEW n \in 1..L, n - 1 \in S PROVE n \in S
  <2> SUFFICES ASSUME k <= n PROVE Units(t, d, n)[p] = <<d, k, j>>
    BY <1>0
  <2>1. Units(t, d, n) = Units(t, d, n - 1) \o OwnUnits(t, d, n)
    BY <1>0, UnitsDef
  <2>2. n - 1 \in 0..L /\ Units(t, d, n - 1) \in Seq(Marks) /\ End(t, d, n - 1) \in Nat
    BY UnitsAre
  <2>a. t[d][n].len \in Nat
    BY DEF Spoken
  <2>3. OwnUnits(t, d, n) \in Seq(Marks) /\ Len(OwnUnits(t, d, n)) = t[d][n].len
        /\ t[d][n].len \in Nat
    BY <2>a, OwnUnitsAre
  <2>4. \A i \in 1..End(t, d, n - 1) + t[d][n].len :
          Units(t, d, n)[i] = IF i <= End(t, d, n - 1) THEN Units(t, d, n - 1)[i]
                              ELSE OwnUnits(t, d, n)[i - End(t, d, n - 1)]
    BY <2>1, <2>2, <2>3, ConcatProperties DEF End
  <2>5. CASE k = n
    <3>1. p \in 1..End(t, d, n - 1) + t[d][n].len /\ ~(p <= End(t, d, n - 1))
          /\ p - End(t, d, n - 1) = j
      BY <1>0, <2>2, <2>3, <2>5, SMTT(30)
    <3>2. OwnUnits(t, d, n)[j] = <<d, k, j>>
      BY <2>5, OwnUnitsAre
    <3> QED
      BY <3>1, <3>2, <2>4
  <2>6. CASE k # n
    <3>1. (k < n - 1 \/ k = n - 1) /\ k <= n - 1 /\ k \in 0..L /\ k \in Nat
      BY <2>6
    <3>2. End(t, d, k) = End(t, d, k - 1) + t[d][k].len
      BY UnitsAre
    <3>a. End(t, d, k) \in Nat
      BY <3>1, UnitsAre
    <3>b. k < n - 1 => End(t, d, k) < End(t, d, n - 1)
      BY <3>1, <2>2, EndsGrow
    <3>3. End(t, d, k) <= End(t, d, n - 1) /\ End(t, d, k) \in Nat
      BY <3>1, <2>2, <3>a, <3>b
    <3> HIDE DEF p
    <3>c. p \in Int /\ p >= 1 /\ p <= End(t, d, k)
      BY <1>0, <3>2, <3>3 DEF p
    <3>4. p \in 1..End(t, d, n - 1) + t[d][n].len /\ p <= End(t, d, n - 1)
      BY <2>2, <2>3, <3>3, <3>c, SMTT(30)
    <3> QED
      BY <3>1, <3>4, <2>4, <1>2
  <2> QED
    BY <2>5, <2>6
<1>3. \A n \in 0..L : n \in S
  <2> HIDE DEF S, L
  <2> QED
    BY <1>0, <1>1, <1>2, UpTo
<1> QED
  BY <1>3

\* Every place belongs to a message.
LEMMA PlaceOf ==
  ASSUME NEW t, Spoken(t), NEW d \in Directions
  PROVE  \A n \in 0..Len(t[d]) : \A p \in 1..End(t, d, n) :
           \E k \in 1..n : End(t, d, k - 1) < p /\ p <= End(t, d, k)
<1> DEFINE L == Len(t[d])
           S == {n \in 0..L : \A p \in 1..End(t, d, n) :
                   \E k \in 1..n : End(t, d, k - 1) < p /\ p <= End(t, d, k)}
<1>0. L \in Nat
  BY DEF Spoken
<1>1. 0 \in S
  BY <1>0, UnitsAre
<1>2. ASSUME NEW n \in 1..L, n - 1 \in S PROVE n \in S
  <2> SUFFICES ASSUME NEW p \in 1..End(t, d, n)
               PROVE  \E k \in 1..n : End(t, d, k - 1) < p /\ p <= End(t, d, k)
    BY <1>0
  <2>1. End(t, d, n) \in Nat /\ n - 1 \in 0..L /\ End(t, d, n - 1) \in Nat
    BY UnitsAre
  <2>2. CASE p <= End(t, d, n - 1)
    <3>1. PICK k \in 1..n - 1 : End(t, d, k - 1) < p /\ p <= End(t, d, k)
      BY <1>2, <2>1, <2>2
    <3> QED
      BY <3>1
  <2>3. CASE ~(p <= End(t, d, n - 1))
    BY <2>1, <2>3
  <2> QED
    BY <2>2, <2>3
<1>3. \A n \in 0..L : n \in S
  <2> HIDE DEF S, L
  <2> QED
    BY <1>0, <1>1, <1>2, UpTo
<1> QED
  BY <1>3

-----------------------------------------------------------------------------
(***************************************************************************)
(* What has gone by of a direction, and what is left of it in a buffer.    *)
(***************************************************************************)
\* What has gone by after place p, up to place h.
Window(t, d, p, h) == SubSeq(AllUnits(t, d), p + 1, h)
Total(t, d) == End(t, d, Len(t[d]))

\* All the units of a direction, and where its messages end among them.
LEMMA AllAre ==
  ASSUME NEW t, Spoken(t), NEW d \in Directions
  PROVE  /\ AllUnits(t, d) \in Seq(Marks) /\ Total(t, d) \in Nat
         /\ Len(AllUnits(t, d)) = Total(t, d)
         /\ \A n \in 0..Len(t[d]) : End(t, d, n) \in 0..Total(t, d)
<1>1. Len(t[d]) \in Nat /\ Len(t[d]) \in 0..Len(t[d])
  BY DEF Spoken
<1>2. AllUnits(t, d) \in Seq(Marks) /\ Total(t, d) \in Nat
      /\ Len(AllUnits(t, d)) = Total(t, d)
  BY <1>1, UnitsAre DEF AllUnits, Total, End
<1>3. ASSUME NEW n \in 0..Len(t[d]) PROVE End(t, d, n) \in 0..Total(t, d)
  <2>1. End(t, d, n) \in Nat
    BY UnitsAre
  <2>2. n < Len(t[d]) => End(t, d, n) < Total(t, d)
    BY <1>1, EndsGrow DEF Total
  <2>3. n = Len(t[d]) \/ n < Len(t[d])
    BY <1>1
  <2> QED
    BY <1>2, <2>1, <2>2, <2>3 DEF Total
<1> QED
  BY <1>2, <1>3

\* The units of a window are those of the direction, moved down.
LEMMA WindowIs ==
  ASSUME NEW t, Spoken(t), NEW d \in Directions,
         NEW h \in 0..Total(t, d), NEW p \in 0..h
  PROVE  /\ Window(t, d, p, h) \in Seq(Marks) /\ Len(Window(t, d, p, h)) = h - p
         /\ \A i \in 1..h - p : Window(t, d, p, h)[i] = AllUnits(t, d)[p + i]
         /\ Window(t, d, p, h) = <<>> <=> p = h
<1>1. AllUnits(t, d) \in Seq(Marks) /\ Total(t, d) \in Nat
      /\ Len(AllUnits(t, d)) = Total(t, d)
  BY AllAre
<1>2. \A i \in p + 1..h : AllUnits(t, d)[i] \in Marks
  BY <1>1, ElementOfSeq
<1>3. p + 1 \in Int /\ h \in Int
  BY <1>1
<1>4. /\ Window(t, d, p, h) \in Seq(Marks)
      /\ Len(Window(t, d, p, h)) = IF p + 1 <= h THEN h - (p + 1) + 1 ELSE 0
      /\ \A i \in 1..h - (p + 1) + 1 : Window(t, d, p, h)[i] = AllUnits(t, d)[(p + 1) + i - 1]
  BY <1>2, <1>3, SubSeqProperties DEF Window
<1>5. Len(Window(t, d, p, h)) = h - p
  BY <1>1, <1>4
<1>6. \A i \in 1..h - p : Window(t, d, p, h)[i] = AllUnits(t, d)[p + i]
  <2> TAKE i \in 1..h - p
  <2>1. h - (p + 1) + 1 = h - p /\ (p + 1) + i - 1 = p + i
    BY <1>1
  <2> QED
    BY <1>4, <2>1
<1>7. Window(t, d, p, h) = <<>> <=> Len(Window(t, d, p, h)) = 0
  BY <1>4
<1> QED
  BY <1>1, <1>4, <1>5, <1>6, <1>7

\* The place where message k begins.
LEMMA Begins ==
  ASSUME NEW t, Spoken(t), NEW d \in Directions, NEW k \in 1..Len(t[d]),
         NEW j \in 1..t[d][k].len
  PROVE  /\ AllUnits(t, d)[End(t, d, k - 1) + j] = <<d, k, j>>
         /\ End(t, d, k) = End(t, d, k - 1) + t[d][k].len
         /\ k - 1 \in 0..Len(t[d]) /\ t[d][k].len \in Nat \ {0}
<1>1. Len(t[d]) \in Nat /\ Len(t[d]) \in 0..Len(t[d]) /\ k <= Len(t[d]) /\ k - 1 \in 0..Len(t[d])
      /\ t[d][k].len \in Nat \ {0}
  BY DEF Spoken
<1> QED
  BY <1>1, UnitAt, UnitsAre DEF AllUnits

\* A place is unit j of the message it belongs to.
LEMMA MarkAt ==
  ASSUME NEW t, Spoken(t), NEW d \in Directions, NEW p \in 1..Total(t, d)
  PROVE  \E k \in 1..Len(t[d]) : \E j \in 1..t[d][k].len :
           /\ p = End(t, d, k - 1) + j /\ AllUnits(t, d)[p] = <<d, k, j>>
           /\ End(t, d, k - 1) < p /\ p <= End(t, d, k)
<1>1. Len(t[d]) \in Nat /\ Len(t[d]) \in 0..Len(t[d])
  BY DEF Spoken
<1>2. PICK k \in 1..Len(t[d]) : End(t, d, k - 1) < p /\ p <= End(t, d, k)
  BY <1>1, PlaceOf DEF Total
<1>3. k - 1 \in 0..Len(t[d]) /\ End(t, d, k - 1) \in Nat
      /\ End(t, d, k) = End(t, d, k - 1) + t[d][k].len /\ t[d][k].len \in Nat
  BY <1>1, UnitsAre, SMTT(30) DEF Spoken
<1> DEFINE j == p - End(t, d, k - 1)
<1>4. j \in 1..t[d][k].len /\ p = End(t, d, k - 1) + j
  BY <1>2, <1>3
<1> HIDE DEF j
<1> QED
  BY <1>2, <1>4, Begins

\* Appending what goes by next.
LEMMA WindowGrows ==
  ASSUME NEW t, Spoken(t), NEW d \in Directions,
         NEW g \in 0..Total(t, d), NEW h \in 0..g, NEW p \in 0..h
  PROVE  Window(t, d, p, h) \o SubSeq(AllUnits(t, d), h + 1, g) = Window(t, d, p, g)
<1> DEFINE A == Window(t, d, p, h)
           B == Window(t, d, h, g)
           C == Window(t, d, p, g)
<1>1. Total(t, d) \in Nat /\ h \in 0..Total(t, d) /\ p \in 0..g
  BY AllAre
<1>2. /\ A \in Seq(Marks) /\ Len(A) = h - p
      /\ \A i \in 1..h - p : A[i] = AllUnits(t, d)[p + i]
  <2>1. A \in Seq(Marks)
    BY <1>1, WindowIs
  <2>2. Len(A) = h - p
    BY <1>1, WindowIs
  <2>3. \A i \in 1..h - p : A[i] = AllUnits(t, d)[p + i]
    BY <1>1, WindowIs, SMTT(30)
  <2> QED
    BY <2>1, <2>2, <2>3
<1>3. /\ B \in Seq(Marks) /\ Len(B) = g - h
      /\ \A i \in 1..g - h : B[i] = AllUnits(t, d)[h + i]
  <2>1. B \in Seq(Marks)
    BY WindowIs
  <2>2. Len(B) = g - h
    BY WindowIs
  <2>3. \A i \in 1..g - h : B[i] = AllUnits(t, d)[h + i]
    BY WindowIs
  <2> QED
    BY <2>1, <2>2, <2>3
<1>4. /\ C \in Seq(Marks) /\ Len(C) = g - p
      /\ \A i \in 1..g - p : C[i] = AllUnits(t, d)[p + i]
  <2>1. C \in Seq(Marks)
    BY <1>1, WindowIs
  <2>2. Len(C) = g - p
    BY <1>1, WindowIs
  <2>3. \A i \in 1..g - p : C[i] = AllUnits(t, d)[p + i]
    BY <1>1, WindowIs
  <2> QED
    BY <2>1, <2>2, <2>3
<1>5. SubSeq(AllUnits(t, d), h + 1, g) = B
  BY DEF Window
<1> HIDE DEF A, B, C
<1>6. /\ A \o B \in Seq(Marks) /\ Len(A \o B) = Len(A) + Len(B)
      /\ \A i \in 1..Len(A) + Len(B) : (A \o B)[i] = IF i <= Len(A) THEN A[i] ELSE B[i - Len(A)]
  BY <1>2, <1>3, ConcatProperties
<1>7. Len(A \o B) = Len(C)
  BY <1>1, <1>2, <1>3, <1>4, <1>6
<1>8. ASSUME NEW i \in 1..Len(A \o B) PROVE (A \o B)[i] = C[i]
  <2>1. i \in 1..g - p /\ Len(A \o B) = g - p /\ Len(A) + Len(B) = g - p
    BY <1>1, <1>2, <1>3, <1>6
  <2>2. CASE i <= Len(A)
    BY <1>1, <1>2, <1>4, <1>6, <2>1, <2>2
  <2>3. CASE ~(i <= Len(A))
    <3>1. i - Len(A) \in 1..g - h /\ h + (i - Len(A)) = p + i
      BY <1>1, <1>2, <2>1, <2>3
    <3> QED
      BY <1>3, <1>4, <1>6, <2>1, <2>3, <3>1
  <2> QED
    BY <2>2, <2>3
<1>9. A \o B = C
  BY <1>4, <1>6, <1>7, <1>8, SeqEqual
<1> QED
  BY <1>5, <1>9 DEF A, C

\* What is left when the first n units have been read.
LEMMA WindowShrinks ==
  ASSUME NEW t, Spoken(t), NEW d \in Directions,
         NEW h \in 0..Total(t, d), NEW p \in 0..h, NEW n \in 0..h - p
  PROVE  SubSeq(Window(t, d, p, h), n + 1, Len(Window(t, d, p, h))) = Window(t, d, p + n, h)
<1> DEFINE A == Window(t, d, p, h)
           B == SubSeq(A, n + 1, Len(A))
           C == Window(t, d, p + n, h)
<1>1. Total(t, d) \in Nat /\ p + n \in 0..h /\ n \in Nat /\ h \in Nat /\ p \in Nat
  BY AllAre
<1>2. /\ A \in Seq(Marks) /\ Len(A) = h - p
      /\ \A i \in 1..h - p : A[i] = AllUnits(t, d)[p + i]
  <2>1. A \in Seq(Marks)
    BY WindowIs
  <2>2. Len(A) = h - p
    BY WindowIs
  <2>3. \A i \in 1..h - p : A[i] = AllUnits(t, d)[p + i]
    BY WindowIs
  <2> QED
    BY <2>1, <2>2, <2>3
<1>3. /\ C \in Seq(Marks) /\ Len(C) = h - (p + n)
      /\ \A i \in 1..h - (p + n) : C[i] = AllUnits(t, d)[(p + n) + i]
  <2>1. C \in Seq(Marks)
    BY <1>1, WindowIs
  <2>2. Len(C) = h - (p + n)
    BY <1>1, WindowIs
  <2>3. \A i \in 1..h - (p + n) : C[i] = AllUnits(t, d)[(p + n) + i]
    BY <1>1, WindowIs
  <2> QED
    BY <2>1, <2>2, <2>3
<1> HIDE DEF A, C
<1>4. \A i \in n + 1..Len(A) : A[i] \in Marks
  BY <1>1, <1>2, ElementOfSeq
<1>5. /\ B \in Seq(Marks)
      /\ Len(B) = IF n + 1 <= Len(A) THEN Len(A) - (n + 1) + 1 ELSE 0
      /\ \A i \in 1..Len(A) - (n + 1) + 1 : B[i] = A[(n + 1) + i - 1]
  <2>1. n + 1 \in Int /\ Len(A) \in Int
    BY <1>1, <1>2
  <2> QED
    BY <1>4, <2>1, SubSeqProperties
<1> HIDE DEF B
<1>6. Len(B) = Len(C) /\ Len(B) = h - (p + n)
  BY <1>1, <1>2, <1>3, <1>5
<1>7. ASSUME NEW i \in 1..Len(B) PROVE B[i] = C[i]
  <2>1. /\ i \in 1..h - (p + n) /\ i \in 1..Len(A) - (n + 1) + 1 /\ (n + 1) + i - 1 = n + i
        /\ n + i \in 1..h - p /\ p + (n + i) = (p + n) + i
    BY <1>1, <1>2, <1>6
  <2> QED
    BY <1>2, <1>3, <1>5, <2>1
<1>8. B = C
  BY <1>3, <1>5, <1>6, <1>7, SeqEqual
<1> QED
  BY <1>8 DEF A, B, C

\* A message that has gone by completely is what the window begins with.
LEMMA WindowOwn ==
  ASSUME NEW t, Spoken(t), NEW d \in Directions, NEW h \in 0..Total(t, d),
         NEW k \in 1..Len(t[d]), End(t, d, k) <= h
  PROVE  SubSeq(Window(t, d, End(t, d, k - 1), h), 1, t[d][k].len) = OwnUnits(t, d, k)
<1> DEFINE p == End(t, d, k - 1)
           n == t[d][k].len
           A == Window(t, d, p, h)
           B == SubSeq(A, 1, n)
           C == OwnUnits(t, d, k)
<1>1. /\ Total(t, d) \in Nat /\ k - 1 \in 0..Len(t[d]) /\ n \in Nat \ {0}
      /\ p \in Nat /\ End(t, d, k) = p + n /\ h \in Nat
  <2>1. Total(t, d) \in Nat /\ Len(t[d]) \in Nat
    BY AllAre DEF Spoken
  <2>2. k - 1 \in 0..Len(t[d]) /\ n \in Nat \ {0} /\ End(t, d, k) = p + n
    BY <2>1, UnitsAre DEF Spoken
  <2> QED
    BY <2>1, <2>2, UnitsAre
<1>2. p \in 0..h /\ n \in 1..h - p
  BY <1>1
<1> HIDE DEF p
<1>3. /\ A \in Seq(Marks) /\ Len(A) = h - p
      /\ \A i \in 1..h - p : A[i] = AllUnits(t, d)[p + i]
  <2>1. A \in Seq(Marks)
    BY <1>2, WindowIs
  <2>2. Len(A) = h - p
    BY <1>2, WindowIs
  <2>3. \A i \in 1..h - p : A[i] = AllUnits(t, d)[p + i]
    BY <1>2, WindowIs
  <2> QED
    BY <2>1, <2>2, <2>3
<1>4. /\ C \in Seq(Marks) /\ Len(C) = n /\ \A j \in 1..n : C[j] = <<d, k, j>>
  BY OwnUnitsAre
<1>5. \A j \in 1..n : AllUnits(t, d)[p + j] = <<d, k, j>>
  BY Begins DEF p
<1> HIDE DEF A, C, n
<1>6. \A i \in 1..n : A[i] \in Marks
  <2> TAKE i \in 1..n
  <2>1. i \in 1..Len(A)
    BY <1>1, <1>2, <1>3
  <2> QED
    BY <1>3, <2>1, ElementOfSeq
<1>7. /\ B \in Seq(Marks)
      /\ Len(B) = IF 1 <= n THEN n - 1 + 1 ELSE 0
      /\ \A i \in 1..n - 1 + 1 : B[i] = A[1 + i - 1]
  <2>1. n \in Int /\ 1 \in Int
    BY <1>1
  <2> QED
    BY <1>6, <2>1, SubSeqProperties
<1> HIDE DEF B
<1>8. Len(B) = n
  BY <1>1, <1>7
<1>9. ASSUME NEW i \in 1..Len(B) PROVE B[i] = C[i]
  <2>1. i \in 1..n /\ i \in 1..n - 1 + 1 /\ 1 + i - 1 = i /\ i \in 1..h - p
    BY <1>1, <1>2, <1>8
  <2> QED
    BY <1>3, <1>4, <1>5, <1>7, <2>1
<1>10. B = C
  BY <1>4, <1>7, <1>8, <1>9, SeqEqual
<1> QED
  BY <1>10 DEF A, B, C, p, n

-----------------------------------------------------------------------------
(***************************************************************************)
(* Readings, and the loop of H1Observer::parse.                            *)
(***************************************************************************)
\* What a decoder of HTTP/1, an item and a reading are: a reading is what H1Observer::parse
\* works on, a decoder and the items it has made.
Modes == {"http", "asked", "websocket"}
H1Decoders == [mode : Modes, in : Seq(Marks), out : Seq(Marks)]
H1Items == [dir : Directions, msg : Nat, body : Seq(Marks)]
Readings == [o : H1Decoders, items : Seq(H1Items)]

\* Loop applies Again until it changes nothing: what Again keeps, Loop keeps.
LEMMA LoopDef ==
  ASSUME NEW t, NEW acc, NEW d, NEW kinds, Len(acc.o[d]) \in Nat
  PROVE  \E f : /\ f[0] = acc
                /\ \A n \in 1..Len(acc.o[d]) : f[n] = Again(t, f[n - 1], d, kinds)
                /\ Loop(t, acc, d, kinds) = f[Len(acc.o[d])]
<1> DEFINE L == Len(acc.o[d])
           Do(f, n) == IF n = 0 THEN acc ELSE Again(t, f[n - 1], d, kinds)
           S == {n \in 0..L : \E f : f = [i \in 0..n |-> Do(f, i)]}
           F == CHOOSE f : f = [i \in 0..L |-> Do(f, i)]
<1>1. 0 \in S
  <2> DEFINE f == [i \in 0..0 |-> acc]
  <2>1. f = [i \in 0..0 |-> Do(f, i)]
    OBVIOUS
  <2>2. 0 \in 0..L
    OBVIOUS
  <2> HIDE DEF f, Do
  <2> QED
    BY <2>1, <2>2
<1>2. ASSUME NEW n \in 1..L, n - 1 \in S PROVE n \in S
  <2>1. PICK f : f = [i \in 0..n - 1 |-> Do(f, i)]
    BY <1>2
  <2> DEFINE g == [i \in 0..n |-> IF i \in 0..n - 1 THEN f[i] ELSE Do(f, i)]
  <2>2. \A i \in 0..n : g[i] = Do(g, i)
    <3> TAKE i \in 0..n
    <3>1. i # 0 => i - 1 \in 0..n - 1 /\ g[i - 1] = f[i - 1]
      OBVIOUS
    <3>2. Do(g, i) = Do(f, i)
      BY <3>1
    <3>3. i \in 0..n - 1 => f[i] = Do(f, i)
      BY <2>1
    <3> QED
      BY <3>2, <3>3
  <2> HIDE DEF g
  <2>3. g = [i \in 0..n |-> Do(g, i)]
    BY <2>2 DEF g
  <2> QED
    BY <2>3
<1>3. L \in S
  <2>1. L \in Nat
    OBVIOUS
  <2> HIDE DEF S, L
  <2>2. \A n \in 0..L : n \in S
    BY <1>1, <1>2, <2>1, UpTo
  <2> QED
    BY <2>1, <2>2
<1>4. F = [i \in 0..L |-> Do(F, i)]
  BY <1>3
<1>5. Loop(t, acc, d, kinds) = F[L]
  BY Zenon DEF Loop
<1> HIDE DEF S, F
<1>6. \A i \in 0..L : F[i] = Do(F, i)
  BY <1>4
<1>7. 0 \in 0..L /\ \A i \in 1..L : i \in 0..L /\ i # 0
  OBVIOUS
<1>8. F[0] = acc /\ \A n \in 1..L : F[n] = Again(t, F[n - 1], d, kinds)
  BY <1>6, <1>7
<1> QED
  BY <1>5, <1>8

\* What every Take keeps, a loop keeps; when it ends nothing can be read, because
\* every Take makes the buffer shorter (h1_parser.rs 156-240).
LEMMA LoopKeeps ==
  ASSUME NEW t, NEW acc, NEW d, NEW kinds, NEW S, acc \in S,
         \A a \in S : Len(a.o[d]) \in Nat,
         \A a \in S : Readable(t, a.o[d], kinds) =>
           Take(t, a, d) \in S /\ Len(Take(t, a, d).o[d]) < Len(a.o[d])
  PROVE  /\ Loop(t, acc, d, kinds) \in S
         /\ ~Readable(t, Loop(t, acc, d, kinds).o[d], kinds)
<1> DEFINE L == Len(acc.o[d])
<1>1. L \in Nat
  OBVIOUS
<1>2. PICK f : /\ f[0] = acc
               /\ \A n \in 1..L : f[n] = Again(t, f[n - 1], d, kinds)
               /\ Loop(t, acc, d, kinds) = f[L]
  BY <1>1, LoopDef
<1> DEFINE T == {n \in 0..L : /\ f[n] \in S
                              /\ \/ ~Readable(t, f[n].o[d], kinds)
                                 \/ Len(f[n].o[d]) <= L - n}
<1>3. 0 \in T
  BY <1>1, <1>2
<1>4. ASSUME NEW n \in 1..L, n - 1 \in T PROVE n \in T
  <2>1. f[n] = Again(t, f[n - 1], d, kinds)
    BY <1>2
  <2>2. f[n - 1] \in S /\ (\/ ~Readable(t, f[n - 1].o[d], kinds)
                           \/ Len(f[n - 1].o[d]) <= L - (n - 1))
    BY <1>4
  <2>3. CASE ~Readable(t, f[n - 1].o[d], kinds)
    <3>1. f[n] = f[n - 1]
      BY <2>1, <2>3 DEF Again
    <3> QED
      BY <2>2, <2>3, <3>1
  <2>4. CASE Readable(t, f[n - 1].o[d], kinds)
    <3>1. f[n] = Take(t, f[n - 1], d)
      BY <2>1, <2>4 DEF Again
    <3>2. f[n] \in S /\ Len(f[n].o[d]) < Len(f[n - 1].o[d])
      BY <2>2, <2>4, <3>1
    <3>3. Len(f[n].o[d]) \in Nat /\ Len(f[n - 1].o[d]) \in Nat
      BY <2>2, <3>2
    <3>4. Len(f[n - 1].o[d]) <= L - (n - 1)
      BY <2>2, <2>4
    <3> DEFINE k == Len(f[n].o[d])
               l == Len(f[n - 1].o[d])
    <3>6. k < l /\ k \in Nat /\ l \in Nat /\ l <= L - (n - 1) /\ n \in Nat
      BY <3>2, <3>3, <3>4
    <3> HIDE DEF k, l, L
    <3>7. k <= L - n
      BY <1>1, <3>6
    <3>5. Len(f[n].o[d]) <= L - n
      BY <3>7 DEF k
    <3> QED
      BY <3>2, <3>5
  <2> QED
    BY <2>3, <2>4
<1>5. L \in T
  <2> HIDE DEF T, L
  <2>1. \A n \in 0..L : n \in T
    BY <1>1, <1>3, <1>4, UpTo
  <2> QED
    BY <1>1, <2>1
<1>6. f[L] \in S /\ (~Readable(t, f[L].o[d], kinds) \/ Len(f[L].o[d]) <= L - L)
  BY <1>5
<1>7. CASE ~Readable(t, f[L].o[d], kinds)
  BY <1>2, <1>6, <1>7
<1>8. CASE Len(f[L].o[d]) <= L - L /\ Readable(t, f[L].o[d], kinds)
  <2>1. Len(f[L].o[d]) \in Nat
    BY <1>6
  <2>2. Take(t, f[L], d) \in S /\ Len(Take(t, f[L], d).o[d]) < Len(f[L].o[d])
    BY <1>6, <1>8
  <2>3. Len(Take(t, f[L], d).o[d]) \in Nat
    BY <2>2
  <2> QED
    BY <1>1, <1>8, <2>1, <2>2, <2>3
<1> QED
  BY <1>6, <1>7, <1>8

\* A reading's buffer of a direction, the message that a buffer begins with, the
\* first n units of a buffer, and the others.
Buffer(a, d) == a.o[d]
ModeOf(a) == a.o.mode
ItemsOf(a) == a.items
Says(t, b) == First(t, b).says
Leading(b) == Head(b)[2]
Taken(b, n) == SubSeq(b, 1, n)
Left(b, n) == SubSeq(b, n + 1, Len(b))

\* The item that shows what is taken when a message can be read.
LEMMA ItemIs ==
  ASSUME NEW t, NEW a \in Readings, NEW d \in Directions, NEW b, b = Buffer(a, d), b # <<>>,
         NEW n \in Nat \ {0}, n = Says(t, b), Len(b) >= n,
         NEW x, x = Item(d, Leading(b), Taken(b, n))
  PROVE  x \in H1Items /\ x.dir = d /\ x.msg = Leading(b) /\ x.body = Taken(b, n)
<1> USE DEF Taken, Buffer, Leading, Says
<1>1. b \in Seq(Marks) /\ n \in Nat /\ n > 0 /\ Len(b) \in Nat /\ Len(b) >= n /\ b # <<>>
  BY DEF Readings, H1Decoders, Directions
<1>3. Head(b)[2] \in Nat
  <2>1. Head(b) \in Marks
    BY <1>1
  <2> QED
    BY <2>1 DEF Marks
<1>5. SubSeq(b, 1, n) \in Seq(Marks)
  <2>1. \A i \in 1..Len(b) : b[i] \in Marks
    BY <1>1, ElementOfSeq
  <2>2. \A i \in 1..n : b[i] \in Marks
    BY <1>1, <2>1
  <2>3. n \in Int
    BY <1>1
  <2> QED
    BY <2>2, <2>3, SubSeqProperties
<1>6. \A i \in Nat : \A q \in Seq(Marks) :
        Item(d, i, q) \in H1Items /\ Item(d, i, q).dir = d /\ Item(d, i, q).msg = i
        /\ Item(d, i, q).body = q
  BY DEF Item, H1Items
<1> DEFINE i == Head(b)[2]
           q == SubSeq(b, 1, n)
<1>7. i \in Nat /\ q \in Seq(Marks) /\ x = Item(d, i, q)
  BY <1>3, <1>5
<1> HIDE DEF i, q
<1>8. x \in H1Items /\ x.dir = d /\ x.msg = i /\ x.body = q
  BY <1>6, <1>7
<1> QED
  BY <1>8 DEF i, q

\* What is taken when a message can be read.
LEMMA TakeShows ==
  ASSUME NEW t, NEW a, NEW d, NEW b, b = Buffer(a, d), NEW n, n = Says(t, b),
         Len(b) \in Nat, n \in Nat, n <= Len(b)
  PROVE  ItemsOf(Take(t, a, d)) = Append(ItemsOf(a), Item(d, Leading(b), Taken(b, n)))
<1>1. (IF n < Len(b) THEN n ELSE Len(b)) = n
  OBVIOUS
<1> QED
  BY <1>1, Zenon DEF Take, Taken, Buffer, Leading, Says, ItemsOf

\* What a Take leaves in the two buffers.
LEMMA TakeIs ==
  ASSUME NEW t, NEW a \in Readings, NEW d \in Directions, NEW b, b = Buffer(a, d), b # <<>>,
         NEW n \in Nat \ {0}, n = Says(t, b), Len(b) >= n
  PROVE  /\ Take(t, a, d) \in Readings
         /\ Buffer(Take(t, a, d), d) = Left(b, n) /\ Len(Left(b, n)) < Len(b)
         /\ Buffer(Take(t, a, d), Other(d)) = Buffer(a, Other(d))
<1> DEFINE r == Take(t, a, d)
           x == Item(d, Leading(b), Taken(b, n))
<1>9. x \in H1Items
  BY ItemIs
<1> USE DEF Taken, Left, Buffer, Leading, Says, ModeOf, ItemsOf
<1> DEFINE o == [a.o EXCEPT ![d] = SubSeq(@, n + 1, Len(@)), !.mode = ModeAfter(First(t, b), @)]
<1>1. /\ a.o \in H1Decoders /\ a.items \in Seq(H1Items) /\ b \in Seq(Marks)
      /\ a.o[Other(d)] \in Seq(Marks)
  BY DEF Readings, H1Decoders, Directions, Other
<1>2. n \in Nat /\ n > 0 /\ Len(b) \in Nat /\ Len(b) >= n /\ b # <<>>
  BY <1>1
<1>3. Head(b) = b[1] /\ Head(b) \in Marks /\ Head(b)[2] \in Nat
  <2>1. Head(b) \in Marks /\ Head(b) = b[1]
    BY <1>1, <1>2
  <2> QED
    BY <2>1 DEF Marks
<1>4. r = [o |-> o, items |-> Append(a.items, x)]
  <2>1. (IF n < Len(b) THEN n ELSE Len(b)) = n
    BY <1>2
  <2> QED
    BY <2>1, Zenon DEF Take
<1>5. SubSeq(b, n + 1, Len(b)) \in Seq(Marks) /\ SubSeq(b, 1, n) \in Seq(Marks)
  <2>1. \A i \in 1..Len(b) : b[i] \in Marks
    BY <1>1, ElementOfSeq
  <2>2. (\A i \in n + 1..Len(b) : b[i] \in Marks) /\ (\A i \in 1..n : b[i] \in Marks)
    BY <1>2, <2>1
  <2>3. n + 1 \in Int /\ Len(b) \in Int /\ n \in Int
    BY <1>2
  <2> QED
    BY <2>2, <2>3, SubSeqProperties
<1>6. Len(SubSeq(b, n + 1, Len(b))) < Len(b)
  <2>1. \A i \in n + 1..Len(b) : b[i] \in Marks
    <3>1. \A i \in 1..Len(b) : b[i] \in Marks
      BY <1>1, ElementOfSeq
    <3> QED
      BY <1>2, <3>1
  <2>2. n + 1 \in Int /\ Len(b) \in Int
    BY <1>2
  <2>3. Len(SubSeq(b, n + 1, Len(b))) = IF n + 1 <= Len(b) THEN Len(b) - (n + 1) + 1 ELSE 0
    BY <2>1, <2>2, SubSeqProperties
  <2> QED
    BY <1>2, <2>3
<1>7. ModeAfter(First(t, b), a.o.mode) \in Modes
  <2>1. a.o.mode \in Modes
    BY <1>1 DEF H1Decoders
  <2> QED
    BY <2>1 DEF ModeAfter, Modes
<1>8. /\ o \in H1Decoders /\ o[d] = SubSeq(b, n + 1, Len(b))
      /\ o[Other(d)] = a.o[Other(d)] /\ o.mode = ModeAfter(First(t, b), a.o.mode)
  <2> DEFINE q == SubSeq(b, n + 1, Len(b))
             m == ModeAfter(First(t, b), a.o.mode)
  <2>1. o = [a.o EXCEPT ![d] = q, !.mode = m]
    OBVIOUS
  <2>2. q \in Seq(Marks) /\ m \in Modes
    BY <1>5, <1>7
  <2> HIDE DEF q, m, o
  <2>3. ASSUME d = "in" PROVE o \in H1Decoders /\ o[d] = q /\ o[Other(d)] = a.o[Other(d)] /\ o.mode = m
    <3>0. Other(d) = "out"
      BY <2>3 DEF Other
    <3>1. o = [mode |-> m, in |-> q, out |-> a.o.out]
      BY <1>1, <2>1, <2>3 DEF H1Decoders
    <3>2. a.o.out \in Seq(Marks)
      BY <1>1 DEF H1Decoders
    <3> QED
      BY <2>2, <2>3, <3>0, <3>1, <3>2 DEF H1Decoders
  <2>4. ASSUME d = "out" PROVE o \in H1Decoders /\ o[d] = q /\ o[Other(d)] = a.o[Other(d)] /\ o.mode = m
    <3>0. Other(d) = "in"
      BY <2>4 DEF Other
    <3>1. o = [mode |-> m, in |-> a.o.in, out |-> q]
      BY <1>1, <2>1, <2>4 DEF H1Decoders
    <3>2. a.o.in \in Seq(Marks)
      BY <1>1 DEF H1Decoders
    <3> QED
      BY <2>2, <2>4, <3>0, <3>1, <3>2 DEF H1Decoders
  <2>5. o \in H1Decoders /\ o[d] = q /\ o[Other(d)] = a.o[Other(d)] /\ o.mode = m
    BY <2>3, <2>4 DEF Directions
  <2> QED
    BY <2>5 DEF q, m
<1> HIDE DEF o
<1>10. Append(a.items, x) \in Seq(H1Items)
  BY <1>1, <1>9, AppendProperties
<1>11. r \in Readings
  BY <1>4, <1>8, <1>10 DEF Readings
<1>12. n \in 1..Len(b)
  BY <1>2
<1>13. r.o = o /\ r.items = Append(a.items, x)
  BY <1>4
<1> QED
  BY <1>3, <1>6, <1>8, <1>9, <1>11, <1>12, <1>13

\* What a Take makes of the mode.
LEMMA TakeTurns ==
  ASSUME NEW t, NEW a \in Readings, NEW d \in Directions, NEW b, b = Buffer(a, d)
  PROVE  ModeOf(Take(t, a, d)) = ModeAfter(First(t, b), ModeOf(a))
<1> DEFINE n == IF Says(t, b) < Len(b) THEN Says(t, b) ELSE Len(b)
           q == SubSeq(b, n + 1, Len(b))
           m == ModeAfter(First(t, b), a.o.mode)
<1>1. Take(t, a, d).o = [a.o EXCEPT ![d] = q, !.mode = m]
  BY Zenon DEF Take, Buffer, Says
<1>2. a.o \in H1Decoders /\ d \in {"in", "out"}
  BY DEF Readings, Directions
<1> HIDE DEF q, m
<1>3. [a.o EXCEPT ![d] = q, !.mode = m].mode = m
  BY <1>2 DEF H1Decoders
<1> QED
  BY <1>1, <1>3 DEF ModeOf, m

-----------------------------------------------------------------------------
(***************************************************************************)
(* Conversations over HTTP/1, and what has been read and shown of them.    *)
(***************************************************************************)
Http1Messages == [kind : Requests \cup Responses \cup Frames, len : Nat \ {0},
                  says : Nat \ {0}, after : Nat]

\* Nobody asks for a websocket.
Plain(t) == /\ \A i \in DOMAIN t["in"]  : t["in"][i].kind  = "req"
            /\ \A i \in DOMAIN t["out"] : t["out"][i].kind = "resp"

\* Message u of the client asks for a websocket, after which it waits for the
\* answer, message r of the server.
Asking(t, u, r) ==
  /\ u \in DOMAIN t["in"] /\ t["in"][u].kind = "upgrade" /\ r \in DOMAIN t["out"]
  /\ \A i \in DOMAIN t["in"]  : /\ i < u => t["in"][i].kind = "req"
                                /\ i > u => t["in"][i].after >= r
  /\ \A k \in DOMAIN t["out"] : /\ k < r => t["out"][k].kind = "resp"
                                /\ k >= r => t["out"][k].after >= u
  /\ \A d \in Directions : \A i \in DOMAIN t[d] : t[d][i].says = t[d][i].len

\* The server agrees, and frames follow, or it does not, and HTTP goes on.
Accepted(t, u, r) ==
  /\ t["out"][r].kind = "switch"
  /\ \A i \in DOMAIN t["in"]  : i > u => t["in"][i].kind \in Frames
  /\ \A k \in DOMAIN t["out"] : k > r => t["out"][k].kind \in Frames

NotAccepted(t, u, r) ==
  /\ t["out"][r].kind = "resp"
  /\ \A i \in DOMAIN t["in"]  : i > u => t["in"][i].kind \in Requests
  /\ \A k \in DOMAIN t["out"] : k > r => t["out"][k].kind = "resp"

\* A conversation over HTTP/1: requests and responses, and at most one websocket,
\* which is asked for in good order and by heads that say how long they are.
Http1(t) ==
  /\ t.ver = "h1" /\ ~t.marked
  /\ \A d \in Directions : t[d] \in Seq(Http1Messages)
  /\ \/ Plain(t)
     \/ \E u, r \in Nat : Asking(t, u, r) /\ (Accepted(t, u, r) \/ NotAccepted(t, u, r))

\* The messages of a conversation over HTTP/1.
LEMMA Http1Spoken ==
  ASSUME NEW t, Http1(t), NEW d \in Directions
  PROVE  /\ Spoken(t) /\ Len(t[d]) \in Nat /\ DOMAIN t[d] = 1..Len(t[d])
         /\ \A i \in 1..Len(t[d]) : t[d][i] \in Http1Messages /\ t[d][i].says \in Nat \ {0}
                                    /\ t[d][i].len \in Nat \ {0} /\ t[d][i].after \in Nat
                                    /\ Visible(t[d][i])
<1>1. ASSUME NEW e \in Directions
      PROVE  /\ Len(t[e]) \in Nat /\ DOMAIN t[e] = 1..Len(t[e])
             /\ \A i \in 1..Len(t[e]) : t[e][i] \in Http1Messages
  <2>1. t[e] \in Seq(Http1Messages)
    BY DEF Http1
  <2> QED
    BY <2>1
<1>2. \A m \in Http1Messages : /\ m.says \in Nat \ {0} /\ m.len \in Nat \ {0} /\ m.after \in Nat
                               /\ m.kind \in Requests \cup Responses \cup Frames
  BY DEF Http1Messages
<1>3. \A m \in Http1Messages : Visible(m)
  BY <1>2 DEF Visible, Requests, Responses, Frames
<1>4. Spoken(t)
  BY <1>1, <1>2 DEF Spoken
<1> QED
  BY <1>1, <1>2, <1>3, <1>4

\* What the first k - 1 items of a list show of a direction.
BeforeIn(s, d, k) == {s[l].msg : l \in {l \in 1..k - 1 : s[l].dir = d}}
ShownOf(s, d) == BeforeIn(s, d, Len(s) + 1)

\* The list shows each message with its units and behind all the earlier ones, as
\* far as they can be told apart.
Orderly(t, d, s) ==
  \A k \in 1..Len(s) : s[k].dir = d =>
    /\ s[k].msg \in 1..Len(t[d])
    /\ \/ Misleading(t, d, s[k].msg)
       \/ /\ s[k].body = OwnUnits(t, d, s[k].msg)
          /\ BeforeIn(s, d, k) = 1..s[k].msg - 1

\* After h units of a direction the first n messages have been read, and shown in
\* list s, and the buffer has the rest.
AtMessage(t, d, b, s, h, n) ==
  /\ n \in 0..Len(t[d]) /\ End(t, d, n) <= h /\ b = Window(t, d, End(t, d, n), h)
  /\ ~Misleading(t, d, n)
  /\ ShownOf(s, d) = 1..n

\* The same when the head of a message has led astray.
Astray(t, d, b, s, h) ==
  \E j \in 1..Len(t[d]) :
    /\ Misleading(t, d, j)
    /\ \E p \in 0..h : End(t, d, j - 1) < p /\ b = Window(t, d, p, h)
    /\ 1..j - 1 \subseteq ShownOf(s, d)

\* One more item in a list.
LEMMA AppendShows ==
  ASSUME NEW s \in Seq(H1Items), NEW x \in H1Items, NEW d
  PROVE  /\ Append(s, x) \in Seq(H1Items) /\ Len(Append(s, x)) = Len(s) + 1
         /\ \A k \in 1..Len(s) : Append(s, x)[k] = s[k]
         /\ Append(s, x)[Len(s) + 1] = x
         /\ \A k \in 1..Len(s) + 1 : BeforeIn(Append(s, x), d, k) = BeforeIn(s, d, k)
         /\ ShownOf(Append(s, x), d) = ShownOf(s, d) \cup {m \in {x.msg} : x.dir = d}
<1> DEFINE y == Append(s, x)
<1>1. /\ y \in Seq(H1Items) /\ Len(y) = Len(s) + 1 /\ Len(s) \in Nat
      /\ \A k \in 1..Len(s) : y[k] = s[k]
      /\ y[Len(s) + 1] = x
  BY AppendProperties
<1> HIDE DEF y
<1>2. ASSUME NEW k \in 1..Len(s) + 1 PROVE BeforeIn(y, d, k) = BeforeIn(s, d, k)
  <2>1. \A l \in 1..k - 1 : y[l] = s[l]
    BY <1>1
  <2> QED
    BY <2>1 DEF BeforeIn
<1>3. ShownOf(y, d) = ShownOf(s, d) \cup {m \in {x.msg} : x.dir = d}
  <2>1. ASSUME NEW m PROVE m \in ShownOf(y, d) <=>
          \E l \in 1..Len(s) + 1 : y[l].dir = d /\ y[l].msg = m
    BY <1>1 DEF ShownOf, BeforeIn
  <2>2. ASSUME NEW m PROVE m \in ShownOf(s, d) <=>
          \E l \in 1..Len(s) : s[l].dir = d /\ s[l].msg = m
    BY <1>1 DEF ShownOf, BeforeIn
  <2>3. ASSUME NEW m PROVE m \in ShownOf(y, d) <=>
          m \in ShownOf(s, d) \/ (x.dir = d /\ x.msg = m)
    <3>1. \A l \in 1..Len(s) + 1 : l \in 1..Len(s) \/ l = Len(s) + 1
      BY <1>1
    <3>2. Len(s) + 1 \in 1..Len(s) + 1 /\ \A l \in 1..Len(s) : l \in 1..Len(s) + 1
      BY <1>1
    <3> QED
      BY <2>1, <2>2, <1>1, <3>1, <3>2
  <2> QED
    BY <2>3
<1> QED
  BY <1>1, <1>2, <1>3 DEF y

\* A list stays orderly when the next message is shown with its own units.
LEMMA OrderlyGrows ==
  ASSUME NEW t, NEW s \in Seq(H1Items), NEW x \in H1Items, NEW d, Orderly(t, d, s),
         x.dir = d => /\ x.msg \in 1..Len(t[d])
                      /\ \/ Misleading(t, d, x.msg)
                         \/ /\ x.body = OwnUnits(t, d, x.msg)
                            /\ ShownOf(s, d) = 1..x.msg - 1
  PROVE  Orderly(t, d, Append(s, x))
<1> DEFINE y == Append(s, x)
<1>1. /\ Len(y) = Len(s) + 1 /\ Len(s) \in Nat
      /\ \A k \in 1..Len(s) : y[k] = s[k]
      /\ y[Len(s) + 1] = x
      /\ \A k \in 1..Len(s) + 1 : BeforeIn(y, d, k) = BeforeIn(s, d, k)
  BY AppendShows
<1> HIDE DEF y
<1>2. SUFFICES ASSUME NEW k \in 1..Len(s) + 1, y[k].dir = d
               PROVE  /\ y[k].msg \in 1..Len(t[d])
                      /\ \/ Misleading(t, d, y[k].msg)
                         \/ /\ y[k].body = OwnUnits(t, d, y[k].msg)
                            /\ BeforeIn(y, d, k) = 1..y[k].msg - 1
  BY <1>1 DEF Orderly, y
<1>3. CASE k = Len(s) + 1
  BY <1>1, <1>2, <1>3 DEF ShownOf
<1>4. CASE k # Len(s) + 1
  <2>1. k \in 1..Len(s) /\ k \in 1..Len(s) + 1
    BY <1>1, <1>4
  <2> QED
    BY <1>1, <1>2, <2>1 DEF Orderly
<1> QED
  BY <1>3, <1>4

\* What follows a head that misleads can never be told apart.
LEMMA MisleadingStays ==
  ASSUME NEW t, NEW d, NEW j \in Nat, NEW m \in Nat, j <= m, Misleading(t, d, j)
  PROVE  Misleading(t, d, m)
  BY DEF Misleading

\* When the buffer begins with message n + 1, that is the one that can be read.
LEMMA ReadAt ==
  ASSUME NEW t, Http1(t), NEW d \in Directions, NEW h \in 0..Total(t, d), NEW b, NEW l,
         NEW n, AtMessage(t, d, b, l, h, n), NEW kinds
  PROVE  /\ Readable(t, b, kinds) =>
              /\ n + 1 \in 1..Len(t[d]) /\ Head(b) = <<d, n + 1, 1>>
              /\ First(t, b) = t[d][n + 1] /\ t[d][n + 1].kind \in kinds
              /\ t[d][n + 1].says <= h - End(t, d, n)
              /\ t[d][n + 1].says = t[d][n + 1].len => End(t, d, n + 1) <= h
         /\ (/\ n + 1 \in 1..Len(t[d]) /\ End(t, d, n + 1) <= h
             /\ t[d][n + 1].says = t[d][n + 1].len /\ t[d][n + 1].kind \in kinds)
            => Readable(t, b, kinds)
<1> DEFINE p == End(t, d, n)
<1>1. /\ n \in 0..Len(t[d]) /\ Len(t[d]) \in Nat /\ Spoken(t) /\ Total(t, d) \in Nat /\ h \in Nat
      /\ p \in Nat /\ p \in 0..h /\ b = Window(t, d, p, h)
  <2>1. Spoken(t) /\ Len(t[d]) \in Nat
    BY Http1Spoken
  <2>2. n \in 0..Len(t[d]) /\ p <= h /\ b = Window(t, d, p, h)
    BY DEF AtMessage
  <2>3. Total(t, d) \in Nat
    BY <2>1, AllAre
  <2>4. p \in Nat
    BY <2>1, <2>2, UnitsAre
  <2> QED
    BY <2>1, <2>2, <2>3, <2>4
<1>2. /\ b \in Seq(Marks) /\ Len(b) = h - p
      /\ \A i \in 1..h - p : b[i] = AllUnits(t, d)[p + i]
      /\ b = <<>> <=> p = h
  <2> DEFINE w == Window(t, d, p, h)
  <2>0. Spoken(t) /\ p \in 0..h
    BY <1>1
  <2> HIDE DEF p
  <2>1. w \in Seq(Marks) /\ Len(w) = h - p
    BY <2>0, WindowIs, ZenonT(60)
  <2>2. ASSUME NEW i \in 1..h - p PROVE w[i] = AllUnits(t, d)[p + i]
    BY <2>0, <2>2, WindowIs
  <2>3. w = <<>> <=> p = h
    <3>1. w = <<>> <=> Len(w) = 0
      BY <2>1
    <3> QED
      BY <1>1, <2>1, <3>1
  <2> QED
    BY <1>1, <2>1, <2>2, <2>3
<1>3. ASSUME n + 1 \in 1..Len(t[d])
      PROVE  /\ End(t, d, n + 1) = p + t[d][n + 1].len /\ t[d][n + 1].len \in Nat \ {0}
             /\ t[d][n + 1].says \in Nat
             /\ AllUnits(t, d)[p + 1] = <<d, n + 1, 1>>
  <2>1. (n + 1) - 1 = n
    BY <1>1
  <2>2. t[d][n + 1].len \in Nat \ {0} /\ t[d][n + 1].says \in Nat
    BY <1>3, Http1Spoken
  <2>3. 1 \in 1..t[d][n + 1].len
    BY <2>2
  <2> QED
    BY <1>1, <1>3, <2>1, <2>2, <2>3, Begins
<1>4. p < h => n + 1 \in 1..Len(t[d])
  <2> SUFFICES ASSUME p < h PROVE n + 1 \in 1..Len(t[d])
    OBVIOUS
  <2>1. n # Len(t[d])
    BY <1>1 DEF Total
  <2> QED
    BY <1>1, <2>1
<1>5. ASSUME p < h
      PROVE  Head(b) = <<d, n + 1, 1>> /\ First(t, b) = t[d][n + 1] /\ InStep(b) /\ b # <<>>
  <2>1. 1 \in 1..h - p /\ b # <<>> /\ Head(b) = b[1]
    BY <1>1, <1>2, <1>5
  <2>2. b[1] = <<d, n + 1, 1>>
    BY <2>1, <1>2, <1>3, <1>4, <1>5
  <2> QED
    BY <2>1, <2>2 DEF InStep, First
<1> HIDE DEF p
<1>6. ASSUME Readable(t, b, kinds)
      PROVE  /\ n + 1 \in 1..Len(t[d]) /\ Head(b) = <<d, n + 1, 1>>
             /\ First(t, b) = t[d][n + 1] /\ t[d][n + 1].kind \in kinds
             /\ t[d][n + 1].says <= h - p
             /\ t[d][n + 1].says = t[d][n + 1].len => End(t, d, n + 1) <= h
  <2>1. b # <<>> /\ First(t, b).kind \in kinds /\ Len(b) >= First(t, b).says
    BY <1>6 DEF Readable, InStep
  <2>2. p < h
    BY <1>1, <1>2, <2>1
  <2>3. n + 1 \in 1..Len(t[d]) /\ Head(b) = <<d, n + 1, 1>> /\ First(t, b) = t[d][n + 1]
    BY <2>2, <1>4, <1>5
  <2>4. t[d][n + 1].says <= h - p
    BY <1>1, <1>2, <1>3, <2>1, <2>3
  <2>5. t[d][n + 1].says = t[d][n + 1].len => End(t, d, n + 1) <= h
    BY <1>1, <1>3, <2>3, <2>4
  <2> QED
    BY <2>1, <2>3, <2>4, <2>5
<1>7. ASSUME n + 1 \in 1..Len(t[d]), End(t, d, n + 1) <= h,
             t[d][n + 1].says = t[d][n + 1].len, t[d][n + 1].kind \in kinds
      PROVE  Readable(t, b, kinds)
  <2>1. p < h /\ Len(b) >= t[d][n + 1].says
    BY <1>1, <1>2, <1>3, <1>7
  <2> QED
    BY <1>5, <1>7, <2>1 DEF Readable
<1> QED
  BY <1>6, <1>7 DEF p

\* The first head that misleads.
LEMMA MisleadingNext ==
  ASSUME NEW t, Http1(t), NEW d \in Directions, NEW n \in Nat, n + 1 \in 1..Len(t[d]),
         ~Misleading(t, d, n)
  PROVE  Misleading(t, d, n + 1) <=> t[d][n + 1].says # t[d][n + 1].len
<1>1. t.ver = "h1"
  BY DEF Http1
<1>2. \A j \in 1..n + 1 : j \in 1..n \/ j = n + 1
  OBVIOUS
<1>3. n + 1 \in 1..n + 1
  OBVIOUS
<1> QED
  BY <1>1, <1>2, <1>3 DEF Misleading

\* Reading message n + 1: the next one, or astray if its head misleads.
LEMMA TakeAt ==
  ASSUME NEW t, Http1(t), NEW d \in Directions, NEW h \in 0..Total(t, d),
         NEW a \in Readings, NEW l \in Seq(H1Items), Orderly(t, d, l),
         NEW n, AtMessage(t, d, Buffer(a, d), l, h, n), NEW kinds, Readable(t, Buffer(a, d), kinds),
         NEW x, x = Item(d, Leading(Buffer(a, d)), Taken(Buffer(a, d), Says(t, Buffer(a, d))))
  PROVE  /\ n + 1 \in 1..Len(t[d]) /\ x.dir = d /\ x.msg = n + 1 /\ x \in H1Items
         /\ First(t, Buffer(a, d)) = t[d][n + 1]
         /\ Orderly(t, d, Append(l, x))
         /\ t[d][n + 1].says = t[d][n + 1].len =>
              AtMessage(t, d, Buffer(Take(t, a, d), d), Append(l, x), h, n + 1)
         /\ t[d][n + 1].says # t[d][n + 1].len =>
              Astray(t, d, Buffer(Take(t, a, d), d), Append(l, x), h)
<1> DEFINE b == Buffer(a, d)
           p == End(t, d, n)
           z == t[d][n + 1].says
           r == Take(t, a, d)
<1>1. /\ n + 1 \in 1..Len(t[d]) /\ Head(b) = <<d, n + 1, 1>>
      /\ First(t, b) = t[d][n + 1] /\ z <= h - p
      /\ t[d][n + 1].says = t[d][n + 1].len => End(t, d, n + 1) <= h
  BY ReadAt
<1>2. /\ n \in 0..Len(t[d]) /\ Len(t[d]) \in Nat /\ n \in Nat /\ Spoken(t) /\ h \in Nat
      /\ p \in Nat /\ p \in 0..h /\ b = Window(t, d, p, h) /\ ~Misleading(t, d, n)
      /\ ShownOf(l, d) = 1..n /\ z \in Nat \ {0}
  <2>1. Spoken(t) /\ Len(t[d]) \in Nat /\ z \in Nat \ {0}
    BY <1>1, Http1Spoken
  <2>2. n \in 0..Len(t[d]) /\ p <= h /\ b = Window(t, d, p, h) /\ ~Misleading(t, d, n)
        /\ ShownOf(l, d) = 1..n
    BY DEF AtMessage
  <2>3. Total(t, d) \in Nat
    BY <2>1, AllAre
  <2>4. p \in Nat
    BY <2>1, <2>2, UnitsAre
  <2> QED
    BY <2>1, <2>2, <2>3, <2>4
<1>0. Says(t, Buffer(a, d)) = z /\ Says(t, Buffer(a, d)) \in Nat \ {0}
  BY <1>1, <1>2 DEF Says
<1>a. x = Item(d, Leading(b), Taken(b, z))
  BY <1>0
<1>3. /\ Buffer(r, d) = Left(b, z) /\ x \in H1Items
      /\ x.dir = d /\ x.msg = Leading(b) /\ x.body = Taken(b, z)
  <2>0. b # <<>> /\ Len(b) >= Says(t, b)
    BY DEF Readable, InStep, Says
  <2>1. /\ b = Buffer(a, d) /\ b # <<>> /\ Len(b) >= z /\ z \in Nat \ {0}
        /\ z = Says(t, b) /\ r = Take(t, a, d)
    BY <1>0, <1>2, <2>0
  <2> HIDE DEF b, z, r
  <2>2. x \in H1Items /\ x.dir = d /\ x.msg = Leading(b) /\ x.body = Taken(b, z)
    BY <1>a, <2>1, ItemIs
  <2>3. Buffer(r, d) = Left(b, z)
    BY <1>a, <2>1, TakeIs
  <2> QED
    BY <2>2, <2>3
<1>4. x.dir = d /\ x.msg = n + 1 /\ x.body = Taken(b, z)
  <2>1. Leading(b) = n + 1
    BY <1>1 DEF Leading
  <2> QED
    BY <1>3, <2>1
<1>5. /\ (n + 1) - 1 = n
      /\ End(t, d, n + 1) = p + t[d][n + 1].len /\ t[d][n + 1].len \in Nat \ {0}
  <2>1. t[d][n + 1].len \in Nat \ {0} /\ (n + 1) - 1 = n
    BY <1>1, <1>2, Http1Spoken
  <2> QED
    BY <1>1, <1>2, <2>1, UnitsAre, SMTT(30)
<1>6. Misleading(t, d, n + 1) <=> z # t[d][n + 1].len
  BY <1>1, <1>2, MisleadingNext
<1>7. Buffer(r, d) = Window(t, d, p + z, h) /\ p + z \in 0..h
  <2>1. z \in 0..h - p
    BY <1>1, <1>2
  <2>2. SubSeq(Window(t, d, p, h), z + 1, Len(Window(t, d, p, h))) = Window(t, d, p + z, h)
    BY <1>2, <2>1, WindowShrinks
  <2>3. p + z \in 0..h
    BY <1>2, <2>1, SMTT(30)
  <2> QED
    BY <1>2, <1>3, <2>2, <2>3 DEF Left
<1>8. ShownOf(Append(l, x), d) = 1..n + 1
  <2>1. ShownOf(Append(l, x), d) = 1..n \cup {n + 1}
    BY <1>2, <1>3, <1>4, AppendShows
  <2>2. \A m : m \in 1..n + 1 <=> m \in 1..n \/ m = n + 1
    BY <1>2
  <2> QED
    BY <2>1, <2>2
<1>9. Orderly(t, d, Append(l, x))
  <2>a. End(t, d, n + 1) <= h =>
          SubSeq(Window(t, d, End(t, d, (n + 1) - 1), h), 1, t[d][n + 1].len) = OwnUnits(t, d, n + 1)
    BY <1>1, <1>2, WindowOwn
  <2>1. z = t[d][n + 1].len => x.body = OwnUnits(t, d, n + 1)
    BY <1>1, <1>2, <1>4, <1>5, <2>a DEF Taken
  <2>2. \/ Misleading(t, d, x.msg)
        \/ /\ x.msg \in 1..Len(t[d]) /\ x.body = OwnUnits(t, d, x.msg)
           /\ ShownOf(l, d) = 1..x.msg - 1
    BY <1>1, <1>2, <1>4, <1>5, <1>6, <2>1
  <2> QED
    BY <1>1, <1>3, <1>4, <2>2, OrderlyGrows
<1>10. ASSUME z = t[d][n + 1].len PROVE AtMessage(t, d, Buffer(r, d), Append(l, x), h, n + 1)
  <2>1. n + 1 \in 0..Len(t[d]) /\ End(t, d, n + 1) <= h /\ p + z = End(t, d, n + 1)
    BY <1>1, <1>2, <1>5, <1>10
  <2> QED
    BY <1>6, <1>7, <1>8, <1>10, <2>1 DEF AtMessage
<1>11. ASSUME z # t[d][n + 1].len PROVE Astray(t, d, Buffer(r, d), Append(l, x), h)
  <2>1. End(t, d, (n + 1) - 1) < p + z
    <3>1. End(t, d, (n + 1) - 1) = p
      BY <1>5
    <3> HIDE DEF p, z
    <3>2. p < p + z
      BY <1>2
    <3> QED
      BY <3>1, <3>2
  <2>2. 1..(n + 1) - 1 \subseteq ShownOf(Append(l, x), d)
    BY <1>2, <1>8
  <2> QED
    BY <1>1, <1>6, <1>7, <1>11, <2>1, <2>2 DEF Astray
<1> QED
  BY <1>1, <1>3, <1>4, <1>9, <1>10, <1>11

\* Once astray, what is read next is never an earlier message.
LEMMA TakeAstray ==
  ASSUME NEW t, Http1(t), NEW d \in Directions, NEW h \in 0..Total(t, d),
         NEW a \in Readings, NEW l \in Seq(H1Items), Orderly(t, d, l),
         Astray(t, d, Buffer(a, d), l, h), NEW kinds, Readable(t, Buffer(a, d), kinds),
         NEW x, x = Item(d, Leading(Buffer(a, d)), Taken(Buffer(a, d), Says(t, Buffer(a, d))))
  PROVE  /\ x.dir = d /\ x \in H1Items /\ x.msg \in 1..Len(t[d])
         /\ First(t, Buffer(a, d)) = t[d][x.msg]
         /\ Orderly(t, d, Append(l, x))
         /\ Astray(t, d, Buffer(Take(t, a, d), d), Append(l, x), h)
<1> DEFINE b == Buffer(a, d)
           z == Says(t, b)
           r == Take(t, a, d)
<1>1. PICK j \in 1..Len(t[d]), p \in 0..h :
        /\ Misleading(t, d, j) /\ End(t, d, j - 1) < p /\ b = Window(t, d, p, h)
        /\ 1..j - 1 \subseteq ShownOf(l, d)
  BY DEF Astray
<1>2. Spoken(t) /\ Len(t[d]) \in Nat /\ Total(t, d) \in Nat /\ h \in Nat /\ p \in Nat
  <2>1. Spoken(t) /\ Len(t[d]) \in Nat
    BY Http1Spoken
  <2>2. Total(t, d) \in Nat
    BY <2>1, AllAre
  <2> QED
    BY <2>1, <2>2
<1>3. /\ b \in Seq(Marks) /\ Len(b) = h - p
      /\ \A i \in 1..h - p : b[i] = AllUnits(t, d)[p + i]
      /\ b = <<>> <=> p = h
  <2> HIDE DEF b
  <2>1. /\ Window(t, d, p, h) \in Seq(Marks) /\ Len(Window(t, d, p, h)) = h - p
        /\ \A i \in 1..h - p : Window(t, d, p, h)[i] = AllUnits(t, d)[p + i]
        /\ Window(t, d, p, h) = <<>> <=> p = h
    BY <1>2, WindowIs, ZenonT(60)
  <2> QED
    BY <1>1, <2>1
<1>4. b # <<>> /\ Len(b) >= z
  BY DEF Readable, InStep, Says
<1>5. 1 \in 1..h - p /\ p + 1 \in 1..Total(t, d) /\ b[1] = AllUnits(t, d)[p + 1] /\ Head(b) = b[1]
  <2>1. 1 \in 1..h - p /\ p + 1 \in 1..Total(t, d)
    BY <1>2, <1>3, <1>4
  <2> QED
    BY <1>3, <1>4, <2>1
<1>6. PICK k \in 1..Len(t[d]) : \E i : /\ AllUnits(t, d)[p + 1] = <<d, k, i>>
                                       /\ p + 1 <= End(t, d, k)
  BY <1>2, <1>5, MarkAt
<1>7. First(t, b) = t[d][k] /\ Leading(b) = k
  BY <1>5, <1>6 DEF First, Leading
<1>8. z \in Nat \ {0} /\ t[d][k] \in Http1Messages
  BY <1>7, Http1Spoken DEF Says
<1>9. Buffer(r, d) = Left(b, z) /\ x \in H1Items /\ x.dir = d /\ x.msg = Leading(b)
  <2>1. /\ b = Buffer(a, d) /\ b # <<>> /\ Len(b) >= z /\ z \in Nat \ {0}
        /\ z = Says(t, b) /\ r = Take(t, a, d) /\ x = Item(d, Leading(b), Taken(b, z))
    BY <1>4, <1>8
  <2> HIDE DEF b, z, r
  <2>2. x \in H1Items /\ x.dir = d /\ x.msg = Leading(b) /\ x.body = Taken(b, z)
    BY <2>1, ItemIs
  <2>3. Buffer(r, d) = Left(b, z)
    BY <2>1, TakeIs
  <2> QED
    BY <2>2, <2>3
<1>10. x.dir = d /\ x.msg = k
  BY <1>7, <1>9
<1>11. j <= k
  <2> SUFFICES ASSUME ~(j <= k) PROVE FALSE
    OBVIOUS
  <2>1. k \in 0..Len(t[d]) /\ j - 1 \in 0..Len(t[d]) /\ (k < j - 1 \/ k = j - 1)
    BY <1>2
  <2>2. End(t, d, k) \in Nat /\ End(t, d, j - 1) \in Nat
    BY <1>2, <2>1, UnitsAre
  <2>3. k < j - 1 => End(t, d, k) < End(t, d, j - 1)
    BY <1>2, <2>1, EndsGrow
  <2> QED
    BY <1>1, <1>2, <1>6, <2>1, <2>2, <2>3
<1>12. Misleading(t, d, k)
  BY <1>1, <1>2, <1>11, MisleadingStays
<1>13. Orderly(t, d, Append(l, x))
  BY <1>9, <1>10, <1>12, OrderlyGrows
<1>14. Buffer(r, d) = Window(t, d, p + z, h) /\ p + z \in 0..h
  <2>1. z \in 0..h - p
    BY <1>2, <1>3, <1>4, <1>8
  <2>2. SubSeq(Window(t, d, p, h), z + 1, Len(Window(t, d, p, h))) = Window(t, d, p + z, h)
    BY <1>2, <2>1, WindowShrinks
  <2>3. p + z \in 0..h
    BY <1>2, <2>1
  <2> QED
    BY <1>1, <1>9, <2>2, <2>3 DEF Left
<1>15. End(t, d, j - 1) < p + z
  <2>1. j - 1 \in 0..Len(t[d])
    BY <1>2
  <2>2. End(t, d, j - 1) \in Nat
    BY <1>2, <2>1, UnitsAre
  <2> QED
    BY <1>1, <1>2, <1>8, <2>2
<1>16. 1..j - 1 \subseteq ShownOf(Append(l, x), d)
  <2>1. ShownOf(Append(l, x), d) = ShownOf(l, d) \cup {m \in {x.msg} : x.dir = d}
    BY <1>9, AppendShows
  <2> QED
    BY <1>1, <2>1
<1>17. Astray(t, d, Buffer(r, d), Append(l, x), h)
  BY <1>1, <1>14, <1>15, <1>16 DEF Astray
<1> QED
  BY <1>7, <1>8, <1>9, <1>10, <1>13, <1>17

\* LoopKeeps, in terms of the buffers.
LEMMA LoopEnds ==
  ASSUME NEW t, NEW acc, NEW d, NEW kinds, NEW S, acc \in S,
         \A a \in S : Len(Buffer(a, d)) \in Nat,
         \A a \in S : Readable(t, Buffer(a, d), kinds) =>
           Take(t, a, d) \in S /\ Len(Buffer(Take(t, a, d), d)) < Len(Buffer(a, d))
  PROVE  /\ Loop(t, acc, d, kinds) \in S
         /\ ~Readable(t, Buffer(Loop(t, acc, d, kinds), d), kinds)
  BY LoopKeeps DEF Buffer

\* A loop that finds nothing to read changes nothing.
LEMMA LoopIdle ==
  ASSUME NEW t, NEW acc \in Readings, NEW d \in Directions, NEW kinds,
         ~Readable(t, Buffer(acc, d), kinds)
  PROVE  Loop(t, acc, d, kinds) = acc
<1> DEFINE S == {acc}
<1>1. Len(Buffer(acc, d)) \in Nat
  BY DEF Readings, H1Decoders, Directions, Buffer
<1>2. Loop(t, acc, d, kinds) \in S
  <2>1. acc \in S /\ \A a \in S : a = acc
    OBVIOUS
  <2> HIDE DEF S
  <2> QED
    BY <1>1, <2>1, LoopEnds
<1> QED
  BY <1>2

\* The types of the parts of a reading.
LEMMA ReadingsAre ==
  ASSUME NEW a \in Readings, NEW d \in Directions
  PROVE  /\ Buffer(a, d) \in Seq(Marks) /\ Len(Buffer(a, d)) \in Nat
         /\ ItemsOf(a) \in Seq(H1Items) /\ ModeOf(a) \in Modes
  BY DEF Readings, H1Decoders, Directions, Buffer, ItemsOf, ModeOf

\* What a Take does, from what makes it possible.
LEMMA TakeReads ==
  ASSUME NEW t, NEW a \in Readings, NEW d \in Directions, NEW kinds, NEW b, b = Buffer(a, d),
         Readable(t, b, kinds), NEW n \in Nat \ {0}, n = Says(t, b)
  PROVE  /\ Take(t, a, d) \in Readings
         /\ Len(Buffer(Take(t, a, d), d)) < Len(Buffer(a, d))
         /\ Buffer(Take(t, a, d), Other(d)) = Buffer(a, Other(d))
         /\ ModeOf(Take(t, a, d)) = ModeAfter(First(t, b), ModeOf(a))
         /\ ItemsOf(Take(t, a, d)) = Append(ItemsOf(a), Item(d, Leading(b), Taken(b, n)))
<1>1. b # <<>> /\ Len(b) >= n
  BY DEF Readable, InStep, Says
<1>2. Len(b) \in Nat
  BY ReadingsAre
<1>3. Take(t, a, d) \in Readings /\ Buffer(Take(t, a, d), d) = Left(b, n) /\ Len(Left(b, n)) < Len(b)
      /\ Buffer(Take(t, a, d), Other(d)) = Buffer(a, Other(d))
  BY <1>1, TakeIs
<1>4. ModeOf(Take(t, a, d)) = ModeAfter(First(t, b), ModeOf(a))
  BY TakeTurns
<1>5. ItemsOf(Take(t, a, d)) = Append(ItemsOf(a), Item(d, Leading(b), Taken(b, n)))
  <2>1. n \in Nat /\ n <= Len(b)
    BY <1>1, <1>2
  <2> QED
    BY <1>2, <2>1, TakeShows
<1> QED
  BY <1>3, <1>4, <1>5

\* What is read behind what is shown already.
Behind(s, a) == s \o ItemsOf(a)

\* One more item that has been read.
LEMMA BehindGrows ==
  ASSUME NEW s \in Seq(H1Items), NEW a \in Readings, NEW x \in H1Items, NEW b,
         ItemsOf(b) = Append(ItemsOf(a), x)
  PROVE  /\ Behind(s, b) = Append(Behind(s, a), x)
         /\ Behind(s, a) \in Seq(H1Items)
<1> DEFINE i == ItemsOf(a)
<1>1. i \in Seq(H1Items)
  BY DEF Readings, ItemsOf
<1> HIDE DEF i
<1>2. /\ s \o i \in Seq(H1Items) /\ Len(s \o i) = Len(s) + Len(i) /\ Len(s) \in Nat /\ Len(i) \in Nat
      /\ \A k \in 1..Len(s) + Len(i) : (s \o i)[k] = IF k <= Len(s) THEN s[k] ELSE i[k - Len(s)]
  BY <1>1, ConcatProperties
<1> DEFINE y == Append(i, x)
<1>3. /\ y \in Seq(H1Items) /\ Len(y) = Len(i) + 1
      /\ \A k \in 1..Len(i) : y[k] = i[k]
      /\ y[Len(y)] = x
  BY <1>1, AppendProperties
<1> HIDE DEF y
<1> DEFINE p == s \o y
           q == Append(s \o i, x)
<1>4. /\ p \in Seq(H1Items) /\ Len(p) = Len(s) + Len(y)
      /\ \A k \in 1..Len(s) + Len(y) : p[k] = IF k <= Len(s) THEN s[k] ELSE y[k - Len(s)]
  BY <1>3, ConcatProperties
<1>5. /\ q \in Seq(H1Items) /\ Len(q) = Len(s \o i) + 1
      /\ \A k \in 1..Len(s \o i) : q[k] = (s \o i)[k]
      /\ q[Len(q)] = x
  BY <1>2, AppendProperties
<1>6. Len(p) = Len(q) /\ Len(q) = Len(s) + Len(i) + 1
  BY <1>2, <1>3, <1>4, <1>5
<1>a. Len(y) \in Nat /\ Len(s) + Len(y) = Len(q)
  BY <1>2, <1>3, <1>6
<1> HIDE DEF p, q
<1>7. ASSUME NEW k \in 1..Len(q) PROVE p[k] = q[k]
  <2>1. CASE k = Len(q)
    <3>1. q[k] = x
      <4>1. q[Len(q)] = x
        BY <1>5
      <4> QED
        BY <2>1, <4>1, Zenon
    <3>2. k > Len(s) /\ k - Len(s) = Len(y) /\ k \in 1..Len(s) + Len(y)
      BY <1>2, <1>6, <1>a, <2>1
    <3>3. p[k] = y[k - Len(s)]
      BY <1>2, <1>4, <3>2
    <3> QED
      <4>1. y[Len(y)] = x
        BY <1>3
      <4> QED
        BY <3>1, <3>2, <3>3, <4>1, Zenon
  <2>2. CASE k # Len(q)
    <3>1. k \in 1..Len(s \o i) /\ k \in 1..Len(s) + Len(i) /\ k \in 1..Len(s) + Len(y)
      BY <1>2, <1>6, <1>a, <2>2, SMTT(30)
    <3>2. q[k] = IF k <= Len(s) THEN s[k] ELSE i[k - Len(s)]
      BY <1>2, <1>5, <3>1
    <3>3. k > Len(s) => k - Len(s) \in 1..Len(i)
      BY <1>2, <3>1
    <3>4. p[k] = IF k <= Len(s) THEN s[k] ELSE y[k - Len(s)]
      BY <1>4, <3>1
    <3>5. CASE k <= Len(s)
      BY <3>2, <3>4, <3>5
    <3>6. CASE ~(k <= Len(s))
      <4>1. k > Len(s)
        BY <1>2, <3>6
      <4> QED
        BY <1>3, <3>2, <3>3, <3>4, <3>6, <4>1
    <3> QED
      BY <3>5, <3>6
  <2> QED
    BY <2>1, <2>2
<1>8. p = q
  BY <1>4, <1>5, <1>6, <1>7, SeqEqual
<1> QED
  BY <1>2, <1>8 DEF Behind, i, p, q, y

-----------------------------------------------------------------------------
(***************************************************************************)
(* Loops over a direction whose heads do not mislead.                      *)
(***************************************************************************)
\* No head misleads.
Straight(t, d) == \A i \in 1..Len(t[d]) : t[d][i].says = t[d][i].len

\* A reading of direction d that has come to message n.
AtRead(t, d, s, h, a, n) ==
  /\ a \in Readings /\ n \in Nat
  /\ AtMessage(t, d, Buffer(a, d), Behind(s, a), h, n)
  /\ \A e \in Directions : Orderly(t, e, Behind(s, a))

\* The other direction is as it was.
Aside(d, s, acc, a) ==
  /\ Buffer(a, Other(d)) = Buffer(acc, Other(d))
  /\ ShownOf(Behind(s, a), Other(d)) = ShownOf(Behind(s, acc), Other(d))

\* One Take of a direction whose heads do not mislead.
LEMMA StepAt ==
  ASSUME NEW t, Http1(t), NEW d \in Directions, NEW h \in 0..Total(t, d), NEW kinds,
         Straight(t, d), NEW s \in Seq(H1Items), NEW acc, NEW a, NEW n,
         AtRead(t, d, s, h, a, n), Aside(d, s, acc, a), Readable(t, Buffer(a, d), kinds)
  PROVE  /\ AtRead(t, d, s, h, Take(t, a, d), n + 1) /\ Aside(d, s, acc, Take(t, a, d))
         /\ Len(Buffer(Take(t, a, d), d)) < Len(Buffer(a, d))
         /\ ModeOf(Take(t, a, d)) = ModeAfter(t[d][n + 1], ModeOf(a))
         /\ n + 1 \in 1..Len(t[d]) /\ t[d][n + 1].kind \in kinds /\ End(t, d, n + 1) <= h
<1> DEFINE b == Buffer(a, d)
           l == Behind(s, a)
           z == Says(t, b)
           x == Item(d, Leading(b), Taken(b, z))
           r == Take(t, a, d)
<1>1. a \in Readings /\ n \in Nat /\ AtMessage(t, d, b, l, h, n)
      /\ \A e \in Directions : Orderly(t, e, l)
  BY DEF AtRead
<1>2. /\ n + 1 \in 1..Len(t[d]) /\ First(t, b) = t[d][n + 1] /\ t[d][n + 1].kind \in kinds
      /\ t[d][n + 1].says = t[d][n + 1].len => End(t, d, n + 1) <= h
  BY <1>1, ReadAt
<1>3. t[d][n + 1].says = t[d][n + 1].len /\ t[d][n + 1].says \in Nat \ {0}
  BY <1>2, Http1Spoken DEF Straight
<1>4. z \in Nat \ {0}
  BY <1>2, <1>3 DEF Says
<1>5. ItemsOf(a) \in Seq(H1Items)
  BY <1>1, ReadingsAre
<1>6. l \in Seq(H1Items)
  BY <1>5, ConcatProperties DEF Behind
<1>7. /\ x.dir = d /\ x \in H1Items
      /\ Orderly(t, d, Append(l, x))
      /\ AtMessage(t, d, Buffer(r, d), Append(l, x), h, n + 1)
  <2>1. b = Buffer(a, d) /\ x = Item(d, Leading(b), Taken(b, Says(t, b)))
    OBVIOUS
  <2> HIDE DEF x
  <2> QED
    BY <1>1, <1>3, <1>6, <2>1, TakeAt
<1>8. /\ r \in Readings /\ Len(Buffer(r, d)) < Len(b)
      /\ Buffer(r, Other(d)) = Buffer(a, Other(d))
      /\ ModeOf(r) = ModeAfter(First(t, b), ModeOf(a))
      /\ ItemsOf(r) = Append(ItemsOf(a), x)
  <2>1. /\ b = Buffer(a, d) /\ z = Says(t, b) /\ Readable(t, b, kinds) /\ a \in Readings
        /\ x = Item(d, Leading(b), Taken(b, z)) /\ r = Take(t, a, d)
    BY <1>1
  <2> HIDE DEF b, z, x, r
  <2>2. r \in Readings
    BY <1>4, <2>1, TakeReads
  <2>3. Len(Buffer(r, d)) < Len(b)
    BY <1>4, <2>1, TakeReads
  <2>4. Buffer(r, Other(d)) = Buffer(a, Other(d))
    BY <1>4, <2>1, TakeReads
  <2>5. ModeOf(r) = ModeAfter(First(t, b), ModeOf(a))
    BY <2>1, TakeTurns
  <2>6. ItemsOf(r) = Append(ItemsOf(a), x)
    <3>1. Len(b) \in Nat /\ z \in Nat /\ z <= Len(b)
      BY <1>4, <2>1, ReadingsAre DEF Readable, InStep, Says
    <3> QED
      BY <2>1, <3>1, TakeShows
  <2> QED
    BY <2>2, <2>3, <2>4, <2>5, <2>6
<1> HIDE DEF x, r, b
<1>9. Behind(s, r) = Append(l, x)
  BY <1>1, <1>7, <1>8, BehindGrows
<1> HIDE DEF l
<1>10. ASSUME NEW e \in Directions PROVE Orderly(t, e, Behind(s, r))
  <2>1. CASE e = d
    BY <1>7, <1>9, <2>1
  <2>2. CASE e # d
    <3>1. Orderly(t, e, l) /\ x.dir # e
      BY <1>1, <1>7, <2>2
    <3>2. Orderly(t, e, Append(l, x))
      BY <1>6, <1>7, <3>1, OrderlyGrows
    <3> QED
      BY <1>9, <3>2
  <2> QED
    BY <2>1, <2>2
<1>11. ShownOf(Append(l, x), Other(d)) = ShownOf(l, Other(d))
  <2>1. Other(d) # d
    BY DEF Other, Directions
  <2>2. ShownOf(Append(l, x), Other(d)) = ShownOf(l, Other(d)) \cup {m \in {x.msg} : x.dir = Other(d)}
    BY <1>6, <1>7, AppendShows
  <2> QED
    BY <1>7, <2>1, <2>2
<1>12. AtRead(t, d, s, h, r, n + 1)
  <2>1. n + 1 \in Nat
    BY <1>1
  <2> QED
    BY <1>7, <1>8, <1>9, <1>10, <2>1 DEF AtRead
<1>13. Aside(d, s, acc, r)
  BY <1>8, <1>9, <1>11 DEF Aside, l
<1> QED
  BY <1>2, <1>3, <1>8, <1>12, <1>13 DEF r, b

\* A loop over such a direction reads every message of these kinds that is complete,
\* and W holds of the last message read and the mode, whatever every step keeps.
LEMMA LoopAt ==
  ASSUME NEW t, Http1(t), NEW d \in Directions, NEW h \in 0..Total(t, d), NEW kinds,
         Straight(t, d), NEW s \in Seq(H1Items), NEW acc, NEW m,
         AtRead(t, d, s, h, acc, m), NEW W, <<m, ModeOf(acc)>> \in W,
         \A n \in Nat : \A w \in Modes :
           /\ <<n, w>> \in W /\ n + 1 \in 1..Len(t[d]) /\ t[d][n + 1].kind \in kinds
           /\ End(t, d, n + 1) <= h
           => <<n + 1, ModeAfter(t[d][n + 1], w)>> \in W
  PROVE  /\ Aside(d, s, acc, Loop(t, acc, d, kinds))
         /\ \E n \in Nat :
              /\ n >= m /\ AtRead(t, d, s, h, Loop(t, acc, d, kinds), n)
              /\ <<n, ModeOf(Loop(t, acc, d, kinds))>> \in W
              /\ n + 1 \in 1..Len(t[d]) /\ t[d][n + 1].kind \in kinds => ~(End(t, d, n + 1) <= h)
<1> DEFINE r == Loop(t, acc, d, kinds)
           S == {a \in Readings : /\ Aside(d, s, acc, a)
                                  /\ \E n \in Nat : /\ n >= m /\ AtRead(t, d, s, h, a, n)
                                                    /\ <<n, ModeOf(a)>> \in W}
<1>1. acc \in S
  <2>1. acc \in Readings /\ m \in Nat /\ Aside(d, s, acc, acc)
    BY DEF AtRead, Aside
  <2> QED
    BY <2>1
<1>2. \A a \in S : Len(Buffer(a, d)) \in Nat
  BY ReadingsAre
<1>3. ASSUME NEW a \in S, Readable(t, Buffer(a, d), kinds)
      PROVE  Take(t, a, d) \in S /\ Len(Buffer(Take(t, a, d), d)) < Len(Buffer(a, d))
  <2>1. PICK n \in Nat : n >= m /\ AtRead(t, d, s, h, a, n) /\ <<n, ModeOf(a)>> \in W
    OBVIOUS
  <2>2. a \in Readings /\ Aside(d, s, acc, a) /\ ModeOf(a) \in Modes
    BY ReadingsAre
  <2> DEFINE q == Take(t, a, d)
  <2> HIDE DEF q
  <2>3. /\ AtRead(t, d, s, h, q, n + 1) /\ Aside(d, s, acc, q)
        /\ Len(Buffer(q, d)) < Len(Buffer(a, d))
        /\ ModeOf(q) = ModeAfter(t[d][n + 1], ModeOf(a))
        /\ n + 1 \in 1..Len(t[d]) /\ t[d][n + 1].kind \in kinds /\ End(t, d, n + 1) <= h
    BY <1>3, <2>1, <2>2, StepAt DEF q
  <2>4. <<n + 1, ModeOf(q)>> \in W
    BY <2>1, <2>2, <2>3
  <2>5. n + 1 >= m /\ n + 1 \in Nat /\ q \in Readings
    <3>1. m \in Nat
      BY DEF AtRead
    <3> QED
      BY <2>1, <2>3, <3>1 DEF AtRead
  <2>6. q \in S
    BY <2>3, <2>4, <2>5
  <2> QED
    BY <2>3, <2>6 DEF q
<1> HIDE DEF S
<1>4. r \in S /\ ~Readable(t, Buffer(r, d), kinds)
  BY <1>1, <1>2, <1>3, LoopEnds
<1> HIDE DEF r
<1>5. Aside(d, s, acc, r)
  BY <1>4 DEF S
<1>6. PICK n \in Nat : n >= m /\ AtRead(t, d, s, h, r, n) /\ <<n, ModeOf(r)>> \in W
  BY <1>4 DEF S
<1>7. ASSUME n + 1 \in 1..Len(t[d]), t[d][n + 1].kind \in kinds, End(t, d, n + 1) <= h
      PROVE  FALSE
  <2>1. AtMessage(t, d, Buffer(r, d), Behind(s, r), h, n)
    BY <1>6 DEF AtRead
  <2>2. t[d][n + 1].says = t[d][n + 1].len
    BY <1>7 DEF Straight
  <2>3. Readable(t, Buffer(r, d), kinds)
    BY <1>7, <2>1, <2>2, ReadAt
  <2> QED
    BY <1>4, <2>3
<1>8. n + 1 \in 1..Len(t[d]) /\ t[d][n + 1].kind \in kinds => ~(End(t, d, n + 1) <= h)
  BY <1>7
<1> QED
  BY <1>5, <1>6, <1>8 DEF r

-----------------------------------------------------------------------------
(***************************************************************************)
(* Conversations without websockets: a head may lead astray for good.      *)
(***************************************************************************)
\* Direction d has been read up to some message, or led astray.
Read(t, d, b, s, h) == Astray(t, d, b, s, h) \/ \E n \in Nat : AtMessage(t, d, b, s, h, n)

\* One more item leaves both directions orderly.
LEMMA AddsOrderly ==
  ASSUME NEW t, NEW d \in Directions, NEW s \in Seq(H1Items), NEW a \in Readings,
         NEW x \in H1Items, x.dir = d, Orderly(t, d, Append(Behind(s, a), x)),
         NEW r, ItemsOf(r) = Append(ItemsOf(a), x),
         NEW e \in Directions, Orderly(t, e, Behind(s, a))
  PROVE  Orderly(t, e, Behind(s, r))
<1> DEFINE l == Behind(s, a)
<1>1. Behind(s, r) = Append(l, x) /\ l \in Seq(H1Items)
  BY BehindGrows
<1> HIDE DEF l
<1>2. CASE e = d
  BY <1>1, <1>2 DEF l
<1>3. CASE e # d
  <2>1. Orderly(t, e, l) /\ x.dir # e
    BY <1>3 DEF l
  <2>2. Orderly(t, e, Append(l, x))
    BY <1>1, <2>1, OrderlyGrows
  <2> QED
    BY <1>1, <2>2
<1> QED
  BY <1>2, <1>3

\* One more item of a direction leaves the other as it was.
LEMMA AddsAside ==
  ASSUME NEW d \in Directions, NEW s \in Seq(H1Items), NEW acc, NEW a \in Readings,
         Aside(d, s, acc, a), NEW x \in H1Items, x.dir = d,
         NEW r, ItemsOf(r) = Append(ItemsOf(a), x), Buffer(r, Other(d)) = Buffer(a, Other(d))
  PROVE  Aside(d, s, acc, r)
<1> DEFINE l == Behind(s, a)
<1>1. Behind(s, r) = Append(l, x) /\ l \in Seq(H1Items)
  BY BehindGrows
<1> HIDE DEF l
<1>2. ShownOf(Append(l, x), Other(d)) = ShownOf(l, Other(d))
  <2>1. Other(d) # d
    BY DEF Other, Directions
  <2>2. ShownOf(Append(l, x), Other(d)) = ShownOf(l, Other(d)) \cup {m \in {x.msg} : x.dir = Other(d)}
    BY <1>1, AppendShows
  <2> QED
    BY <2>1, <2>2
<1> QED
  BY <1>1, <1>2 DEF Aside, l

\* One Take of a direction in which heads may mislead and nobody asks for a websocket.
LEMMA StepPlain ==
  ASSUME NEW t, Http1(t), NEW d \in Directions, NEW h \in 0..Total(t, d), NEW kinds,
         NEW s \in Seq(H1Items), NEW acc, NEW a \in Readings,
         \A e \in Directions : Orderly(t, e, Behind(s, a)),
         Read(t, d, Buffer(a, d), Behind(s, a), h),
         \A i \in 1..Len(t[d]) : ModeAfter(t[d][i], "http") = "http",
         ModeOf(a) = "http", Aside(d, s, acc, a), Readable(t, Buffer(a, d), kinds)
  PROVE  /\ Take(t, a, d) \in Readings
         /\ \A e \in Directions : Orderly(t, e, Behind(s, Take(t, a, d)))
         /\ Read(t, d, Buffer(Take(t, a, d), d), Behind(s, Take(t, a, d)), h)
         /\ ModeOf(Take(t, a, d)) = "http" /\ Aside(d, s, acc, Take(t, a, d))
         /\ Len(Buffer(Take(t, a, d), d)) < Len(Buffer(a, d))
<1> DEFINE b == Buffer(a, d)
           l == Behind(s, a)
           z == Says(t, b)
           x == Item(d, Leading(b), Taken(b, z))
           r == Take(t, a, d)
<1>1. ItemsOf(a) \in Seq(H1Items) /\ Len(b) \in Nat
  BY ReadingsAre
<1>2. l \in Seq(H1Items)
  BY <1>1, ConcatProperties DEF Behind
<1>3. /\ x.dir = d /\ x \in H1Items
      /\ \E i \in 1..Len(t[d]) : First(t, b) = t[d][i]
      /\ Orderly(t, d, Append(l, x))
      /\ Read(t, d, Buffer(r, d), Append(l, x), h)
  <2>1. b = Buffer(a, d) /\ x = Item(d, Leading(b), Taken(b, Says(t, b)))
    OBVIOUS
  <2>2. CASE Astray(t, d, b, l, h)
    <3> HIDE DEF x
    <3>1. /\ x.dir = d /\ x \in H1Items /\ x.msg \in 1..Len(t[d]) /\ First(t, b) = t[d][x.msg]
          /\ Orderly(t, d, Append(l, x)) /\ Astray(t, d, Buffer(r, d), Append(l, x), h)
      BY <1>2, <2>1, <2>2, TakeAstray
    <3> QED
      BY <3>1 DEF Read
  <2>3. ASSUME NEW n \in Nat, AtMessage(t, d, b, l, h, n)
        PROVE  /\ x.dir = d /\ x \in H1Items
               /\ \E i \in 1..Len(t[d]) : First(t, b) = t[d][i]
               /\ Orderly(t, d, Append(l, x)) /\ Read(t, d, Buffer(r, d), Append(l, x), h)
    <3> HIDE DEF x
    <3>1. /\ n + 1 \in 1..Len(t[d]) /\ x.dir = d /\ x \in H1Items /\ First(t, b) = t[d][n + 1]
          /\ Orderly(t, d, Append(l, x))
          /\ t[d][n + 1].says = t[d][n + 1].len =>
               AtMessage(t, d, Buffer(r, d), Append(l, x), h, n + 1)
          /\ t[d][n + 1].says # t[d][n + 1].len =>
               Astray(t, d, Buffer(r, d), Append(l, x), h)
      BY <1>2, <2>1, <2>3, TakeAt
    <3>2. n + 1 \in Nat
      OBVIOUS
    <3> QED
      BY <3>1, <3>2 DEF Read
  <2>4. Astray(t, d, b, l, h) \/ \E n \in Nat : AtMessage(t, d, b, l, h, n)
    BY DEF Read
  <2> QED
    BY <2>2, <2>3, <2>4
<1>4. PICK i \in 1..Len(t[d]) : First(t, b) = t[d][i]
  BY <1>3
<1>5. z \in Nat \ {0}
  BY <1>4, Http1Spoken DEF Says
<1>6. /\ r \in Readings /\ Len(Buffer(r, d)) < Len(b)
      /\ Buffer(r, Other(d)) = Buffer(a, Other(d))
      /\ ModeOf(r) = ModeAfter(First(t, b), ModeOf(a))
      /\ ItemsOf(r) = Append(ItemsOf(a), x)
  <2>1. /\ b = Buffer(a, d) /\ z = Says(t, b) /\ Readable(t, b, kinds) /\ a \in Readings
        /\ x = Item(d, Leading(b), Taken(b, z)) /\ r = Take(t, a, d)
    OBVIOUS
  <2> HIDE DEF b, z, x, r
  <2>2. r \in Readings
    BY <1>5, <2>1, TakeReads
  <2>3. Len(Buffer(r, d)) < Len(b)
    BY <1>5, <2>1, TakeReads
  <2>4. Buffer(r, Other(d)) = Buffer(a, Other(d))
    BY <1>5, <2>1, TakeReads
  <2>5. ModeOf(r) = ModeAfter(First(t, b), ModeOf(a))
    BY <2>1, TakeTurns
  <2>6. ItemsOf(r) = Append(ItemsOf(a), x)
    <3>1. Len(b) \in Nat /\ z \in Nat /\ z <= Len(b)
      BY <1>1, <1>5, <2>1 DEF Readable, InStep, Says
    <3> QED
      BY <2>1, <3>1, TakeShows
  <2> QED
    BY <2>2, <2>3, <2>4, <2>5, <2>6
<1>7. ModeOf(r) = "http"
  BY <1>4, <1>6
<1> HIDE DEF x, r, b
<1>8. /\ Aside(d, s, acc, r) /\ \A e \in Directions : Orderly(t, e, Behind(s, r))
      /\ Behind(s, r) = Append(l, x)
  <2>1. /\ x \in H1Items /\ x.dir = d /\ Orderly(t, d, Append(Behind(s, a), x))
        /\ ItemsOf(r) = Append(ItemsOf(a), x) /\ Buffer(r, Other(d)) = Buffer(a, Other(d))
    BY <1>3, <1>6
  <2>2. Aside(d, s, acc, r)
    BY <2>1, AddsAside
  <2>3. ASSUME NEW e \in Directions PROVE Orderly(t, e, Behind(s, r))
    <3>1. Orderly(t, e, Behind(s, a))
      OBVIOUS
    <3> QED
      BY <2>1, <3>1, AddsOrderly
  <2>4. Behind(s, r) = Append(l, x)
    BY <2>1, BehindGrows
  <2> QED
    BY <2>2, <2>3, <2>4
<1> QED
  BY <1>3, <1>6, <1>7, <1>8 DEF r, b

\* What a loop has done for direction d of a plain conversation.
AfterPlain(t, d, s, h, acc, r) ==
  /\ r \in Readings /\ Aside(d, s, acc, r) /\ ModeOf(r) = "http"
  /\ \A e \in Directions : Orderly(t, e, Behind(s, r))
  /\ Read(t, d, Buffer(r, d), Behind(s, r), h)
  /\ \A i \in 1..Len(t[d]) : End(t, d, i) <= h /\ ~Misleading(t, d, i) =>
       i \in ShownOf(Behind(s, r), d)

\* A loop over such a direction shows every complete message that can be told apart.
LEMMA LoopPlain ==
  ASSUME NEW t, Http1(t), NEW d \in Directions, NEW h \in 0..Total(t, d), NEW kinds,
         NEW s \in Seq(H1Items), NEW acc \in Readings,
         \A e \in Directions : Orderly(t, e, Behind(s, acc)),
         Read(t, d, Buffer(acc, d), Behind(s, acc), h), ModeOf(acc) = "http",
         \A i \in 1..Len(t[d]) : t[d][i].kind \in kinds /\ ModeAfter(t[d][i], "http") = "http",
         NEW r, r = Loop(t, acc, d, kinds)
  PROVE  AfterPlain(t, d, s, h, acc, r)
<1> DEFINE S == {a \in Readings : /\ Aside(d, s, acc, a) /\ ModeOf(a) = "http"
                                  /\ \A e \in Directions : Orderly(t, e, Behind(s, a))
                                  /\ Read(t, d, Buffer(a, d), Behind(s, a), h)}
<1>1. acc \in S
  BY DEF Aside
<1>2. \A a \in S : Len(Buffer(a, d)) \in Nat
  BY ReadingsAre
<1>3. ASSUME NEW a \in S, Readable(t, Buffer(a, d), kinds)
      PROVE  Take(t, a, d) \in S /\ Len(Buffer(Take(t, a, d), d)) < Len(Buffer(a, d))
  <2> DEFINE q == Take(t, a, d)
  <2> HIDE DEF q
  <2>1. /\ q \in Readings /\ \A e \in Directions : Orderly(t, e, Behind(s, q))
        /\ Read(t, d, Buffer(q, d), Behind(s, q), h)
        /\ ModeOf(q) = "http" /\ Aside(d, s, acc, q)
        /\ Len(Buffer(q, d)) < Len(Buffer(a, d))
    BY <1>3, StepPlain DEF q
  <2> QED
    BY <2>1 DEF q
<1> HIDE DEF S
<1>4. r \in S /\ ~Readable(t, Buffer(r, d), kinds)
  BY <1>1, <1>2, <1>3, LoopEnds
<1>5. /\ r \in Readings /\ Aside(d, s, acc, r) /\ ModeOf(r) = "http"
      /\ \A e \in Directions : Orderly(t, e, Behind(s, r))
      /\ Read(t, d, Buffer(r, d), Behind(s, r), h)
  BY <1>4 DEF S
<1>6. ASSUME NEW i \in 1..Len(t[d]), End(t, d, i) <= h, ~Misleading(t, d, i)
      PROVE  i \in ShownOf(Behind(s, r), d)
  <2>0. Spoken(t) /\ Len(t[d]) \in Nat
    BY Http1Spoken
  <2>1. CASE Astray(t, d, Buffer(r, d), Behind(s, r), h)
    <3>1. PICK j \in 1..Len(t[d]) : /\ Misleading(t, d, j)
                                    /\ 1..j - 1 \subseteq ShownOf(Behind(s, r), d)
      BY <2>1 DEF Astray
    <3>2. ~(j <= i)
      BY <1>6, <3>1, MisleadingStays
    <3>3. i \in 1..j - 1
      BY <2>0, <3>2
    <3> QED
      BY <3>1, <3>3
  <2>2. ASSUME NEW n \in Nat, AtMessage(t, d, Buffer(r, d), Behind(s, r), h, n)
        PROVE  i \in ShownOf(Behind(s, r), d)
    <3>1. n \in 0..Len(t[d]) /\ ~Misleading(t, d, n) /\ ShownOf(Behind(s, r), d) = 1..n
      BY <2>2 DEF AtMessage
    <3>2. CASE i <= n
      BY <3>1, <3>2
    <3>3. CASE n < i
      <4>1. n + 1 \in 1..Len(t[d]) /\ n + 1 <= i /\ n + 1 \in 0..Len(t[d]) /\ i \in 0..Len(t[d])
        BY <2>0, <3>3
      <4>2. ~Misleading(t, d, n + 1)
        BY <1>6, <4>1, MisleadingStays
      <4>3. t[d][n + 1].says = t[d][n + 1].len
        BY <3>1, <4>1, <4>2, MisleadingNext
      <4>4. End(t, d, n + 1) <= h
        <5>1. n + 1 = i \/ n + 1 < i
          BY <4>1
        <5>2. n + 1 < i => End(t, d, n + 1) < End(t, d, i)
          BY <2>0, <4>1, EndsGrow
        <5>3. End(t, d, n + 1) \in Nat /\ End(t, d, i) \in Nat /\ Total(t, d) \in Nat
          BY <2>0, <4>1, UnitsAre, AllAre
        <5> QED
          BY <1>6, <5>1, <5>2, <5>3
      <4>5. Readable(t, Buffer(r, d), kinds)
        BY <2>2, <4>1, <4>3, <4>4, ReadAt
      <4> QED
        BY <1>4, <4>5
    <3> QED
      BY <3>2, <3>3
  <2>3. Astray(t, d, Buffer(r, d), Behind(s, r), h)
        \/ \E n \in Nat : AtMessage(t, d, Buffer(r, d), Behind(s, r), h, n)
    BY <1>5 DEF Read
  <2> QED
    BY <2>1, <2>2, <2>3
<1> QED
  BY <1>5, <1>6 DEF AfterPlain

\* An event brings the units up to g of direction d.
News(t, d, h, g) == SubSeq(AllUnits(t, d), h + 1, g)

\* More bytes change nothing of what has been read.
LEMMA Pushed ==
  ASSUME NEW t, Http1(t), NEW d \in Directions, NEW g \in 0..Total(t, d), NEW h \in 0..g,
         NEW b, NEW s
  PROVE  /\ \A n : AtMessage(t, d, b, s, h, n) => AtMessage(t, d, b \o News(t, d, h, g), s, g, n)
         /\ Read(t, d, b, s, h) => Read(t, d, b \o News(t, d, h, g), s, g)
<1>1. Spoken(t) /\ Total(t, d) \in Nat /\ Len(t[d]) \in Nat
  BY Http1Spoken, AllAre
<1>2. ASSUME NEW p \in 0..h, b = Window(t, d, p, h)
      PROVE  b \o News(t, d, h, g) = Window(t, d, p, g)
  BY <1>1, <1>2, WindowGrows DEF News
<1>3. ASSUME NEW n, AtMessage(t, d, b, s, h, n)
      PROVE  AtMessage(t, d, b \o News(t, d, h, g), s, g, n)
  <2>1. n \in 0..Len(t[d]) /\ End(t, d, n) <= h /\ b = Window(t, d, End(t, d, n), h)
        /\ ~Misleading(t, d, n) /\ ShownOf(s, d) = 1..n
    BY <1>3 DEF AtMessage
  <2>2. End(t, d, n) \in Nat
    BY <1>1, <2>1, UnitsAre
  <2>3. End(t, d, n) \in 0..h /\ End(t, d, n) <= g
    BY <1>1, <2>1, <2>2
  <2> QED
    BY <1>2, <2>1, <2>3 DEF AtMessage
<1>4. ASSUME Astray(t, d, b, s, h) PROVE Astray(t, d, b \o News(t, d, h, g), s, g)
  <2>1. PICK j \in 1..Len(t[d]) :
          /\ Misleading(t, d, j)
          /\ \E p \in 0..h : End(t, d, j - 1) < p /\ b = Window(t, d, p, h)
          /\ 1..j - 1 \subseteq ShownOf(s, d)
    BY <1>4 DEF Astray
  <2>2. PICK p \in 0..h : End(t, d, j - 1) < p /\ b = Window(t, d, p, h)
    BY <2>1
  <2>3. p \in 0..g /\ b \o News(t, d, h, g) = Window(t, d, p, g)
    BY <1>1, <1>2, <2>2
  <2> QED
    BY <2>1, <2>2, <2>3 DEF Astray
<1> QED
  BY <1>3, <1>4 DEF Read

\* A decoder and what it has shown, as a reading that begins.
Start(o) == [o |-> o, items |-> <<>>]

\* A reading that begins has the decoder's buffers and mode.
LEMMA StartIs ==
  ASSUME NEW o \in H1Decoders, NEW s \in Seq(H1Items)
  PROVE  /\ Start(o) \in Readings /\ ModeOf(Start(o)) = o.mode /\ Behind(s, Start(o)) = s
         /\ \A d \in Directions : Buffer(Start(o), d) = o[d]
<1>1. <<>> \in Seq(H1Items)
  OBVIOUS
<1>2. s \o <<>> = s
  OBVIOUS
<1> QED
  BY <1>1, <1>2 DEF Start, Readings, ModeOf, Buffer, Behind, ItemsOf

\* The other direction is read no further.
LEMMA AsideKeeps ==
  ASSUME NEW t, NEW d \in Directions, NEW s, NEW acc, NEW a, Aside(d, s, acc, a), NEW h,
         NEW e, e = Other(d)
  PROVE  /\ \A n : AtMessage(t, e, Buffer(acc, e), Behind(s, acc), h, n) =>
                     AtMessage(t, e, Buffer(a, e), Behind(s, a), h, n)
         /\ Read(t, e, Buffer(acc, e), Behind(s, acc), h) =>
              Read(t, e, Buffer(a, e), Behind(s, a), h)
         /\ ShownOf(Behind(s, a), e) = ShownOf(Behind(s, acc), e)
  BY DEF Aside, AtMessage, Astray, Read

\* A decoder and its list after h units of a conversation without websockets.
PlainReads(t, o, s, h) ==
  /\ o \in H1Decoders /\ s \in Seq(H1Items) /\ o.mode = "http"
  /\ \A d \in Directions :
       /\ h[d] \in 0..Total(t, d) /\ Orderly(t, d, s) /\ Read(t, d, o[d], s, h[d])
       /\ \A i \in 1..Len(t[d]) :
            End(t, d, i) <= h[d] /\ ~Misleading(t, d, i) => i \in ShownOf(s, d)

\* Without websockets the mode never changes.
LEMMA PlainMessages ==
  ASSUME NEW t, Http1(t), Plain(t)
  PROVE  /\ \A i \in 1..Len(t["in"]) : /\ t["in"][i].kind \in Requests
                                       /\ ModeAfter(t["in"][i], "http") = "http"
         /\ \A i \in 1..Len(t["out"]) : /\ t["out"][i].kind \in Responses
                                        /\ ModeAfter(t["out"][i], "http") = "http"
<1>1. "in" \in Directions /\ "out" \in Directions
  BY DEF Directions
<1>2. DOMAIN t["in"] = 1..Len(t["in"]) /\ DOMAIN t["out"] = 1..Len(t["out"])
  BY <1>1, Http1Spoken
<1> QED
  BY <1>2 DEF Plain, Requests, Responses, ModeAfter

\* H1Observer::parse on a connection without websockets (h1_parser.rs 156-240).
LEMMA ParsePlain ==
  ASSUME NEW t, Http1(t), Plain(t), NEW o \in H1Decoders, o.mode = "http",
         NEW s \in Seq(H1Items), NEW h,
         \A d \in Directions : /\ h[d] \in 0..Total(t, d) /\ Orderly(t, d, s)
                               /\ Read(t, d, o[d], s, h[d]),
         NEW r, r = ParseH1(t, o)
  PROVE  r \in Readings /\ PlainReads(t, r.o, Behind(s, r), h)
<1> DEFINE a == Start(o)
           b == Loop(t, a, "in", Requests)
<1>1. "in" \in Directions /\ "out" \in Directions /\ Other("in") = "out" /\ Other("out") = "in"
  BY DEF Directions, Other
<1>2. r = Loop(t, b, "out", Responses)
  BY DEF ParseH1, Start
<1>3. /\ a \in Readings /\ ModeOf(a) = "http" /\ Behind(s, a) = s
      /\ \A d \in Directions : Buffer(a, d) = o[d]
  BY StartIs
<1> HIDE DEF a
<1>4. \A e \in Directions : Orderly(t, e, Behind(s, a))
  BY <1>3
<1>5. \A e \in Directions : Read(t, e, Buffer(a, e), Behind(s, a), h[e])
  BY <1>3
<1>6. /\ \A i \in 1..Len(t["in"]) : /\ t["in"][i].kind \in Requests
                                    /\ ModeAfter(t["in"][i], "http") = "http"
      /\ \A i \in 1..Len(t["out"]) : /\ t["out"][i].kind \in Responses
                                     /\ ModeAfter(t["out"][i], "http") = "http"
  BY PlainMessages
<1>7. b = Loop(t, a, "in", Requests)
  OBVIOUS
<1> HIDE DEF b
<1> DEFINE hi == h["in"]
           ho == h["out"]
<1>a. hi \in 0..Total(t, "in") /\ ho \in 0..Total(t, "out")
  BY <1>1
<1>b. Read(t, "in", Buffer(a, "in"), Behind(s, a), hi) /\ Read(t, "out", Buffer(a, "out"), Behind(s, a), ho)
  BY <1>1, <1>5
<1> HIDE DEF hi, ho
<1>8. /\ b \in Readings /\ Aside("in", s, a, b) /\ ModeOf(b) = "http"
      /\ \A e \in Directions : Orderly(t, e, Behind(s, b))
      /\ Read(t, "in", Buffer(b, "in"), Behind(s, b), hi)
      /\ \A i \in 1..Len(t["in"]) : End(t, "in", i) <= hi /\ ~Misleading(t, "in", i) =>
           i \in ShownOf(Behind(s, b), "in")
  <2>1. AfterPlain(t, "in", s, hi, a, b)
    BY <1>1, <1>3, <1>4, <1>6, <1>7, <1>a, <1>b, LoopPlain
  <2> QED
    BY <2>1 DEF AfterPlain
<1>9. Read(t, "out", Buffer(b, "out"), Behind(s, b), ho)
  BY <1>1, <1>8, <1>b, AsideKeeps
<1>10. /\ r \in Readings /\ Aside("out", s, b, r) /\ ModeOf(r) = "http"
       /\ \A e \in Directions : Orderly(t, e, Behind(s, r))
       /\ Read(t, "out", Buffer(r, "out"), Behind(s, r), ho)
       /\ \A i \in 1..Len(t["out"]) : End(t, "out", i) <= ho /\ ~Misleading(t, "out", i) =>
            i \in ShownOf(Behind(s, r), "out")
  <2>1. AfterPlain(t, "out", s, ho, b, r)
    BY <1>1, <1>2, <1>6, <1>8, <1>9, <1>a, LoopPlain
  <2> QED
    BY <2>1 DEF AfterPlain
<1>11. /\ Read(t, "in", Buffer(r, "in"), Behind(s, r), hi)
       /\ ShownOf(Behind(s, r), "in") = ShownOf(Behind(s, b), "in")
  <2>1. Read(t, "in", Buffer(b, "in"), Behind(s, b), hi) /\ Aside("out", s, b, r)
    BY <1>8, <1>10
  <2>2. Read(t, "in", Buffer(r, "in"), Behind(s, r), hi)
    BY <1>1, <2>1, AsideKeeps
  <2>3. ShownOf(Behind(s, r), "in") = ShownOf(Behind(s, b), "in")
    BY <1>1, <2>1 DEF Aside
  <2> QED
    BY <2>2, <2>3
<1>12. r.o \in H1Decoders /\ Behind(s, r) \in Seq(H1Items) /\ r.o.mode = "http"
       /\ r.o["in"] = Buffer(r, "in") /\ r.o["out"] = Buffer(r, "out")
  <2>1. ItemsOf(r) \in Seq(H1Items)
    BY <1>10, ReadingsAre, <1>1
  <2>2. Behind(s, r) \in Seq(H1Items)
    BY <2>1, ConcatProperties DEF Behind
  <2> QED
    BY <1>10, <2>2 DEF Readings, ModeOf, Buffer
<1>13. ASSUME NEW d \in Directions
       PROVE  /\ h[d] \in 0..Total(t, d) /\ Orderly(t, d, Behind(s, r))
              /\ Read(t, d, r.o[d], Behind(s, r), h[d])
              /\ \A i \in 1..Len(t[d]) :
                   End(t, d, i) <= h[d] /\ ~Misleading(t, d, i) => i \in ShownOf(Behind(s, r), d)
  <2>1. CASE d = "in"
    BY <1>8, <1>10, <1>11, <1>12, <2>1 DEF hi
  <2>2. CASE d = "out"
    BY <1>10, <1>12, <2>2 DEF ho
  <2> QED
    BY <2>1, <2>2 DEF Directions
<1> QED
  BY <1>10, <1>12, <1>13 DEF PlainReads

-----------------------------------------------------------------------------
(***************************************************************************)
(* Conversations with a websocket: its stages, and how an event leads from *)
(* one to the next.                                                        *)
(***************************************************************************)
\* Nothing is heard of a message before the one that it answers.
Causal(t, h) ==
  \A d \in Directions : \A i \in 1..Len(t[d]) :
    End(t, d, i - 1) < h[d] /\ t[d][i].after # 0 =>
      /\ t[d][i].after \in 1..Len(t[Other(d)])
      /\ End(t, Other(d), t[d][i].after) <= h[Other(d)]

\* The first n messages end no later than the first m.
LEMMA EndsUpTo ==
  ASSUME NEW t, Spoken(t), NEW d \in Directions, NEW m \in 0..Len(t[d]), NEW n \in 0..Len(t[d])
  PROVE  /\ n <= m => End(t, d, n) <= End(t, d, m)
         /\ End(t, d, n) <= End(t, d, m) => n <= m
         /\ End(t, d, n) \in Nat /\ End(t, d, m) \in Nat
<1>1. Len(t[d]) \in Nat
  BY DEF Spoken
<1>2. n < m => End(t, d, n) < End(t, d, m)
  BY EndsGrow
<1>3. m < n => End(t, d, m) < End(t, d, n)
  BY EndsGrow
<1>4. End(t, d, n) \in Nat /\ End(t, d, m) \in Nat
  BY UnitsAre
<1>5. n < m \/ n = m \/ m < n
  BY <1>1
<1> QED
  BY <1>1, <1>2, <1>3, <1>4, <1>5

\* The parts of a conversation that asks for a websocket.
LEMMA AskingIs ==
  ASSUME NEW t, Http1(t), NEW u, NEW r, Asking(t, u, r)
  PROVE  /\ u \in 1..Len(t["in"]) /\ r \in 1..Len(t["out"])
         /\ Len(t["in"]) \in Nat /\ Len(t["out"]) \in Nat
         /\ Straight(t, "in") /\ Straight(t, "out") /\ Spoken(t)
         /\ t["in"][u].kind = "upgrade"
         /\ \A i \in 1..Len(t["in"]) : /\ i < u => t["in"][i].kind = "req"
                                       /\ i > u => t["in"][i].after >= r
         /\ \A i \in 1..Len(t["out"]) : /\ i < r => t["out"][i].kind = "resp"
                                        /\ i >= r => t["out"][i].after >= u
<1>1. "in" \in Directions /\ "out" \in Directions
  BY DEF Directions
<1>2. /\ DOMAIN t["in"] = 1..Len(t["in"]) /\ DOMAIN t["out"] = 1..Len(t["out"])
      /\ Len(t["in"]) \in Nat /\ Len(t["out"]) \in Nat /\ Spoken(t)
  BY <1>1, Http1Spoken
<1>3. Straight(t, "in") /\ Straight(t, "out")
  BY <1>1, <1>2 DEF Asking, Straight
<1> QED
  BY <1>2, <1>3 DEF Asking

\* Before the announcement has been heard nothing of its answer has, and before the
\* answer has nothing of what follows the announcement.
LEMMA Waits ==
  ASSUME NEW t, Http1(t), NEW u, NEW r, Asking(t, u, r), NEW h, Causal(t, h),
         h["in"] \in 0..Total(t, "in"), h["out"] \in 0..Total(t, "out")
  PROVE  /\ h["in"] < End(t, "in", u) => h["out"] <= End(t, "out", r - 1)
         /\ h["out"] < End(t, "out", r) => h["in"] <= End(t, "in", u)
<1>1. "in" \in Directions /\ "out" \in Directions /\ Other("in") = "out" /\ Other("out") = "in"
  BY DEF Directions, Other
<1> DEFINE I == Len(t["in"])
           O == Len(t["out"])
           hi == h["in"]
           ho == h["out"]
<1>2. /\ u \in 1..I /\ r \in 1..O /\ I \in Nat /\ O \in Nat /\ Spoken(t)
      /\ \A i \in 1..I : i > u => t["in"][i].after >= r
      /\ \A i \in 1..O : i >= r => t["out"][i].after >= u
  BY AskingIs
<1>3. hi \in Nat /\ ho \in Nat /\ hi <= Total(t, "in")
  BY <1>1, <1>2, AllAre
<1>4. ASSUME hi < End(t, "in", u), ~(ho <= End(t, "out", r - 1)) PROVE FALSE
  <2> DEFINE p == t["out"][r].after
  <2>1. p >= u /\ p # 0 /\ p \in Nat
    <3>1. p \in Nat
      BY <1>1, <1>2, Http1Spoken
    <3> QED
      BY <1>2, <3>1
  <2>2. r - 1 \in 0..O
    BY <1>2
  <2>3. End(t, "out", r - 1) \in Nat
    BY <1>1, <1>2, <2>2, UnitsAre
  <2>4. End(t, "out", r - 1) < ho
    BY <1>3, <1>4, <2>3
  <2>5. p \in 1..I /\ End(t, "in", p) <= hi
    BY <1>1, <1>2, <2>1, <2>4 DEF Causal
  <2> HIDE DEF p
  <2>6. u \in 0..I /\ p \in 0..I
    BY <1>2, <2>5
  <2>7. End(t, "in", u) <= End(t, "in", p) /\ End(t, "in", u) \in Nat /\ End(t, "in", p) \in Nat
    BY <1>1, <1>2, <2>1, <2>6, EndsUpTo
  <2> QED
    BY <1>3, <1>4, <2>5, <2>7
<1>5. ASSUME ho < End(t, "out", r), ~(hi <= End(t, "in", u)) PROVE FALSE
  <2>0. u \in 0..I /\ r \in 0..O
    BY <1>2
  <2>1. End(t, "in", u) \in Nat
    BY <1>1, <1>2, <2>0, UnitsAre
  <2>2. u # I
    BY <1>3, <1>5, <2>1 DEF Total
  <2>3. u + 1 \in 1..I /\ (u + 1) - 1 = u /\ u + 1 > u
    BY <1>2, <2>2
  <2> DEFINE p == t["in"][u + 1].after
  <2>4. p \in Nat /\ p >= r /\ p # 0
    <3>1. p \in Nat
      BY <1>1, <2>3, Http1Spoken
    <3> QED
      BY <1>2, <2>3, <3>1
  <2>5. p \in 1..O /\ End(t, "out", p) <= ho
    BY <1>1, <1>3, <1>5, <2>1, <2>3, <2>4 DEF Causal
  <2> HIDE DEF p
  <2>6. p \in 0..O
    BY <1>2, <2>5
  <2>7. End(t, "out", r) <= End(t, "out", p) /\ End(t, "out", r) \in Nat /\ End(t, "out", p) \in Nat
    BY <1>1, <1>2, <2>0, <2>4, <2>6, EndsUpTo
  <2> QED
    BY <1>3, <1>5, <2>5, <2>7
<1>6. End(t, "out", r - 1) \in Nat /\ End(t, "in", u) \in Nat
  <2>1. r - 1 \in 0..O /\ u \in 0..I
    BY <1>2
  <2> QED
    BY <1>1, <1>2, <2>1, UnitsAre
<1> QED
  BY <1>3, <1>4, <1>5, <1>6

\* What is new in a list shows new messages, each behind the earlier ones.
LEMMA NewItems ==
  ASSUME NEW t, NEW d, Straight(t, d), Len(t[d]) \in Nat,
         NEW s \in Seq(H1Items), NEW i \in Seq(H1Items), NEW l, l = s \o i, Orderly(t, d, l),
         NEW k \in 1..Len(i), i[k].dir = d
  PROVE  /\ i[k].msg \in 1..Len(t[d]) /\ i[k].msg \notin ShownOf(s, d)
         /\ i[k].msg \in ShownOf(l, d)
         /\ \A j \in 1..k - 1 : i[j].dir = d => i[j].msg < i[k].msg
<1>1. /\ Len(l) = Len(s) + Len(i) /\ Len(s) \in Nat /\ Len(i) \in Nat
      /\ \A j \in 1..Len(s) + Len(i) : l[j] = IF j <= Len(s) THEN s[j] ELSE i[j - Len(s)]
  BY ConcatProperties
<1>2. \A j \in 1..Len(i) : Len(s) + j \in 1..Len(l) /\ l[Len(s) + j] = i[j]
  <2> TAKE j \in 1..Len(i)
  <2>1. Len(s) + j \in 1..Len(s) + Len(i) /\ ~(Len(s) + j <= Len(s)) /\ (Len(s) + j) - Len(s) = j
    BY <1>1
  <2> QED
    BY <1>1, <2>1
<1>3. \A j \in 1..Len(s) : l[j] = s[j]
  <2> TAKE j \in 1..Len(s)
  <2>1. j \in 1..Len(s) + Len(i) /\ j <= Len(s)
    BY <1>1
  <2> QED
    BY <1>1, <2>1
<1> DEFINE p == Len(s) + k
           m == i[k].msg
<1>4. p \in 1..Len(l) /\ l[p].dir = d /\ l[p].msg = m /\ p \in Nat
  BY <1>1, <1>2
<1> HIDE DEF p, m
<1>5. m \in 1..Len(t[d]) /\ (Misleading(t, d, m) \/ BeforeIn(l, d, p) = 1..m - 1)
  BY <1>4 DEF Orderly
<1>6. ~Misleading(t, d, m)
  <2>1. \A j \in 1..m : j \in 1..Len(t[d])
    BY <1>5
  <2> QED
    BY <2>1 DEF Misleading, Straight
<1>7. BeforeIn(l, d, p) = 1..m - 1 /\ m \in Nat
  BY <1>5, <1>6
<1>8. m \notin BeforeIn(l, d, p)
  BY <1>7
<1>9. ASSUME m \in ShownOf(s, d) PROVE FALSE
  <2>1. PICK j \in 1..(Len(s) + 1) - 1 : s[j].dir = d /\ s[j].msg = m
    BY <1>9 DEF ShownOf, BeforeIn
  <2>2. j \in 1..p - 1 /\ j \in 1..Len(s)
    BY <1>1, <2>1 DEF p
  <2>3. l[j].dir = d /\ l[j].msg = m
    BY <1>3, <2>1, <2>2
  <2> QED
    BY <1>8, <2>2, <2>3 DEF BeforeIn
<1>10. m \in ShownOf(l, d)
  <2>1. p \in 1..(Len(l) + 1) - 1
    BY <1>1, <1>4
  <2> QED
    BY <1>4, <2>1 DEF ShownOf, BeforeIn
<1>11. ASSUME NEW j \in 1..k - 1, i[j].dir = d PROVE i[j].msg < m
  <2>1. j \in 1..Len(i) /\ Len(s) + j \in 1..p - 1
    BY <1>1 DEF p
  <2>2. l[Len(s) + j].dir = d /\ l[Len(s) + j].msg = i[j].msg
    BY <1>2, <1>11, <2>1
  <2>3. i[j].msg \in BeforeIn(l, d, p)
    BY <2>1, <2>2 DEF BeforeIn
  <2> QED
    BY <1>7, <2>3
<1> QED
  BY <1>5, <1>9, <1>10, <1>11 DEF m

\* The announcement of a websocket is the last of these items.
AskedLast(t, items) ==
  \A k \in 1..Len(items) :
    items[k].dir = "in" /\ t["in"][items[k].msg].kind = "upgrade" => k = Len(items)

\* The n messages read of direction d are all that are complete in h units.
AllRead(t, d, n, h) == n + 1 \in 1..Len(t[d]) => ~(End(t, d, n + 1) <= h)

\* One side has closed the websocket within h units.
HasClosed(t, h) ==
  \E d \in Directions : \E i \in 1..Len(t[d]) : t[d][i].kind = "close" /\ End(t, d, i) <= h[d]

\* Message u of the client has not been read ...
NotYet(t, u, r, mode, a, b, h) ==
  /\ mode = "http" /\ a < u /\ b < r
  /\ AllRead(t, "in", a, h["in"]) /\ AllRead(t, "out", b, h["out"])

\* ... the answer to it has not, or is a refusal ...
Asked(t, u, r, mode, a, b, h) ==
  /\ mode = "asked" /\ a = u /\ (b < r \/ NotAccepted(t, u, r))
  /\ AllRead(t, "out", b, h["out"])

\* ... frames are read, all that were complete when the last event came ...
Framed(t, u, r, mode, a, b, g) ==
  /\ mode = "websocket" /\ Accepted(t, u, r) /\ a >= u /\ b >= r
  /\ \A i \in 1..Len(t["in"])  : End(t, "in", i)  <= g["in"]  => i <= a
  /\ \A i \in 1..Len(t["out"]) : End(t, "out", i) <= g["out"] => i <= b

\* ... or one side has closed the websocket.
Ended(t, u, r, mode, a, b, h) ==
  mode = "http" /\ Accepted(t, u, r) /\ a >= u /\ b >= r /\ HasClosed(t, h)

\* With a messages of the client and b of the server read after h units, of which
\* g came before the last event.
Stage(t, u, r, mode, a, b, h, g) ==
  \/ NotYet(t, u, r, mode, a, b, h) \/ Asked(t, u, r, mode, a, b, h)
  \/ Framed(t, u, r, mode, a, b, g) \/ Ended(t, u, r, mode, a, b, h)

\* A decoder and its list after all that has been heard.
AskReads(t, u, r, o, s, h, g) ==
  /\ o \in H1Decoders /\ s \in Seq(H1Items)
  /\ \A d \in Directions : /\ h[d] \in 0..Total(t, d) /\ g[d] \in 0..h[d] /\ Orderly(t, d, s)
  /\ \E a, b \in Nat : /\ AtMessage(t, "in", o["in"], s, h["in"], a)
                       /\ AtMessage(t, "out", o["out"], s, h["out"], b)
                       /\ Stage(t, u, r, o.mode, a, b, h, g)

\* The state in which the loops of one event leave decoder and list.
Parsed(t, s, k, y, a, b) ==
  /\ y \in Readings /\ a \in Nat /\ b \in Nat
  /\ AtMessage(t, "in", Buffer(y, "in"), Behind(s, y), k["in"], a)
  /\ AtMessage(t, "out", Buffer(y, "out"), Behind(s, y), k["out"], b)
  /\ \A e \in Directions : Orderly(t, e, Behind(s, y))

\* The client's loop, and what it leaves of the server's direction.
LEMMA LoopIn ==
  ASSUME NEW t, Http1(t), NEW s \in Seq(H1Items), NEW k, NEW y, NEW a, NEW b, NEW kinds,
         Straight(t, "in"), k["in"] \in 0..Total(t, "in"), Parsed(t, s, k, y, a, b),
         NEW W, <<a, ModeOf(y)>> \in W,
         \A n \in Nat : \A w \in Modes :
           /\ <<n, w>> \in W /\ n + 1 \in 1..Len(t["in"]) /\ t["in"][n + 1].kind \in kinds
           /\ End(t, "in", n + 1) <= k["in"]
           => <<n + 1, ModeAfter(t["in"][n + 1], w)>> \in W,
         NEW z, z = Loop(t, y, "in", kinds)
  PROVE  \E n \in Nat :
           /\ n >= a /\ Parsed(t, s, k, z, n, b) /\ <<n, ModeOf(z)>> \in W
           /\ n + 1 \in 1..Len(t["in"]) /\ t["in"][n + 1].kind \in kinds
              => AllRead(t, "in", n, k["in"])
<1> DEFINE h == k["in"]
           o == k["out"]
<1>1. "in" \in Directions /\ "out" = Other("in") /\ h \in 0..Total(t, "in")
  BY DEF Directions, Other
<1> HIDE DEF h, o
<1>2. /\ y \in Readings /\ a \in Nat /\ b \in Nat
      /\ AtMessage(t, "in", Buffer(y, "in"), Behind(s, y), h, a)
      /\ AtMessage(t, "out", Buffer(y, "out"), Behind(s, y), o, b)
      /\ \A e \in Directions : Orderly(t, e, Behind(s, y))
  BY DEF Parsed, h, o
<1>3. AtRead(t, "in", s, h, y, a)
  BY <1>2 DEF AtRead
<1>4. \A n \in Nat : \A w \in Modes :
        /\ <<n, w>> \in W /\ n + 1 \in 1..Len(t["in"]) /\ t["in"][n + 1].kind \in kinds
        /\ End(t, "in", n + 1) <= h
        => <<n + 1, ModeAfter(t["in"][n + 1], w)>> \in W
  BY DEF h
<1>5. /\ Aside("in", s, y, z)
      /\ \E n \in Nat :
           /\ n >= a /\ AtRead(t, "in", s, h, z, n) /\ <<n, ModeOf(z)>> \in W
           /\ n + 1 \in 1..Len(t["in"]) /\ t["in"][n + 1].kind \in kinds
              => ~(End(t, "in", n + 1) <= h)
  BY <1>1, <1>3, <1>4, LoopAt, ZenonT(60)
<1>6. PICK n \in Nat :
        /\ n >= a /\ AtRead(t, "in", s, h, z, n) /\ <<n, ModeOf(z)>> \in W
        /\ n + 1 \in 1..Len(t["in"]) /\ t["in"][n + 1].kind \in kinds
           => ~(End(t, "in", n + 1) <= h)
  BY <1>5
<1>7. AtMessage(t, "out", Buffer(z, "out"), Behind(s, z), o, b)
  BY <1>1, <1>2, <1>5, AsideKeeps
<1>8. Parsed(t, s, k, z, n, b)
  BY <1>2, <1>6, <1>7 DEF AtRead, Parsed, h, o
<1>9. n + 1 \in 1..Len(t["in"]) /\ t["in"][n + 1].kind \in kinds => AllRead(t, "in", n, k["in"])
  BY <1>6 DEF AllRead, h
<1> QED
  BY <1>6, <1>8, <1>9

\* The server's loop.
LEMMA LoopOut ==
  ASSUME NEW t, Http1(t), NEW s \in Seq(H1Items), NEW k, NEW y, NEW a, NEW b, NEW kinds,
         Straight(t, "out"), k["out"] \in 0..Total(t, "out"), Parsed(t, s, k, y, a, b),
         NEW W, <<b, ModeOf(y)>> \in W,
         \A n \in Nat : \A w \in Modes :
           /\ <<n, w>> \in W /\ n + 1 \in 1..Len(t["out"]) /\ t["out"][n + 1].kind \in kinds
           /\ End(t, "out", n + 1) <= k["out"]
           => <<n + 1, ModeAfter(t["out"][n + 1], w)>> \in W,
         NEW z, z = Loop(t, y, "out", kinds)
  PROVE  \E n \in Nat :
           /\ n >= b /\ Parsed(t, s, k, z, a, n) /\ <<n, ModeOf(z)>> \in W
           /\ n + 1 \in 1..Len(t["out"]) /\ t["out"][n + 1].kind \in kinds
              => AllRead(t, "out", n, k["out"])
<1> DEFINE h == k["out"]
           o == k["in"]
<1>1. "out" \in Directions /\ "in" = Other("out") /\ h \in 0..Total(t, "out")
  BY DEF Directions, Other
<1> HIDE DEF h, o
<1>2. /\ y \in Readings /\ a \in Nat /\ b \in Nat
      /\ AtMessage(t, "out", Buffer(y, "out"), Behind(s, y), h, b)
      /\ AtMessage(t, "in", Buffer(y, "in"), Behind(s, y), o, a)
      /\ \A e \in Directions : Orderly(t, e, Behind(s, y))
  BY DEF Parsed, h, o
<1>3. AtRead(t, "out", s, h, y, b)
  BY <1>2 DEF AtRead
<1>4. \A n \in Nat : \A w \in Modes :
        /\ <<n, w>> \in W /\ n + 1 \in 1..Len(t["out"]) /\ t["out"][n + 1].kind \in kinds
        /\ End(t, "out", n + 1) <= h
        => <<n + 1, ModeAfter(t["out"][n + 1], w)>> \in W
  BY DEF h
<1>5. /\ Aside("out", s, y, z)
      /\ \E n \in Nat :
           /\ n >= b /\ AtRead(t, "out", s, h, z, n) /\ <<n, ModeOf(z)>> \in W
           /\ n + 1 \in 1..Len(t["out"]) /\ t["out"][n + 1].kind \in kinds
              => ~(End(t, "out", n + 1) <= h)
  BY <1>1, <1>3, <1>4, LoopAt, ZenonT(60)
<1>6. PICK n \in Nat :
        /\ n >= b /\ AtRead(t, "out", s, h, z, n) /\ <<n, ModeOf(z)>> \in W
        /\ n + 1 \in 1..Len(t["out"]) /\ t["out"][n + 1].kind \in kinds
           => ~(End(t, "out", n + 1) <= h)
  BY <1>5
<1>7. AtMessage(t, "in", Buffer(z, "in"), Behind(s, z), o, a)
  BY <1>1, <1>2, <1>5, AsideKeeps
<1>8. Parsed(t, s, k, z, a, n)
  BY <1>2, <1>6, <1>7 DEF AtRead, Parsed, h, o
<1>9. n + 1 \in 1..Len(t["out"]) /\ t["out"][n + 1].kind \in kinds => AllRead(t, "out", n, k["out"])
  BY <1>6 DEF AllRead, h
<1> QED
  BY <1>6, <1>8, <1>9

\* A decoder in its stage, with its list, is what the invariant asks for.
LEMMA ParsedReads ==
  ASSUME NEW t, NEW u, NEW r, NEW s \in Seq(H1Items), NEW k, NEW g, NEW y, NEW a, NEW b,
         Parsed(t, s, k, y, a, b), Stage(t, u, r, ModeOf(y), a, b, k, g),
         \A d \in Directions : k[d] \in 0..Total(t, d) /\ g[d] \in 0..k[d]
  PROVE  AskReads(t, u, r, y.o, Behind(s, y), k, g)
<1>1. y \in Readings
  BY DEF Parsed
<1>2. ItemsOf(y) \in Seq(H1Items)
  BY <1>1 DEF Readings, ItemsOf
<1>3. Behind(s, y) \in Seq(H1Items)
  BY <1>2, ConcatProperties DEF Behind
<1>4. y.o \in H1Decoders /\ y.o.mode = ModeOf(y) /\ y.o["in"] = Buffer(y, "in")
      /\ y.o["out"] = Buffer(y, "out")
  BY <1>1 DEF Readings, ModeOf, Buffer
<1> QED
  BY <1>3, <1>4 DEF Parsed, AskReads

\* An event of direction d takes what has been heard from h to k.
Hears(t, d, h, k) ==
  /\ \A e \in Directions : h[e] \in 0..Total(t, e) /\ k[e] \in 0..Total(t, e)
  /\ h[d] <= k[d] /\ k[Other(d)] = h[Other(d)]
  /\ Causal(t, h) /\ Causal(t, k)

\* An event while no websocket has been asked for.
LEMMA FromNotYet ==
  ASSUME NEW t, Http1(t), NEW u, NEW r, Asking(t, u, r), NEW s \in Seq(H1Items),
         NEW d \in Directions, NEW h, NEW k, Hears(t, d, h, k),
         NEW y, NEW a, NEW b, Parsed(t, s, k, y, a, b), NotYet(t, u, r, ModeOf(y), a, b, h),
         NEW z, z = Loop(t, Loop(t, y, "in", Requests), "out", Responses)
  PROVE  \E m, n \in Nat :
           /\ Parsed(t, s, k, z, m, n) /\ Stage(t, u, r, ModeOf(z), m, n, k, h)
           /\ d = "in" => m <= u /\ n = b
<1> DEFINE I == Len(t["in"])
           O == Len(t["out"])
<1>1. "in" \in Directions /\ "out" \in Directions /\ Other("in") = "out" /\ Other("out") = "in"
  BY DEF Directions, Other
<1>2. /\ u \in 1..I /\ r \in 1..O /\ I \in Nat /\ O \in Nat /\ Spoken(t)
      /\ Straight(t, "in") /\ Straight(t, "out") /\ t["in"][u].kind = "upgrade"
      /\ \A i \in 1..I : i < u => t["in"][i].kind = "req"
      /\ \A i \in 1..O : i < r => t["out"][i].kind = "resp"
  BY AskingIs
<1>3. /\ ModeOf(y) = "http" /\ a < u /\ b < r /\ a \in Nat /\ b \in Nat
      /\ ~(End(t, "in", a + 1) <= h["in"]) /\ ~(End(t, "out", b + 1) <= h["out"])
  <2>1. a \in Nat /\ b \in Nat /\ ModeOf(y) = "http" /\ a < u /\ b < r
        /\ AllRead(t, "in", a, h["in"]) /\ AllRead(t, "out", b, h["out"])
    BY DEF Parsed, NotYet
  <2>2. a + 1 \in 1..I /\ b + 1 \in 1..O
    BY <1>2, <2>1
  <2> QED
    BY <2>1, <2>2 DEF AllRead
<1>4. /\ h["in"] \in 0..Total(t, "in") /\ h["out"] \in 0..Total(t, "out")
      /\ k["in"] \in 0..Total(t, "in") /\ k["out"] \in 0..Total(t, "out")
      /\ Total(t, "in") \in Nat /\ Total(t, "out") \in Nat
      /\ d = "in" => k["out"] = h["out"]
      /\ d = "out" => k["in"] = h["in"]
  BY <1>1, <1>2, AllAre DEF Hears
<1>5. /\ \A i \in 0..I : End(t, "in", i) \in Nat
      /\ \A i \in 0..O : End(t, "out", i) \in Nat
      /\ u \in 0..I /\ r \in 0..O /\ r - 1 \in 0..O /\ a + 1 \in 0..I /\ b + 1 \in 0..O
  <2>1. u \in 0..I /\ r \in 0..O /\ r - 1 \in 0..O /\ a + 1 \in 0..I /\ b + 1 \in 0..O
    BY <1>2, <1>3
  <2> QED
    BY <1>1, <1>2, <2>1, UnitsAre
<1>n. /\ End(t, "in", u) \in Nat /\ End(t, "in", a + 1) \in Nat
      /\ End(t, "out", r) \in Nat /\ End(t, "out", r - 1) \in Nat
      /\ h["in"] \in Nat /\ h["out"] \in Nat /\ k["in"] \in Nat /\ k["out"] \in Nat
  <2>1. h["in"] \in Nat /\ h["out"] \in Nat /\ k["in"] \in Nat /\ k["out"] \in Nat
    BY <1>4
  <2>2. End(t, "in", u) \in Nat /\ End(t, "in", a + 1) \in Nat
    BY <1>5
  <2>3. End(t, "out", r) \in Nat /\ End(t, "out", r - 1) \in Nat
    BY <1>5
  <2> QED
    BY <2>1, <2>2, <2>3
<1>6. End(t, "in", a + 1) <= End(t, "in", u) /\ End(t, "out", r - 1) < End(t, "out", r)
  <2>1. a + 1 <= u /\ r - 1 < r
    BY <1>2, <1>3
  <2>2. End(t, "in", a + 1) <= End(t, "in", u)
    BY <1>1, <1>2, <1>5, <2>1, EndsUpTo
  <2>3. End(t, "out", r - 1) < End(t, "out", r)
    BY <1>1, <1>2, <1>5, <2>1, EndsGrow
  <2> QED
    BY <2>2, <2>3
<1>7. h["in"] < End(t, "in", u) /\ h["out"] <= End(t, "out", r - 1)
  <2>1. h["in"] < End(t, "in", u)
    BY <1>3, <1>6, <1>n
  <2> QED
    BY <1>4, <2>1, Waits DEF Hears
<1>8. k["in"] <= End(t, "in", u) /\ k["out"] <= End(t, "out", r - 1)
  <2>1. /\ k["in"] < End(t, "in", u) => k["out"] <= End(t, "out", r - 1)
        /\ k["out"] < End(t, "out", r) => k["in"] <= End(t, "in", u)
    BY <1>4, Waits DEF Hears
  <2>2. d = "in" \/ d = "out"
    BY DEF Directions
  <2> QED
    BY <1>4, <1>6, <1>7, <1>n, <2>1, <2>2
<1>9. ASSUME NEW n \in Nat, n + 1 \in 1..I, End(t, "in", n + 1) <= k["in"] PROVE n + 1 <= u
  <2>1. n + 1 \in 0..I
    BY <1>9
  <2>a. End(t, "in", n + 1) \in Nat
    BY <1>5, <2>1
  <2>2. End(t, "in", n + 1) <= End(t, "in", u)
    BY <1>8, <1>9, <1>n, <2>a
  <2> QED
    BY <1>1, <1>2, <1>5, <2>1, <2>2, EndsUpTo
<1>10. ASSUME NEW n \in Nat, n + 1 \in 1..O, End(t, "out", n + 1) <= k["out"] PROVE n + 1 < r
  <2>1. n + 1 \in 0..O
    BY <1>10
  <2>a. End(t, "out", n + 1) \in Nat
    BY <1>5, <2>1
  <2>2. End(t, "out", n + 1) <= End(t, "out", r - 1)
    BY <1>8, <1>10, <1>n, <2>a
  <2>3. n + 1 <= r - 1
    BY <1>1, <1>2, <1>5, <2>1, <2>2, EndsUpTo
  <2> QED
    BY <1>2, <2>3
<1> DEFINE W == {w \in Nat \X Modes : w[1] <= u /\ w[2] = IF w[1] = u THEN "asked" ELSE "http"}
           x == Loop(t, y, "in", Requests)
<1>11. PICK m \in Nat :
         /\ m >= a /\ Parsed(t, s, k, x, m, b) /\ <<m, ModeOf(x)>> \in W
         /\ m + 1 \in 1..I /\ t["in"][m + 1].kind \in Requests => AllRead(t, "in", m, k["in"])
  <2>1. <<a, ModeOf(y)>> \in W
    <3>1. <<a, "http">> \in Nat \X Modes /\ a <= u /\ a # u
      BY <1>2, <1>3 DEF Modes
    <3> QED
      BY <1>3, <3>1
  <2>2. ASSUME NEW n \in Nat, NEW w \in Modes, <<n, w>> \in W, n + 1 \in 1..I,
               t["in"][n + 1].kind \in Requests, End(t, "in", n + 1) <= k["in"]
        PROVE  <<n + 1, ModeAfter(t["in"][n + 1], w)>> \in W
    <3>1. n + 1 <= u /\ n # u /\ w = "http"
      BY <1>2, <1>9, <2>2
    <3>2. CASE n + 1 = u
      <4>1. ModeAfter(t["in"][n + 1], w) = "asked"
        BY <1>2, <3>2 DEF ModeAfter
      <4>2. <<n + 1, "asked">> \in Nat \X Modes
        BY DEF Modes
      <4> QED
        BY <3>1, <3>2, <4>1, <4>2
    <3>3. CASE n + 1 # u
      <4>1. n + 1 < u
        BY <1>2, <3>1, <3>3
      <4>2. t["in"][n + 1].kind = "req"
        BY <1>2, <2>2, <4>1
      <4>3. ModeAfter(t["in"][n + 1], w) = "http"
        BY <3>1, <4>2 DEF ModeAfter
      <4>4. <<n + 1, "http">> \in Nat \X Modes
        BY DEF Modes
      <4> QED
        BY <3>1, <3>3, <4>3, <4>4
    <3> QED
      BY <3>2, <3>3
  <2> HIDE DEF W, x
  <2>3. \A n \in Nat : \A w \in Modes :
          /\ <<n, w>> \in W /\ n + 1 \in 1..Len(t["in"]) /\ t["in"][n + 1].kind \in Requests
          /\ End(t, "in", n + 1) <= k["in"]
          => <<n + 1, ModeAfter(t["in"][n + 1], w)>> \in W
    BY <2>2
  <2>4. x = Loop(t, y, "in", Requests)
    BY DEF x
  <2> QED
    BY <1>2, <1>4, <2>1, <2>3, <2>4, LoopIn
<1>12. m <= u /\ ModeOf(x) = (IF m = u THEN "asked" ELSE "http")
  BY <1>11
<1>x. z = Loop(t, x, "out", Responses)
  OBVIOUS
<1> HIDE DEF W, x
<1> DEFINE V == {w \in Nat \X Modes : w[1] < r /\ w[2] = ModeOf(x)}
<1>13. PICK n \in Nat :
         /\ n >= b /\ Parsed(t, s, k, z, m, n) /\ <<n, ModeOf(z)>> \in V
         /\ n + 1 \in 1..O /\ t["out"][n + 1].kind \in Responses => AllRead(t, "out", n, k["out"])
  <2>1. <<b, ModeOf(x)>> \in V
    <3>1. x \in Readings
      BY <1>11 DEF Parsed
    <3>2. <<b, ModeOf(x)>> \in Nat \X Modes
      BY <1>1, <1>3, <3>1, ReadingsAre
    <3> QED
      BY <1>3, <3>2
  <2>2. ASSUME NEW n \in Nat, NEW w \in Modes, <<n, w>> \in V, n + 1 \in 1..O,
               t["out"][n + 1].kind \in Responses, End(t, "out", n + 1) <= k["out"]
        PROVE  <<n + 1, ModeAfter(t["out"][n + 1], w)>> \in V
    <3>1. n + 1 < r /\ w = ModeOf(x)
      BY <1>10, <2>2
    <3>2. t["out"][n + 1].kind = "resp"
      BY <1>2, <2>2, <3>1
    <3>3. ModeAfter(t["out"][n + 1], w) = w
      BY <3>2 DEF ModeAfter
    <3>4. <<n + 1, w>> \in Nat \X Modes
      OBVIOUS
    <3> QED
      BY <3>1, <3>3, <3>4
  <2> HIDE DEF V
  <2>3. \A n \in Nat : \A w \in Modes :
          /\ <<n, w>> \in V /\ n + 1 \in 1..Len(t["out"]) /\ t["out"][n + 1].kind \in Responses
          /\ End(t, "out", n + 1) <= k["out"]
          => <<n + 1, ModeAfter(t["out"][n + 1], w)>> \in V
    BY <2>2
  <2> QED
    BY <1>2, <1>4, <1>11, <1>x, <2>1, <2>3, LoopOut
<1>14. n < r /\ ModeOf(z) = ModeOf(x)
  BY <1>13
<1> HIDE DEF V
<1>15. AllRead(t, "out", n, k["out"])
  <2>1. n + 1 \in 1..O => ~(End(t, "out", n + 1) <= k["out"])
    <3> SUFFICES ASSUME n + 1 \in 1..O, End(t, "out", n + 1) <= k["out"] PROVE FALSE
      OBVIOUS
    <3>1. n + 1 < r
      BY <1>10
    <3>2. t["out"][n + 1].kind \in Responses
      BY <1>2, <3>1 DEF Responses
    <3> QED
      BY <1>13, <3>2 DEF AllRead
  <2> QED
    BY <2>1 DEF AllRead
<1>16. m # u => AllRead(t, "in", m, k["in"])
  <2> SUFFICES ASSUME m # u PROVE AllRead(t, "in", m, k["in"])
    OBVIOUS
  <2>1. m + 1 \in 1..I /\ m + 1 <= u
    BY <1>2, <1>12
  <2>2. t["in"][m + 1].kind \in Requests
    <3>1. m + 1 = u \/ m + 1 < u
      BY <1>2, <2>1
    <3> QED
      BY <1>2, <2>1, <3>1 DEF Requests
  <2> QED
    BY <1>11, <2>1, <2>2
<1>17. Stage(t, u, r, ModeOf(z), m, n, k, h)
  <2>1. CASE m = u
    BY <1>12, <1>14, <1>15, <2>1 DEF Stage, Asked
  <2>2. CASE m # u
    <3>1. m < u
      BY <1>2, <1>12, <2>2
    <3> QED
      BY <1>12, <1>14, <1>15, <1>16, <2>2, <3>1 DEF Stage, NotYet
  <2> QED
    BY <2>1, <2>2
<1>18. d = "in" => n = b
  <2> SUFFICES ASSUME d = "in", n # b PROVE FALSE
    OBVIOUS
  <2>1. b + 1 <= n /\ n \in 0..O
    BY <1>2, <1>3, <1>13, <1>14, SMTT(30)
  <2>2. End(t, "out", b + 1) <= End(t, "out", n)
    BY <1>1, <1>2, <1>5, <2>1, EndsUpTo
  <2>3. End(t, "out", n) <= k["out"]
    BY <1>13 DEF Parsed, AtMessage
  <2>4. End(t, "out", n) \in Nat
    BY <1>5, <2>1
  <2> QED
    BY <1>3, <1>4, <1>5, <2>2, <2>3, <2>4, SMTT(30)
<1> QED
  BY <1>12, <1>13, <1>17, <1>18

\* The numbers of units before and after an event.
LEMMA HearsIs ==
  ASSUME NEW t, Http1(t), NEW d \in Directions, NEW h, NEW k, Hears(t, d, h, k)
  PROVE  \A e \in Directions :
           /\ h[e] \in 0..Total(t, e) /\ k[e] \in 0..Total(t, e) /\ h[e] \in 0..k[e]
           /\ h[e] \in Nat /\ k[e] \in Nat /\ h[e] <= k[e]
<1>1. ASSUME NEW e \in Directions
      PROVE  /\ h[e] \in 0..Total(t, e) /\ k[e] \in 0..Total(t, e) /\ h[e] \in 0..k[e]
             /\ h[e] \in Nat /\ k[e] \in Nat /\ h[e] <= k[e]
  <2>1. Total(t, e) \in Nat
    BY Http1Spoken, AllAre
  <2>2. e = d \/ e = Other(d)
    BY DEF Directions, Other
  <2>3. h[e] \in Nat /\ k[e] \in Nat
    BY <2>1 DEF Hears
  <2>4. h[e] <= k[e]
    BY <2>2, <2>3 DEF Hears
  <2> QED
    BY <2>3, <2>4 DEF Hears
<1> QED
  BY <1>1

\* All that lies within h units has been read.
LEMMA AllReadIs ==
  ASSUME NEW t, Spoken(t), NEW d \in Directions, NEW n \in Nat, NEW h \in Nat,
         AllRead(t, d, n, h), NEW i \in 1..Len(t[d]), End(t, d, i) <= h
  PROVE  i <= n
<1> SUFFICES ASSUME ~(i <= n) PROVE FALSE
  OBVIOUS
<1>1. Len(t[d]) \in Nat /\ i \in 0..Len(t[d])
  BY DEF Spoken
<1>2. n + 1 \in 1..Len(t[d]) /\ n + 1 \in 0..Len(t[d]) /\ n + 1 <= i
  BY <1>1
<1>3. End(t, d, n + 1) <= End(t, d, i) /\ End(t, d, n + 1) \in Nat /\ End(t, d, i) \in Nat
  BY <1>1, <1>2, EndsUpTo
<1>4. ~(End(t, d, n + 1) <= h)
  BY <1>2 DEF AllRead
<1> QED
  BY <1>3, <1>4

\* An event while the answer to the announcement is awaited, or after a refusal.
LEMMA FromAsked ==
  ASSUME NEW t, Http1(t), NEW u, NEW r, Asking(t, u, r),
         Accepted(t, u, r) \/ NotAccepted(t, u, r), NEW s \in Seq(H1Items),
         NEW d \in Directions, NEW h, NEW k, Hears(t, d, h, k),
         NEW y, NEW a, NEW b, Parsed(t, s, k, y, a, b), Asked(t, u, r, ModeOf(y), a, b, h),
         NEW z, z = Loop(t, y, "out", Responses)
  PROVE  \E n \in Nat : Parsed(t, s, k, z, a, n) /\ Stage(t, u, r, ModeOf(z), a, n, k, h)
<1> DEFINE I == Len(t["in"])
           O == Len(t["out"])
<1>1. "in" \in Directions /\ "out" \in Directions
  BY DEF Directions
<1>2. /\ u \in 1..I /\ r \in 1..O /\ I \in Nat /\ O \in Nat /\ Spoken(t)
      /\ Straight(t, "out")
      /\ \A i \in 1..O : i < r => t["out"][i].kind = "resp"
      /\ DOMAIN t["out"] = 1..O
  BY <1>1, AskingIs, Http1Spoken
<1>3. /\ ModeOf(y) = "asked" /\ a = u /\ a \in Nat /\ b \in Nat
      /\ b < r \/ NotAccepted(t, u, r)
      /\ AllRead(t, "out", b, h["out"])
  BY DEF Parsed, Asked
<1>4. /\ h["in"] \in 0..Total(t, "in") /\ h["out"] \in 0..Total(t, "out")
      /\ k["out"] \in 0..Total(t, "out")
      /\ h["in"] \in Nat /\ h["out"] \in Nat /\ k["out"] \in Nat
  BY <1>1, HearsIs
<1> DEFINE W == {w \in Nat \X Modes :
                   \/ NotAccepted(t, u, r) /\ w[2] = "asked"
                   \/ w[1] < r /\ w[2] = "asked"
                   \/ Accepted(t, u, r) /\ w[1] = r /\ w[2] = "websocket"}
<1>5. PICK n \in Nat :
        /\ n >= b /\ Parsed(t, s, k, z, a, n) /\ <<n, ModeOf(z)>> \in W
        /\ n + 1 \in 1..O /\ t["out"][n + 1].kind \in Responses => AllRead(t, "out", n, k["out"])
  <2>1. <<b, ModeOf(y)>> \in W
    <3>1. <<b, "asked">> \in Nat \X Modes
      BY <1>3 DEF Modes
    <3> QED
      BY <1>3, <3>1
  <2>2. ASSUME NEW n \in Nat, NEW w \in Modes, <<n, w>> \in W, n + 1 \in 1..O,
               t["out"][n + 1].kind \in Responses
        PROVE  <<n + 1, ModeAfter(t["out"][n + 1], w)>> \in W
    <3>1. <<n + 1, "asked">> \in Nat \X Modes /\ <<n + 1, "websocket">> \in Nat \X Modes
      BY DEF Modes
    <3>2. CASE NotAccepted(t, u, r) /\ w = "asked"
      <4>1. t["out"][n + 1].kind = "resp"
        <5>1. n + 1 < r \/ n + 1 = r \/ n + 1 > r
          BY <1>2
        <5> QED
          BY <1>2, <2>2, <3>2, <5>1 DEF NotAccepted
      <4>2. ModeAfter(t["out"][n + 1], w) = "asked"
        BY <3>2, <4>1 DEF ModeAfter
      <4> QED
        BY <3>1, <3>2, <4>2
    <3>3. CASE n + 1 < r /\ w = "asked"
      <4>1. ModeAfter(t["out"][n + 1], w) = "asked"
        BY <1>2, <2>2, <3>3 DEF ModeAfter
      <4> QED
        BY <3>1, <3>3, <4>1
    <3>4. CASE Accepted(t, u, r) /\ n + 1 = r /\ w = "asked"
      <4>1. ModeAfter(t["out"][n + 1], w) = "websocket"
        BY <3>4 DEF Accepted, ModeAfter
      <4> QED
        BY <3>1, <3>4, <4>1
    <3>5. CASE Accepted(t, u, r) /\ n = r
      <4>1. t["out"][n + 1].kind \in Frames
        <5>1. n + 1 > r
          BY <1>2, <3>5
        <5> QED
          BY <1>2, <2>2, <3>5, <5>1 DEF Accepted
      <4> QED
        BY <2>2, <4>1 DEF Responses, Frames
    <3>6. \/ NotAccepted(t, u, r) /\ w = "asked"
          \/ n < r /\ w = "asked"
          \/ Accepted(t, u, r) /\ n = r
      BY <2>2
    <3>7. n < r => n + 1 < r \/ n + 1 = r
      BY <1>2
    <3> QED
      BY <3>2, <3>3, <3>4, <3>5, <3>6, <3>7
  <2> HIDE DEF W
  <2>3. \A n \in Nat : \A w \in Modes :
          /\ <<n, w>> \in W /\ n + 1 \in 1..Len(t["out"]) /\ t["out"][n + 1].kind \in Responses
          /\ End(t, "out", n + 1) <= k["out"]
          => <<n + 1, ModeAfter(t["out"][n + 1], w)>> \in W
    BY <2>2
  <2> QED
    BY <1>2, <1>4, <2>1, <2>3, LoopOut
<1>6. \/ NotAccepted(t, u, r) /\ ModeOf(z) = "asked"
      \/ n < r /\ ModeOf(z) = "asked"
      \/ Accepted(t, u, r) /\ n = r /\ ModeOf(z) = "websocket"
  BY <1>5
<1> HIDE DEF W
<1>7. ASSUME NotAccepted(t, u, r) \/ n < r PROVE AllRead(t, "out", n, k["out"])
  <2> SUFFICES ASSUME n + 1 \in 1..O PROVE AllRead(t, "out", n, k["out"])
    BY DEF AllRead
  <2>1. t["out"][n + 1].kind \in Responses
    <3>0. n + 1 < r \/ n + 1 = r \/ n + 1 > r
      BY <1>2
    <3>1. CASE NotAccepted(t, u, r)
      BY <1>2, <3>0, <3>1 DEF NotAccepted, Responses
    <3>2. CASE ~NotAccepted(t, u, r)
      <4>1. Accepted(t, u, r) /\ ~(n + 1 > r)
        BY <1>2, <1>7, <3>2
      <4> QED
        BY <1>2, <3>0, <4>1 DEF Accepted, Responses
    <3> QED
      BY <3>1, <3>2
  <2> QED
    BY <1>5, <2>1
<1>8. CASE (NotAccepted(t, u, r) \/ n < r) /\ ModeOf(z) = "asked"
  BY <1>3, <1>5, <1>7, <1>8 DEF Stage, Asked
<1>9. CASE Accepted(t, u, r) /\ n = r /\ ModeOf(z) = "websocket"
  <2>1. ~NotAccepted(t, u, r)
    BY <1>9 DEF Accepted, NotAccepted
  <2>2. b < r /\ b + 1 \in 1..O /\ b + 1 \in 0..O /\ r \in 0..O /\ b + 1 <= r
    BY <1>2, <1>3, <2>1
  <2>3. ~(End(t, "out", b + 1) <= h["out"])
    BY <1>3, <2>2 DEF AllRead
  <2>4. /\ End(t, "out", b + 1) <= End(t, "out", r)
        /\ End(t, "out", r) \in Nat /\ End(t, "out", b + 1) \in Nat
    BY <1>1, <1>2, <2>2, EndsUpTo
  <2>5. h["out"] < End(t, "out", r)
    BY <1>4, <2>3, <2>4
  <2>6. h["in"] <= End(t, "in", u)
    BY <1>4, <2>5, Waits DEF Hears
  <2>7. ASSUME NEW i \in 1..I, End(t, "in", i) <= h["in"] PROVE i <= a
    <3>1. i \in 0..I /\ u \in 0..I
      BY <1>2
    <3>2. End(t, "in", i) \in Nat /\ End(t, "in", u) \in Nat
      BY <1>1, <1>2, <3>1, EndsUpTo
    <3>3. End(t, "in", i) <= End(t, "in", u)
      BY <1>4, <2>6, <2>7, <3>2
    <3> QED
      BY <1>1, <1>2, <1>3, <3>1, <3>3, EndsUpTo
  <2>8. ASSUME NEW i \in 1..O, End(t, "out", i) <= h["out"] PROVE i <= n
    <3>1. i <= b
      BY <1>1, <1>2, <1>3, <1>4, <2>8, AllReadIs
    <3> QED
      BY <1>3, <1>5, <3>1
  <2>9. a >= u /\ n >= r
    BY <1>2, <1>3, <1>9
  <2> QED
    BY <1>5, <1>9, <2>7, <2>8, <2>9 DEF Stage, Framed
<1> QED
  BY <1>6, <1>8, <1>9

\* A websocket that has been closed stays closed.
LEMMA HasClosedStays ==
  ASSUME NEW t, Http1(t), NEW d \in Directions, NEW h, NEW k, Hears(t, d, h, k), HasClosed(t, h)
  PROVE  HasClosed(t, k)
<1>1. PICK e \in Directions : \E i \in 1..Len(t[e]) : t[e][i].kind = "close" /\ End(t, e, i) <= h[e]
  BY DEF HasClosed
<1>2. PICK i \in 1..Len(t[e]) : t[e][i].kind = "close" /\ End(t, e, i) <= h[e]
  BY <1>1
<1>3. h[e] \in Nat /\ k[e] \in Nat /\ h[e] <= k[e] /\ Spoken(t) /\ i \in 0..Len(t[e])
  BY HearsIs, Http1Spoken
<1>4. End(t, e, i) \in Nat
  BY <1>3, UnitsAre
<1>5. End(t, e, i) <= k[e]
  BY <1>2, <1>3, <1>4
<1> QED
  BY <1>2, <1>5 DEF HasClosed

\* One loop over frames, of either direction.
LEMMA FramesStep ==
  ASSUME NEW t, NEW d \in Directions, NEW k, NEW i \in 1..Len(t[d]), NEW w,
         t[d][i].kind \in Frames, End(t, d, i) <= k[d],
         w = "websocket" \/ (w = "http" /\ HasClosed(t, k))
  PROVE  \/ ModeAfter(t[d][i], w) = "websocket"
         \/ ModeAfter(t[d][i], w) = "http" /\ HasClosed(t, k)
<1>1. CASE t[d][i].kind = "frame"
  BY <1>1 DEF ModeAfter
<1>2. CASE t[d][i].kind = "close"
  <2>1. HasClosed(t, k)
    BY <1>2 DEF HasClosed
  <2> QED
    BY <1>2, <2>1 DEF ModeAfter
<1> QED
  BY <1>1, <1>2 DEF Frames

\* An event while frames are read.
LEMMA FromFramed ==
  ASSUME NEW t, Http1(t), NEW u, NEW r, Asking(t, u, r), Accepted(t, u, r),
         NEW s \in Seq(H1Items), NEW d \in Directions, NEW h, NEW k, Hears(t, d, h, k),
         NEW y, NEW a, NEW b, Parsed(t, s, k, y, a, b),
         ModeOf(y) = "websocket", a >= u, b >= r,
         NEW z, z = Loop(t, Loop(t, y, "in", Frames), "out", Frames)
  PROVE  \E m, n \in Nat :
           Parsed(t, s, k, z, m, n) /\ Stage(t, u, r, ModeOf(z), m, n, k, h) /\ m >= u
<1> DEFINE I == Len(t["in"])
           O == Len(t["out"])
<1>1. "in" \in Directions /\ "out" \in Directions
  BY DEF Directions
<1>2. /\ u \in 1..I /\ r \in 1..O /\ I \in Nat /\ O \in Nat /\ Spoken(t)
      /\ Straight(t, "in") /\ Straight(t, "out")
      /\ DOMAIN t["in"] = 1..I /\ DOMAIN t["out"] = 1..O
  BY <1>1, AskingIs, Http1Spoken
<1>3. a \in Nat /\ b \in Nat /\ u \in Nat /\ r \in Nat
  BY <1>2 DEF Parsed
<1>4. /\ k["in"] \in 0..Total(t, "in") /\ k["out"] \in 0..Total(t, "out")
      /\ h["in"] \in Nat /\ h["out"] \in Nat /\ k["in"] \in Nat /\ k["out"] \in Nat
      /\ h["in"] <= k["in"] /\ h["out"] <= k["out"]
  BY <1>1, HearsIs
<1> DEFINE x == Loop(t, y, "in", Frames)
           W == {w \in Nat \X Modes : w[1] >= u /\ (w[2] = "websocket"
                                                   \/ (w[2] = "http" /\ HasClosed(t, k)))}
           V == {w \in Nat \X Modes : w[1] >= r /\ (w[2] = "websocket"
                                                   \/ (w[2] = "http" /\ HasClosed(t, k)))}
<1>w. \A n \in Nat : \A w \in Modes :
        /\ <<n, w>> \in W <=> n >= u /\ (w = "websocket" \/ (w = "http" /\ HasClosed(t, k)))
        /\ <<n, w>> \in V <=> n >= r /\ (w = "websocket" \/ (w = "http" /\ HasClosed(t, k)))
  OBVIOUS
<1>v. "websocket" \in Modes /\ "http" \in Modes
  BY DEF Modes
<1>z. z = Loop(t, x, "out", Frames) /\ x = Loop(t, y, "in", Frames)
  OBVIOUS
<1> HIDE DEF W, V, x
<1>5. PICK m \in Nat :
        /\ m >= a /\ Parsed(t, s, k, x, m, b) /\ <<m, ModeOf(x)>> \in W
        /\ m + 1 \in 1..I /\ t["in"][m + 1].kind \in Frames => AllRead(t, "in", m, k["in"])
  <2>1. <<a, ModeOf(y)>> \in W
    BY <1>3, <1>w, <1>v
  <2>2. ASSUME NEW n \in Nat, NEW w \in Modes, <<n, w>> \in W, n + 1 \in 1..I,
               t["in"][n + 1].kind \in Frames, End(t, "in", n + 1) <= k["in"]
        PROVE  <<n + 1, ModeAfter(t["in"][n + 1], w)>> \in W
    <3>1. n >= u /\ (w = "websocket" \/ (w = "http" /\ HasClosed(t, k)))
      BY <1>w, <2>2
    <3> DEFINE i == n + 1
    <3>i. i \in 1..Len(t["in"]) /\ t["in"][i].kind \in Frames /\ End(t, "in", i) <= k["in"]
      BY <2>2
    <3> HIDE DEF i
    <3>m. \/ ModeAfter(t["in"][i], w) = "websocket"
          \/ ModeAfter(t["in"][i], w) = "http" /\ HasClosed(t, k)
      BY <1>1, <3>1, <3>i, FramesStep
    <3>2. \/ ModeAfter(t["in"][n + 1], w) = "websocket"
          \/ ModeAfter(t["in"][n + 1], w) = "http" /\ HasClosed(t, k)
      BY <3>m DEF i
    <3>3. n + 1 \in Nat /\ n + 1 >= u /\ ModeAfter(t["in"][n + 1], w) \in Modes
      BY <1>3, <1>v, <3>1, <3>2
    <3> QED
      BY <1>w, <3>2, <3>3
  <2> QED
    BY <1>2, <1>4, <1>z, <2>1, <2>2, LoopIn
<1>6. PICK n \in Nat :
        /\ n >= b /\ Parsed(t, s, k, z, m, n) /\ <<n, ModeOf(z)>> \in V
        /\ n + 1 \in 1..O /\ t["out"][n + 1].kind \in Frames => AllRead(t, "out", n, k["out"])
  <2>0. ModeOf(x) \in Modes
    BY <1>1, <1>5, ReadingsAre DEF Parsed
  <2>1. <<b, ModeOf(x)>> \in V
    BY <1>3, <1>5, <1>w, <2>0
  <2>2. ASSUME NEW n \in Nat, NEW w \in Modes, <<n, w>> \in V, n + 1 \in 1..O,
               t["out"][n + 1].kind \in Frames, End(t, "out", n + 1) <= k["out"]
        PROVE  <<n + 1, ModeAfter(t["out"][n + 1], w)>> \in V
    <3>1. n >= r /\ (w = "websocket" \/ (w = "http" /\ HasClosed(t, k)))
      BY <1>w, <2>2
    <3> DEFINE i == n + 1
    <3>i. i \in 1..Len(t["out"]) /\ t["out"][i].kind \in Frames /\ End(t, "out", i) <= k["out"]
      BY <2>2
    <3> HIDE DEF i
    <3>m. \/ ModeAfter(t["out"][i], w) = "websocket"
          \/ ModeAfter(t["out"][i], w) = "http" /\ HasClosed(t, k)
      BY <1>1, <3>1, <3>i, FramesStep
    <3>2. \/ ModeAfter(t["out"][n + 1], w) = "websocket"
          \/ ModeAfter(t["out"][n + 1], w) = "http" /\ HasClosed(t, k)
      BY <3>m DEF i
    <3>3. n + 1 \in Nat /\ n + 1 >= r /\ ModeAfter(t["out"][n + 1], w) \in Modes
      BY <1>3, <1>v, <3>1, <3>2
    <3> QED
      BY <1>w, <3>2, <3>3
  <2> QED
    BY <1>2, <1>4, <1>5, <1>z, <2>1, <2>2, LoopOut
<1>7. m >= u /\ n >= r
  BY <1>3, <1>5, <1>6
<1>8. AllRead(t, "in", m, k["in"])
  <2>1. m + 1 \in 1..I => t["in"][m + 1].kind \in Frames
    BY <1>2, <1>7 DEF Accepted
  <2> QED
    BY <1>5, <2>1 DEF AllRead
<1>9. AllRead(t, "out", n, k["out"])
  <2>1. n + 1 \in 1..O => t["out"][n + 1].kind \in Frames
    BY <1>2, <1>7 DEF Accepted
  <2> QED
    BY <1>6, <2>1 DEF AllRead
<1>10. ASSUME NEW i \in 1..I, End(t, "in", i) <= h["in"] PROVE i <= m
  <2>1. i \in 0..I
    BY <1>2
  <2>2. End(t, "in", i) \in Nat
    BY <1>1, <1>2, <2>1, UnitsAre
  <2>3. End(t, "in", i) <= k["in"]
    BY <1>4, <1>10, <2>2
  <2> QED
    BY <1>1, <1>2, <1>4, <1>8, <2>3, AllReadIs
<1>11. ASSUME NEW i \in 1..O, End(t, "out", i) <= h["out"] PROVE i <= n
  <2>1. i \in 0..O
    BY <1>2
  <2>2. End(t, "out", i) \in Nat
    BY <1>1, <1>2, <2>1, UnitsAre
  <2>3. End(t, "out", i) <= k["out"]
    BY <1>4, <1>11, <2>2
  <2> QED
    BY <1>1, <1>2, <1>4, <1>9, <2>3, AllReadIs
<1>12. ModeOf(z) = "websocket" \/ (ModeOf(z) = "http" /\ HasClosed(t, k))
  <2>1. ModeOf(z) \in Modes
    BY <1>1, <1>6, ReadingsAre DEF Parsed
  <2> QED
    BY <1>6, <1>w, <2>1
<1>13. Stage(t, u, r, ModeOf(z), m, n, k, h)
  BY <1>7, <1>10, <1>11, <1>12 DEF Stage, Framed, Ended
<1> QED
  BY <1>6, <1>7, <1>13

\* An event after one side has closed the websocket: what comes is no request and no
\* response, and nothing more is read.
LEMMA FromEnded ==
  ASSUME NEW t, Http1(t), NEW u, NEW r, Asking(t, u, r), Accepted(t, u, r),
         NEW s \in Seq(H1Items), NEW d \in Directions, NEW h, NEW k, Hears(t, d, h, k),
         NEW y, NEW a, NEW b, Parsed(t, s, k, y, a, b), Ended(t, u, r, ModeOf(y), a, b, h),
         NEW z, z = Loop(t, Loop(t, y, "in", Requests), "out", Responses)
  PROVE  Parsed(t, s, k, z, a, b) /\ Stage(t, u, r, ModeOf(z), a, b, k, h)
<1> DEFINE I == Len(t["in"])
           O == Len(t["out"])
<1>1. "in" \in Directions /\ "out" \in Directions
  BY DEF Directions
<1>2. /\ u \in 1..I /\ r \in 1..O /\ I \in Nat /\ O \in Nat /\ Spoken(t)
      /\ Straight(t, "in") /\ Straight(t, "out")
      /\ DOMAIN t["in"] = 1..I /\ DOMAIN t["out"] = 1..O
  BY <1>1, AskingIs, Http1Spoken
<1>3. a \in Nat /\ b \in Nat /\ u \in Nat /\ r \in Nat /\ a >= u /\ b >= r
      /\ ModeOf(y) = "http" /\ HasClosed(t, h)
  BY <1>2 DEF Parsed, Ended
<1>4. k["in"] \in 0..Total(t, "in") /\ k["out"] \in 0..Total(t, "out")
  BY <1>1, HearsIs
<1> DEFINE x == Loop(t, y, "in", Requests)
           W == {<<a, "http">>}
           V == {<<b, "http">>}
<1>5. PICK m \in Nat : Parsed(t, s, k, x, m, b) /\ <<m, ModeOf(x)>> \in W
  <2>1. <<a, ModeOf(y)>> \in W
    BY <1>3
  <2>2. ASSUME NEW n \in Nat, NEW w \in Modes, <<n, w>> \in W, n + 1 \in 1..I,
               t["in"][n + 1].kind \in Requests
        PROVE  FALSE
    <3>1. n = a
      BY <2>2
    <3>2. t["in"][n + 1].kind \in Frames
      BY <1>2, <1>3, <2>2, <3>1 DEF Accepted
    <3> QED
      BY <2>2, <3>2 DEF Frames, Requests
  <2>3. x = Loop(t, y, "in", Requests)
    OBVIOUS
  <2> HIDE DEF W, x
  <2> QED
    BY <1>2, <1>4, <2>1, <2>2, <2>3, LoopIn, ZenonT(60)
<1>6. m = a /\ ModeOf(x) = "http"
  BY <1>5
<1>z. z = Loop(t, x, "out", Responses)
  OBVIOUS
<1> HIDE DEF x, W
<1>7. PICK n \in Nat : Parsed(t, s, k, z, a, n) /\ <<n, ModeOf(z)>> \in V
  <2>1. <<b, ModeOf(x)>> \in V
    BY <1>6
  <2>2. ASSUME NEW n \in Nat, NEW w \in Modes, <<n, w>> \in V, n + 1 \in 1..O,
               t["out"][n + 1].kind \in Responses
        PROVE  FALSE
    <3>1. n = b
      BY <2>2
    <3>2. t["out"][n + 1].kind \in Frames
      BY <1>2, <1>3, <2>2, <3>1 DEF Accepted
    <3> QED
      BY <2>2, <3>2 DEF Frames, Responses
  <2>3. Parsed(t, s, k, x, a, b)
    BY <1>5, <1>6
  <2> HIDE DEF V
  <2> QED
    BY <1>2, <1>4, <1>z, <2>1, <2>2, <2>3, LoopOut
<1>8. n = b /\ ModeOf(z) = "http"
  BY <1>7
<1>9. HasClosed(t, k)
  BY <1>3, HasClosedStays
<1> QED
  BY <1>3, <1>7, <1>8, <1>9 DEF Stage, Ended

-----------------------------------------------------------------------------
(***************************************************************************)
(* What is new, and where the announcement of a websocket is in it.        *)
(***************************************************************************)
\* What is new shows messages of the conversation.
LEMMA NewIsThere ==
  ASSUME NEW t, NEW d, NEW s \in Seq(H1Items), NEW i \in Seq(H1Items), Orderly(t, d, s \o i),
         NEW k \in 1..Len(i), i[k].dir = d
  PROVE  i[k].msg \in 1..Len(t[d])
<1> DEFINE l == s \o i
           p == Len(s) + k
<1>1. /\ Len(l) = Len(s) + Len(i) /\ Len(s) \in Nat /\ Len(i) \in Nat
      /\ \A j \in 1..Len(s) + Len(i) : l[j] = IF j <= Len(s) THEN s[j] ELSE i[j - Len(s)]
  BY ConcatProperties
<1> HIDE DEF l
<1>2. p \in 1..Len(l) /\ ~(p <= Len(s)) /\ p - Len(s) = k
  BY <1>1
<1>3. l[p] = i[k]
  BY <1>1, <1>2
<1> HIDE DEF p
<1> QED
  BY <1>2, <1>3 DEF Orderly, l

\* Nothing that is new behind s has been shown there.
LEMMA NewAt ==
  ASSUME NEW t, Http1(t), NEW e \in Directions, Straight(t, e), NEW s \in Seq(H1Items),
         NEW z \in Readings, Orderly(t, e, Behind(s, z)), NEW m \in Nat, NEW n \in Nat,
         ShownOf(s, e) = 1..m, ShownOf(Behind(s, z), e) = 1..n,
         NEW i, i = ItemsOf(z), NEW k \in 1..Len(i), i[k].dir = e
  PROVE  /\ i[k].msg \in 1..Len(t[e]) /\ m < i[k].msg /\ i[k].msg <= n /\ i[k].msg \in Nat
         /\ \A j \in 1..k - 1 : i[j].dir = e => i[j].msg < i[k].msg
<1> DEFINE l == Behind(s, z)
           x == i[k].msg
<1>1. i \in Seq(H1Items) /\ l = s \o i /\ Len(t[e]) \in Nat /\ Orderly(t, e, l)
  BY ReadingsAre, Http1Spoken DEF Behind
<1> HIDE DEF l
<1>2. /\ x \in 1..Len(t[e]) /\ x \notin ShownOf(s, e) /\ x \in ShownOf(l, e)
      /\ \A j \in 1..k - 1 : i[j].dir = e => i[j].msg < x
  <2>1. x \in 1..Len(t[e])
    BY <1>1, NewIsThere
  <2>2. x \notin ShownOf(s, e)
    BY <1>1, NewItems, ZenonT(60)
  <2>3. x \in ShownOf(l, e)
    BY <1>1, NewItems
  <2>4. \A j \in 1..k - 1 : i[j].dir = e => i[j].msg < x
    BY <1>1, NewItems
  <2> QED
    BY <2>1, <2>2, <2>3, <2>4
<1>3. x \in Nat /\ x \notin 1..m /\ x \in 1..n
  BY <1>2 DEF l
<1> QED
  BY <1>2, <1>3

\* When the announcement is read in an event it is the last that is.
LEMMA AskedLastIs ==
  ASSUME NEW t, Http1(t), NEW u, NEW r, Asking(t, u, r), NEW s \in Seq(H1Items), NEW k,
         NEW y, NEW a, NEW b, Parsed(t, s, k, y, a, b), Behind(s, y) = s,
         NEW z, NEW m, NEW n, Parsed(t, s, k, z, m, n),
         (m <= u /\ n = b) \/ m = a \/ (a >= u /\ Accepted(t, u, r))
  PROVE  AskedLast(t, ItemsOf(z))
<1> DEFINE I == Len(t["in"])
           i == ItemsOf(z)
<1>1. "in" \in Directions /\ "out" \in Directions
  BY DEF Directions
<1>2. /\ u \in 1..I /\ I \in Nat /\ Spoken(t) /\ Straight(t, "in") /\ Straight(t, "out")
      /\ DOMAIN t["in"] = 1..I
      /\ \A j \in 1..I : j < u => t["in"][j].kind = "req"
  BY <1>1, AskingIs, Http1Spoken
<1>3. /\ a \in Nat /\ b \in Nat /\ m \in Nat /\ n \in Nat /\ z \in Readings
      /\ ShownOf(s, "in") = 1..a /\ ShownOf(s, "out") = 1..b
      /\ ShownOf(Behind(s, z), "in") = 1..m /\ ShownOf(Behind(s, z), "out") = 1..n
      /\ \A e \in Directions : Orderly(t, e, Behind(s, z))
  BY DEF Parsed, AtMessage
<1>4. i \in Seq(H1Items) /\ Len(i) \in Nat
  BY <1>1, <1>3, ReadingsAre
<1>i. i = ItemsOf(z)
  OBVIOUS
<1> HIDE DEF i
<1>5. ASSUME NEW j \in 1..Len(i), i[j].dir = "in"
      PROVE  /\ i[j].msg \in 1..I /\ a < i[j].msg /\ i[j].msg <= m /\ i[j].msg \in Nat
             /\ \A q \in 1..j - 1 : i[q].dir = "in" => i[q].msg < i[j].msg
  BY <1>1, <1>2, <1>3, <1>5, <1>i, NewAt
<1>6. ASSUME NEW j \in 1..Len(i), i[j].dir = "out"
      PROVE  b < i[j].msg /\ i[j].msg <= n /\ i[j].msg \in Nat
  BY <1>1, <1>2, <1>3, <1>6, <1>i, NewAt
<1> SUFFICES ASSUME NEW j \in 1..Len(i), i[j].dir = "in",
                    t["in"][i[j].msg].kind = "upgrade", j # Len(i)
             PROVE  FALSE
  BY <1>i DEF AskedLast
<1> DEFINE x == i[j].msg
<1>7. x \in 1..I /\ a < x /\ x <= m /\ x \in Nat /\ t["in"][x].kind = "upgrade"
  BY <1>5
<1> HIDE DEF x
<1>8. x >= u
  BY <1>2, <1>7
<1>9. m # a
  BY <1>3, <1>7
<1>10. ~(a >= u /\ Accepted(t, u, r))
  <2> SUFFICES ASSUME a >= u, Accepted(t, u, r) PROVE FALSE
    OBVIOUS
  <2>1. x > u
    BY <1>2, <1>3, <1>7
  <2>2. t["in"][x].kind \in Frames
    BY <1>2, <1>7, <2>1 DEF Accepted
  <2> QED
    BY <1>7, <2>2 DEF Frames
<1>11. m <= u /\ n = b
  BY <1>9, <1>10
<1>12. j + 1 \in 1..Len(i) /\ j \in 1..(j + 1) - 1
  BY <1>4
<1>13. i[j + 1].dir = "in" \/ i[j + 1].dir = "out"
  <2>1. i[j + 1] \in H1Items
    BY <1>4, <1>12, ElementOfSeq
  <2> QED
    BY <2>1 DEF H1Items, Directions
<1>14. CASE i[j + 1].dir = "in"
  <2>1. i[j + 1].msg <= m /\ i[j + 1].msg \in Nat /\ i[j].msg < i[j + 1].msg
    BY <1>5, <1>12, <1>14
  <2>2. x < i[j + 1].msg
    BY <2>1 DEF x
  <2> QED
    BY <1>2, <1>3, <1>7, <1>8, <1>11, <2>1, <2>2
<1>15. CASE i[j + 1].dir = "out"
  <2>1. b < i[j + 1].msg /\ i[j + 1].msg <= n /\ i[j + 1].msg \in Nat
    BY <1>6, <1>12, <1>15
  <2> QED
    BY <1>3, <1>11, <2>1
<1> QED
  BY <1>13, <1>14, <1>15

\* Without websockets no announcement is there at all.
LEMMA PlainLast ==
  ASSUME NEW t, Http1(t), Plain(t), NEW s \in Seq(H1Items), NEW z \in Readings,
         Orderly(t, "in", Behind(s, z))
  PROVE  AskedLast(t, ItemsOf(z))
<1> DEFINE i == ItemsOf(z)
           l == Behind(s, z)
<1>1. "in" \in Directions
  BY DEF Directions
<1>2. i \in Seq(H1Items) /\ l = s \o i
  BY <1>1, ReadingsAre DEF Behind
<1> HIDE DEF i, l
<1>3. ASSUME NEW j \in 1..Len(i), i[j].dir = "in", t["in"][i[j].msg].kind = "upgrade" PROVE FALSE
  <2>1. Orderly(t, "in", s \o i)
    BY <1>2 DEF l
  <2>2. i[j].msg \in 1..Len(t["in"])
    BY <1>2, <1>3, <2>1, NewIsThere
  <2>3. t["in"][i[j].msg].kind = "req"
    BY <1>1, <2>2, Http1Spoken DEF Plain
  <2> QED
    BY <1>3, <2>3
<1> QED
  BY <1>3 DEF AskedLast, i

-----------------------------------------------------------------------------
(***************************************************************************)
(* One event: H1Observer::parse, and what is shown of it.                  *)
(***************************************************************************)
\* The decoder with more bytes.
Push(o, d, news) == [o EXCEPT ![d] = @ \o news]

\* A decoder with more bytes in a buffer.
LEMMA PushIs ==
  ASSUME NEW o \in H1Decoders, NEW d \in Directions, NEW news \in Seq(Marks)
  PROVE  /\ Push(o, d, news) \in H1Decoders /\ Push(o, d, news).mode = o.mode
         /\ Push(o, d, news)[d] = o[d] \o news
         /\ Push(o, d, news)[Other(d)] = o[Other(d)]
<1>1. o["in"] \o news \in Seq(Marks) /\ o["out"] \o news \in Seq(Marks)
  BY ConcatProperties DEF H1Decoders
<1>2. d = "in" \/ d = "out"
  BY DEF Directions
<1> QED
  BY <1>1, <1>2 DEF Push, H1Decoders, Other

\* An event of direction d, as a reading that begins with the bytes it brings.
Begun(t, o, d, h, k) == Start(Push(o, d, News(t, d, h[d], k[d])))

\* How it begins.
BegunFrom(t, o, s, d, h, k, y) ==
  /\ y \in Readings /\ ModeOf(y) = o.mode /\ Behind(s, y) = s
  /\ Buffer(y, d) = o[d] \o News(t, d, h[d], k[d])
  /\ Buffer(y, Other(d)) = o[Other(d)]
  /\ k[d] \in 0..Total(t, d) /\ h[d] \in 0..k[d] /\ k[Other(d)] = h[Other(d)]

\* The reading that begins with the bytes of an event.
LEMMA BegunIs ==
  ASSUME NEW t, Http1(t), NEW o \in H1Decoders, NEW s \in Seq(H1Items),
         NEW d \in Directions, NEW h, NEW k, Hears(t, d, h, k),
         NEW y, y = Begun(t, o, d, h, k)
  PROVE  BegunFrom(t, o, s, d, h, k, y)
<1> DEFINE news == News(t, d, h[d], k[d])
           p == Push(o, d, news)
<1>1. k[d] \in 0..Total(t, d) /\ h[d] \in 0..k[d] /\ k[Other(d)] = h[Other(d)] /\ Spoken(t)
  BY HearsIs, Http1Spoken DEF Hears
<1>2. news \in Seq(Marks)
  <2>1. Window(t, d, h[d], k[d]) \in Seq(Marks)
    BY <1>1, WindowIs
  <2> QED
    BY <2>1 DEF Window, News
<1>3. Other(d) \in Directions
  BY DEF Directions, Other
<1> HIDE DEF news
<1>4. p \in H1Decoders /\ p.mode = o.mode /\ p[d] = o[d] \o news /\ p[Other(d)] = o[Other(d)]
  BY <1>2, PushIs
<1>5. y = Start(p)
  BY DEF Begun, news
<1> HIDE DEF p
<1>6. y \in Readings /\ ModeOf(y) = p.mode /\ Behind(s, y) = s
      /\ \A e \in Directions : Buffer(y, e) = p[e]
  BY <1>4, <1>5, StartIs
<1> QED
  BY <1>1, <1>3, <1>4, <1>6 DEF news, BegunFrom

\* It has come as far as the decoder has, ...
LEMMA BegunAt ==
  ASSUME NEW t, Http1(t), NEW o \in H1Decoders, NEW s \in Seq(H1Items),
         NEW d \in Directions, NEW h, NEW k, Hears(t, d, h, k),
         NEW y, y = Begun(t, o, d, h, k), NEW e \in Directions, NEW n,
         AtMessage(t, e, o[e], s, h[e], n)
  PROVE  AtMessage(t, e, Buffer(y, e), Behind(s, y), k[e], n)
<1> DEFINE news == News(t, d, h[d], k[d])
<1>1. /\ Behind(s, y) = s /\ Buffer(y, d) = o[d] \o news /\ Buffer(y, Other(d)) = o[Other(d)]
      /\ k[d] \in 0..Total(t, d) /\ h[d] \in 0..k[d] /\ k[Other(d)] = h[Other(d)]
  <2>1. BegunFrom(t, o, s, d, h, k, y)
    BY BegunIs
  <2> QED
    BY <2>1 DEF BegunFrom
<1>2. CASE e = d
  <2> DEFINE x == o[d]
             g == k[d]
             f == h[d]
  <2>1. AtMessage(t, d, x, s, f, n) /\ g \in 0..Total(t, d) /\ f \in 0..g
    BY <1>1, <1>2
  <2>2. Buffer(y, d) = x \o News(t, d, f, g)
    BY <1>1
  <2> HIDE DEF x, f, g
  <2>3. AtMessage(t, d, x \o News(t, d, f, g), s, g, n)
    BY <2>1, Pushed
  <2> QED
    BY <1>1, <1>2, <2>2, <2>3 DEF g
<1>3. CASE e # d
  <2>1. e = Other(d)
    BY <1>3 DEF Directions, Other
  <2> QED
    BY <1>1, <2>1
<1> QED
  BY <1>2, <1>3

\* ... also when a head has led astray.
LEMMA BegunRead ==
  ASSUME NEW t, Http1(t), NEW o \in H1Decoders, NEW s \in Seq(H1Items),
         NEW d \in Directions, NEW h, NEW k, Hears(t, d, h, k),
         NEW y, y = Begun(t, o, d, h, k), NEW e \in Directions,
         Read(t, e, o[e], s, h[e])
  PROVE  Read(t, e, Buffer(y, e), s, k[e])
<1> DEFINE news == News(t, d, h[d], k[d])
<1>1. /\ Behind(s, y) = s /\ Buffer(y, d) = o[d] \o news /\ Buffer(y, Other(d)) = o[Other(d)]
      /\ k[d] \in 0..Total(t, d) /\ h[d] \in 0..k[d] /\ k[Other(d)] = h[Other(d)]
  <2>1. BegunFrom(t, o, s, d, h, k, y)
    BY BegunIs
  <2> QED
    BY <2>1 DEF BegunFrom
<1>2. CASE e = d
  <2> DEFINE x == o[d]
             g == k[d]
             f == h[d]
  <2>1. Read(t, d, x, s, f) /\ g \in 0..Total(t, d) /\ f \in 0..g
    BY <1>1, <1>2
  <2>2. Buffer(y, d) = x \o News(t, d, f, g)
    BY <1>1
  <2> HIDE DEF x, f, g
  <2>3. Read(t, d, x \o News(t, d, f, g), s, g)
    BY <2>1, Pushed
  <2> QED
    BY <1>1, <1>2, <2>2, <2>3 DEF g
<1>3. CASE e # d
  <2>1. e = Other(d)
    BY <1>3 DEF Directions, Other
  <2> QED
    BY <1>1, <2>1
<1> QED
  BY <1>2, <1>3

\* H1Observer::parse looks at the mode once (h1_parser.rs 156-240).
LEMMA ParseIs ==
  ASSUME NEW t, NEW o, NEW y, y = Start(o)
  PROVE  /\ o.mode = "http" =>
              ParseH1(t, o) = Loop(t, Loop(t, y, "in", Requests), "out", Responses)
         /\ o.mode = "asked" => ParseH1(t, o) = Loop(t, y, "out", Responses)
         /\ o.mode = "websocket" =>
              ParseH1(t, o) = Loop(t, Loop(t, y, "in", Frames), "out", Frames)
  BY DEF ParseH1, Start

\* The same for the bytes of an event.
LEMMA BegunParse ==
  ASSUME NEW t, Http1(t), NEW o \in H1Decoders, NEW s \in Seq(H1Items), NEW d \in Directions,
         NEW h, NEW k, Hears(t, d, h, k), NEW y, y = Begun(t, o, d, h, k),
         NEW z, z = ParseH1(t, Push(o, d, News(t, d, h[d], k[d])))
  PROVE  /\ o.mode = "http" =>
              z = Loop(t, Loop(t, y, "in", Requests), "out", Responses)
         /\ o.mode = "asked" => z = Loop(t, y, "out", Responses)
         /\ o.mode = "websocket" =>
              z = Loop(t, Loop(t, y, "in", Frames), "out", Frames)
<1> DEFINE p == Push(o, d, News(t, d, h[d], k[d]))
<1>1. BegunFrom(t, o, s, d, h, k, y)
  BY BegunIs
<1>2. y = Start(p) /\ z = ParseH1(t, p)
  BY DEF Begun
<1>3. p.mode = o.mode
  <2>1. ModeOf(y) = o.mode
    BY <1>1 DEF BegunFrom
  <2> HIDE DEF p
  <2> QED
    BY <1>2, <2>1 DEF Start, ModeOf
<1> HIDE DEF p
<1> QED
  BY <1>2, <1>3, ParseIs

\* What an event of direction d does.
AskAfter(t, u, r, d, s, z, k, h) ==
  /\ z \in Readings /\ AskReads(t, u, r, z.o, Behind(s, z), k, h)
  /\ d = "in" => AskedLast(t, ItemsOf(z))

\* H1Observer::parse on a connection that asks for a websocket
\* (h1_parser.rs 156-240).
LEMMA ParseAsking ==
  ASSUME NEW t, Http1(t), NEW u, NEW r, Asking(t, u, r),
         Accepted(t, u, r) \/ NotAccepted(t, u, r), NEW o, NEW s, NEW h, NEW g,
         AskReads(t, u, r, o, s, h, g), NEW d \in Directions, NEW k, Hears(t, d, h, k),
         NEW z, z = ParseH1(t, Push(o, d, News(t, d, h[d], k[d])))
  PROVE  AskAfter(t, u, r, d, s, z, k, h)
<1>1. o \in H1Decoders /\ s \in Seq(H1Items) /\ \A e \in Directions : Orderly(t, e, s)
  BY DEF AskReads
<1>2. "in" \in Directions /\ "out" \in Directions
  BY DEF Directions
<1>3. PICK a, b \in Nat : /\ AtMessage(t, "in", o["in"], s, h["in"], a)
                          /\ AtMessage(t, "out", o["out"], s, h["out"], b)
                          /\ Stage(t, u, r, o.mode, a, b, h, g)
  BY DEF AskReads
<1> DEFINE y == Begun(t, o, d, h, k)
<1>y. y = Begun(t, o, d, h, k)
  OBVIOUS
<1> HIDE DEF y
<1>4. BegunFrom(t, o, s, d, h, k, y)
  BY <1>1, <1>y, BegunIs
<1>5. y \in Readings /\ ModeOf(y) = o.mode /\ Behind(s, y) = s
  BY <1>4 DEF BegunFrom
<1>6. Parsed(t, s, k, y, a, b)
  <2>1. AtMessage(t, "in", Buffer(y, "in"), Behind(s, y), k["in"], a)
    BY <1>1, <1>2, <1>3, <1>y, BegunAt
  <2>2. AtMessage(t, "out", Buffer(y, "out"), Behind(s, y), k["out"], b)
    BY <1>1, <1>2, <1>3, <1>y, BegunAt
  <2> QED
    BY <1>1, <1>5, <2>1, <2>2 DEF Parsed
<1>7. /\ o.mode = "http" => z = Loop(t, Loop(t, y, "in", Requests), "out", Responses)
      /\ o.mode = "asked" => z = Loop(t, y, "out", Responses)
      /\ o.mode = "websocket" => z = Loop(t, Loop(t, y, "in", Frames), "out", Frames)
  BY <1>1, <1>y, BegunParse
<1>8. Stage(t, u, r, ModeOf(y), a, b, h, g)
  BY <1>3, <1>5
<1>9. \A e \in Directions : k[e] \in 0..Total(t, e) /\ h[e] \in 0..k[e]
  BY HearsIs
<1>10. SUFFICES ASSUME NEW m \in Nat, NEW n \in Nat, Parsed(t, s, k, z, m, n),
                       Stage(t, u, r, ModeOf(z), m, n, k, h),
                       d = "in" => \/ m <= u /\ n = b
                                   \/ m = a
                                   \/ a >= u /\ Accepted(t, u, r)
                PROVE  AskAfter(t, u, r, d, s, z, k, h)
  <2>1. CASE NotYet(t, u, r, ModeOf(y), a, b, h)
    <3>1. z = Loop(t, Loop(t, y, "in", Requests), "out", Responses)
      BY <1>5, <1>7, <2>1 DEF NotYet
    <3>2. \E m, n \in Nat : /\ Parsed(t, s, k, z, m, n) /\ Stage(t, u, r, ModeOf(z), m, n, k, h)
                            /\ d = "in" => m <= u /\ n = b
      BY <1>1, <1>6, <2>1, <3>1, FromNotYet
    <3> QED
      BY <1>10, <3>2
  <2>2. CASE Asked(t, u, r, ModeOf(y), a, b, h)
    <3>1. z = Loop(t, y, "out", Responses)
      BY <1>5, <1>7, <2>2 DEF Asked
    <3>2. \E n \in Nat : Parsed(t, s, k, z, a, n) /\ Stage(t, u, r, ModeOf(z), a, n, k, h)
      BY <1>1, <1>6, <2>2, <3>1, FromAsked
    <3> QED
      BY <1>10, <3>2
  <2>3. CASE Framed(t, u, r, ModeOf(y), a, b, g)
    <3>1. z = Loop(t, Loop(t, y, "in", Frames), "out", Frames)
      BY <1>5, <1>7, <2>3 DEF Framed
    <3>2. ModeOf(y) = "websocket" /\ a >= u /\ b >= r /\ Accepted(t, u, r)
      BY <2>3 DEF Framed
    <3>3. \E m, n \in Nat :
            Parsed(t, s, k, z, m, n) /\ Stage(t, u, r, ModeOf(z), m, n, k, h) /\ m >= u
      BY <1>1, <1>6, <3>1, <3>2, FromFramed
    <3> QED
      BY <1>10, <3>2, <3>3
  <2>4. CASE Ended(t, u, r, ModeOf(y), a, b, h)
    <3>1. z = Loop(t, Loop(t, y, "in", Requests), "out", Responses)
      BY <1>5, <1>7, <2>4 DEF Ended
    <3>2. a >= u /\ Accepted(t, u, r)
      BY <2>4 DEF Ended
    <3>3. Parsed(t, s, k, z, a, b) /\ Stage(t, u, r, ModeOf(z), a, b, k, h)
      BY <1>1, <1>6, <2>4, <3>1, <3>2, FromEnded
    <3> QED
      BY <1>10, <3>3
  <2> QED
    BY <1>8, <2>1, <2>2, <2>3, <2>4 DEF Stage
<1>11. AskReads(t, u, r, z.o, Behind(s, z), k, h)
  BY <1>1, <1>9, <1>10, ParsedReads
<1>12. ASSUME d = "in" PROVE AskedLast(t, ItemsOf(z))
  BY <1>1, <1>5, <1>6, <1>10, <1>12, AskedLastIs
<1> QED
  BY <1>10, <1>11, <1>12 DEF AskAfter, Parsed

\* The same without websockets.
PlainAfter(t, d, s, z, k) ==
  /\ z \in Readings /\ PlainReads(t, z.o, Behind(s, z), k)
  /\ d = "in" => AskedLast(t, ItemsOf(z))

\* H1Observer::parse on the bytes of an event, without websockets.
LEMMA HearPlain ==
  ASSUME NEW t, Http1(t), Plain(t), NEW o, NEW s, NEW h,
         PlainReads(t, o, s, h), NEW d \in Directions, NEW k, Hears(t, d, h, k),
         NEW z, z = ParseH1(t, Push(o, d, News(t, d, h[d], k[d])))
  PROVE  PlainAfter(t, d, s, z, k)
<1>1. /\ o \in H1Decoders /\ s \in Seq(H1Items) /\ o.mode = "http"
      /\ \A e \in Directions : Orderly(t, e, s) /\ Read(t, e, o[e], s, h[e])
  BY DEF PlainReads
<1> DEFINE p == Push(o, d, News(t, d, h[d], k[d]))
           y == Begun(t, o, d, h, k)
<1>y. y = Begun(t, o, d, h, k) /\ z = ParseH1(t, p) /\ y = Start(p)
  BY DEF Begun
<1> HIDE DEF y, p
<1>4. BegunFrom(t, o, s, d, h, k, y)
  BY <1>1, <1>y, BegunIs
<1>5. y \in Readings /\ ModeOf(y) = "http" /\ Behind(s, y) = s
  BY <1>1, <1>4 DEF BegunFrom
<1>6. p \in H1Decoders /\ p.mode = "http" /\ \A e \in Directions : p[e] = Buffer(y, e)
  BY <1>5, <1>y DEF Start, Readings, ModeOf, Buffer
<1>7. ASSUME NEW e \in Directions PROVE Read(t, e, Buffer(y, e), s, k[e])
  BY <1>1, <1>y, BegunRead
<1>8. \A e \in Directions : k[e] \in 0..Total(t, e)
  BY HearsIs
<1>9. z \in Readings /\ PlainReads(t, z.o, Behind(s, z), k)
  BY <1>1, <1>6, <1>7, <1>8, <1>y, ParsePlain
<1>10. AskedLast(t, ItemsOf(z))
  <2>1. Orderly(t, "in", Behind(s, z))
    BY <1>9 DEF PlainReads, Directions
  <2> QED
    BY <1>1, <1>9, <2>1, PlainLast
<1> QED
  BY <1>9, <1>10 DEF PlainAfter

\* What observer.rs drops behind the announcement of a websocket is nothing, if the
\* announcement is the last item.
LEMMA UpToIs ==
  ASSUME NEW c, NEW t, t = talk[c], ~t.marked, NEW items \in Seq(H1Items), AskedLast(t, items)
  PROVE  UpToUpgrade(c, items) = items
<1> DEFINE asks == {k \in DOMAIN items : /\ items[k].dir = "in"
                                         /\ t["in"][items[k].msg].kind = "upgrade"}
           least == CHOOSE k \in asks : \A j \in asks : k <= j
<1>1. UpToUpgrade(c, items) = IF asks = {} THEN items ELSE SubSeq(items, 1, least)
  BY DEF UpToUpgrade
<1>2. \A k \in asks : k = Len(items)
  BY DEF AskedLast
<1>3. ASSUME asks # {} PROVE least = Len(items)
  <2>1. \E k \in asks : \A j \in asks : k <= j
    BY <1>2, <1>3
  <2> HIDE DEF asks
  <2>2. least \in asks
    BY <2>1
  <2> QED
    BY <1>2, <2>2
<1>4. SubSeq(items, 1, Len(items)) = items
  BY SubSeqFull
<1> QED
  BY <1>1, <1>3, <1>4

\* The decoder of a connection; the first bytes make one.
DecoderOf(c) == IF decoder[c] = None THEN NewDecoder(talk[c]) ELSE decoder[c]

\* What bytes do that a connection with an entry sends or receives.
LEMMA HeardIs ==
  ASSUME NEW c, NEW t, t = talk[c], ~t.marked, NEW d \in Directions, NEW units,
         station[c] # None, NEW z, z = ParseH1(t, Push(DecoderOf(c), d, units)),
         NEW s, s = station[c], z \in Readings, d = "in" => AskedLast(t, ItemsOf(z))
  PROVE  /\ Decoded(c, d, units).o = z.o
         /\ Shown(c, d, Decoded(c, d, units).items) = Behind(s, z)
<1>1. Decoded(c, d, units) = z
  <2>1. NewDecoder(t) = NewH1
    BY DEF NewDecoder
  <2> QED
    BY <2>1 DEF Decoded, Push, DecoderOf
<1> DEFINE i == z.items
<1>2. i = ItemsOf(z) /\ i \in Seq(H1Items)
  BY DEF ItemsOf, Readings
<1> HIDE DEF i
<1>3. d = "in" => UpToUpgrade(c, i) = i
  BY <1>2, UpToIs
<1>4. Shown(c, d, i) = s \o i
  BY <1>3 DEF Shown
<1> QED
  BY <1>1, <1>2, <1>4 DEF Behind, i

-----------------------------------------------------------------------------
(***************************************************************************)
(* The invariant of one connection, and what follows from it.              *)
(***************************************************************************)
\* The decoder o and the list s of a conversation are what h heard units make, of
\* which g came before the last event.
Follows(o, t, s, h, g) ==
  /\ \A d \in Directions : g[d] \in 0..h[d] /\ h[d] \in 0..Total(t, d)
  /\ \/ Plain(t) /\ PlainReads(t, o, s, h)
     \/ \E u, r \in Nat : /\ Asking(t, u, r) /\ (Accepted(t, u, r) \/ NotAccepted(t, u, r))
                          /\ AskReads(t, u, r, o, s, h, g)

\* Before the first byte nothing has been read or shown.
LEMMA AtStart ==
  ASSUME NEW t, Http1(t), NEW d \in Directions
  PROVE  /\ AtMessage(t, d, <<>>, <<>>, 0, 0) /\ Orderly(t, d, <<>>) /\ 0 \in 0..Total(t, d)
         /\ \A i \in 1..Len(t[d]) : ~(End(t, d, i) <= 0)
<1>1. Spoken(t) /\ Len(t[d]) \in Nat /\ Total(t, d) \in Nat
  BY Http1Spoken, AllAre
<1>2. 0 \in 0..Len(t[d]) /\ 0 \in 0..Total(t, d) /\ 0 \in 0..0
  BY <1>1
<1>3. End(t, d, 0) = 0
  BY <1>1, UnitsDef DEF End
<1>4. Window(t, d, 0, 0) = <<>>
  BY <1>1, <1>2, WindowIs
<1>5. ~Misleading(t, d, 0)
  BY DEF Misleading
<1>6. ShownOf(<<>>, d) = 1..0
  BY DEF ShownOf, BeforeIn
<1>7. AtMessage(t, d, <<>>, <<>>, 0, 0)
  BY <1>2, <1>3, <1>4, <1>5, <1>6 DEF AtMessage
<1>8. Orderly(t, d, <<>>)
  BY DEF Orderly
<1>9. ASSUME NEW i \in 1..Len(t[d]) PROVE ~(End(t, d, i) <= 0)
  <2>1. i \in 0..Len(t[d]) /\ 0 < i
    BY <1>1
  <2>2. End(t, d, 0) < End(t, d, i) /\ End(t, d, i) \in Nat
    BY <1>1, <1>2, <2>1, EndsGrow, UnitsAre
  <2> QED
    BY <1>3, <2>2
<1> QED
  BY <1>2, <1>7, <1>8, <1>9

\* A new decoder and an empty list follow from the start.
LEMMA FollowsStart ==
  ASSUME NEW t, Http1(t), NEW h, NEW g, \A d \in Directions : h[d] = 0 /\ g[d] = 0
  PROVE  Follows(NewH1, t, <<>>, h, g)
<1>1. NewH1 \in H1Decoders /\ NewH1.mode = "http" /\ \A d \in Directions : NewH1[d] = <<>>
  BY DEF NewH1, H1Decoders, Modes, Directions
<1>2. <<>> \in Seq(H1Items)
  OBVIOUS
<1>3. ASSUME NEW d \in Directions
      PROVE  /\ h[d] \in 0..Total(t, d) /\ g[d] \in 0..h[d] /\ Orderly(t, d, <<>>)
             /\ AtMessage(t, d, NewH1[d], <<>>, h[d], 0)
             /\ \A i \in 1..Len(t[d]) : ~(End(t, d, i) <= h[d])
  BY <1>1, AtStart
<1> HIDE DEF NewH1
<1>4. CASE Plain(t)
  <2>1. \A d \in Directions : Read(t, d, NewH1[d], <<>>, h[d])
    BY <1>3 DEF Read
  <2>2. PlainReads(t, NewH1, <<>>, h)
    BY <1>1, <1>2, <1>3, <2>1 DEF PlainReads
  <2> QED
    BY <1>3, <1>4, <2>2 DEF Follows
<1>5. ASSUME NEW u \in Nat, NEW r \in Nat, Asking(t, u, r),
             Accepted(t, u, r) \/ NotAccepted(t, u, r)
      PROVE  Follows(NewH1, t, <<>>, h, g)
  <2>1. "in" \in Directions /\ "out" \in Directions
    BY DEF Directions
  <2>2. u \in 1..Len(t["in"]) /\ r \in 1..Len(t["out"]) /\ Len(t["in"]) \in Nat /\ Len(t["out"]) \in Nat
    BY <1>5, AskingIs
  <2>3. AllRead(t, "in", 0, h["in"]) /\ AllRead(t, "out", 0, h["out"])
    BY <1>3, <2>1, <2>2 DEF AllRead
  <2>4. NotYet(t, u, r, "http", 0, 0, h)
    BY <2>2, <2>3 DEF NotYet
  <2>5. Stage(t, u, r, NewH1.mode, 0, 0, h, g)
    BY <1>1, <2>4 DEF Stage
  <2>6. AskReads(t, u, r, NewH1, <<>>, h, g)
    BY <1>1, <1>2, <1>3, <2>1, <2>5 DEF AskReads
  <2> QED
    BY <1>3, <1>5, <2>6 DEF Follows
<1> QED
  BY <1>4, <1>5 DEF Http1

\* Decoder and list follow, whatever units an event brings (observer.rs 229-345,
\* h1_parser.rs 156-240).
LEMMA FollowsHears ==
  ASSUME NEW t, Http1(t), NEW o, NEW s, NEW h, NEW g, Follows(o, t, s, h, g),
         NEW d \in Directions, NEW k, Hears(t, d, h, k),
         NEW z, z = ParseH1(t, Push(o, d, News(t, d, h[d], k[d])))
  PROVE  /\ z \in Readings /\ Follows(z.o, t, Behind(s, z), k, h)
         /\ d = "in" => AskedLast(t, ItemsOf(z))
<1>1. \A e \in Directions : h[e] \in 0..k[e] /\ k[e] \in 0..Total(t, e)
  BY HearsIs
<1>2. CASE Plain(t) /\ PlainReads(t, o, s, h)
  <2>1. PlainAfter(t, d, s, z, k)
    BY <1>2, HearPlain
  <2> QED
    BY <1>1, <1>2, <2>1 DEF PlainAfter, Follows
<1>3. ASSUME NEW u \in Nat, NEW r \in Nat, Asking(t, u, r),
             Accepted(t, u, r) \/ NotAccepted(t, u, r), AskReads(t, u, r, o, s, h, g)
      PROVE  /\ z \in Readings /\ Follows(z.o, t, Behind(s, z), k, h)
             /\ d = "in" => AskedLast(t, ItemsOf(z))
  <2>1. AskAfter(t, u, r, d, s, z, k, h)
    BY <1>3, ParseAsking
  <2> QED
    BY <1>1, <1>3, <2>1 DEF AskAfter, Follows
<1> QED
  BY <1>2, <1>3 DEF Follows

\* What a message over HTTP/1 is to be shown with: its own units.
LEMMA RightIs ==
  ASSUME NEW t, t.ver = "h1", NEW d, NEW x, x.body = OwnUnits(t, d, x.msg)
  PROVE  Right(t, d, x)
<1>1. Content(t, d, x.msg) = OwnUnits(t, d, x.msg)
  BY DEF Content
<1> QED
  BY <1>1 DEF Right

\* An orderly list shows what went by, in order and with its content.
LEMMA FollowsInOrder ==
  ASSUME NEW c, NEW t, t = talk[c], Http1(t), NEW s, s = station[c], s \in Seq(H1Items),
         NEW d \in Directions, Orderly(t, d, s)
  PROVE  ShownInOrder(c, d)
<1> SUFFICES ASSUME NEW k \in DOMAIN s, s[k].dir = d, ~Misleading(t, d, s[k].msg)
             PROVE  /\ Visible(t[d][s[k].msg]) /\ Right(t, d, s[k])
                    /\ {s[l].msg : l \in {l \in 1..k - 1 : s[l].dir = d}}
                         = {j \in 1..s[k].msg - 1 : Visible(t[d][j])}
  BY DEF ShownInOrder
<1> DEFINE m == s[k].msg
<1>1. k \in 1..Len(s)
  OBVIOUS
<1>2. m \in 1..Len(t[d]) /\ s[k].body = OwnUnits(t, d, m) /\ BeforeIn(s, d, k) = 1..m - 1
  BY <1>1 DEF Orderly
<1>3. \A j \in 1..Len(t[d]) : Visible(t[d][j])
  BY Http1Spoken
<1>4. Right(t, d, s[k])
  BY <1>2, RightIs DEF Http1
<1>5. Len(t[d]) \in Nat
  BY Http1Spoken
<1> HIDE DEF m
<1>6. \A j \in 1..m - 1 : j \in 1..Len(t[d])
  BY <1>2, <1>5
<1>7. {j \in 1..m - 1 : Visible(t[d][j])} = 1..m - 1
  BY <1>3, <1>6
<1>8. BeforeIn(s, d, k) = {j \in 1..m - 1 : Visible(t[d][j])}
  BY <1>2, <1>7
<1> QED
  BY <1>2, <1>3, <1>4, <1>8 DEF BeforeIn, m

\* What was complete before the last event and is not hidden is shown.
LEMMA Unhidden ==
  ASSUME NEW c, NEW t, t = talk[c], Http1(t), NEW s, s = station[c], s \in Seq(H1Items),
         NEW h, h = heard[c], NEW g, g = before[c], Causal(t, h),
         Follows(DecoderOf(c), t, s, h, g),
         NEW d \in Directions, NEW i \in Complete(t, d, g[d]), ~Hidden(c, d, i)
  PROVE  i \in ShownOf(s, d)
<1>1. /\ \A e \in Directions : /\ Spoken(t) /\ Len(t[e]) \in Nat /\ DOMAIN t[e] = 1..Len(t[e])
                               /\ g[e] \in 0..h[e] /\ h[e] \in 0..Total(t, e)
                               /\ Total(t, e) \in Nat
      /\ "in" \in Directions /\ "out" \in Directions
  <2>1. \A e \in Directions : /\ Spoken(t) /\ Len(t[e]) \in Nat /\ DOMAIN t[e] = 1..Len(t[e])
    BY Http1Spoken
  <2>2. \A e \in Directions : Total(t, e) \in Nat
    BY <2>1, AllAre
  <2> QED
    BY <2>1, <2>2 DEF Follows, Directions
<1>2. i \in 1..Len(t[d]) /\ End(t, d, i) <= g[d] /\ i \in 0..Len(t[d]) /\ i \in Nat
  BY <1>1 DEF Complete, End
<1>3. g[d] \in Nat /\ h[d] \in Nat /\ g[d] <= h[d] /\ End(t, d, i) \in Nat
  <2>1. g[d] \in 0..h[d] /\ h[d] \in 0..Total(t, d) /\ Total(t, d) \in Nat
    BY <1>1
  <2>2. End(t, d, i) \in Nat
    BY <1>1, <1>2, UnitsAre
  <2> QED
    BY <2>1, <2>2
<1>4. End(t, d, i) <= h[d]
  BY <1>2, <1>3
<1>5. ~Misleading(t, d, i) /\ ~(d = "in" /\ Refused(t, i)) /\ ~Closed(c)
  BY DEF Hidden
<1>6. CASE Plain(t) /\ PlainReads(t, DecoderOf(c), s, h)
  BY <1>2, <1>4, <1>5, <1>6 DEF PlainReads
<1>7. ASSUME NEW u \in Nat, NEW r \in Nat, Asking(t, u, r),
             Accepted(t, u, r) \/ NotAccepted(t, u, r), AskReads(t, u, r, DecoderOf(c), s, h, g)
      PROVE  i \in ShownOf(s, d)
  <2> DEFINE mode == DecoderOf(c).mode
             I == Len(t["in"])
             O == Len(t["out"])
  <2>1. PICK a, b \in Nat : /\ AtMessage(t, "in", DecoderOf(c)["in"], s, h["in"], a)
                            /\ AtMessage(t, "out", DecoderOf(c)["out"], s, h["out"], b)
                            /\ Stage(t, u, r, mode, a, b, h, g)
    BY <1>7 DEF AskReads
  <2>2. ShownOf(s, "in") = 1..a /\ ShownOf(s, "out") = 1..b
    BY <2>1 DEF AtMessage
  <2> HIDE DEF mode
  <2>3. /\ u \in 1..I /\ r \in 1..O /\ I \in Nat /\ O \in Nat
        /\ t["in"][u].kind = "upgrade"
        /\ \A j \in 1..O : j < r => t["out"][j].kind = "resp"
        /\ DOMAIN t["in"] = 1..I /\ DOMAIN t["out"] = 1..O
    BY <1>1, <1>7, AskingIs, SMTT(30)
  <2>4. /\ h["in"] \in Nat /\ h["out"] \in Nat
        /\ h["in"] \in 0..Total(t, "in") /\ h["out"] \in 0..Total(t, "out")
    BY <1>1
  <2>5. ASSUME d = "in", AllRead(t, "in", a, h["in"]) PROVE i <= a
    BY <1>1, <1>2, <1>4, <2>4, <2>5, AllReadIs
  <2>6. ASSUME d = "out", AllRead(t, "out", b, h["out"]) PROVE i <= b
    BY <1>1, <1>2, <1>4, <2>4, <2>6, AllReadIs
  <2>7. (d = "in" => i <= a) /\ (d = "out" => i <= b)
    <3>1. CASE NotYet(t, u, r, mode, a, b, h)
      BY <2>5, <2>6, <3>1 DEF NotYet
    <3>2. CASE Asked(t, u, r, mode, a, b, h)
      <4>1. a = u /\ (b < r \/ NotAccepted(t, u, r)) /\ AllRead(t, "out", b, h["out"])
        BY <3>2 DEF Asked
      <4>2. ASSUME d = "in", ~(i <= a) PROVE FALSE
        <5>1. u < i /\ u \in 1..i - 1
          BY <1>2, <2>3, <4>1, <4>2
        <5>2. CASE NotAccepted(t, u, r)
          <6>1. ASSUME NEW j \in 1..O PROVE t["out"][j].kind # "switch"
            <7>1. j < r \/ j = r \/ j > r
              BY <2>3
            <7> QED
              BY <2>3, <5>2, <7>1 DEF NotAccepted
          <6>2. Refused(t, i)
            BY <2>3, <5>1, <6>1 DEF Refused, Http1
          <6> QED
            BY <1>5, <4>2, <6>2
        <5>3. CASE b < r
          <6>1. b + 1 \in 1..O /\ b + 1 \in 0..O /\ r \in 0..O /\ b + 1 <= r
            BY <2>1, <2>3, <5>3
          <6>2. ~(End(t, "out", b + 1) <= h["out"])
            BY <4>1, <6>1 DEF AllRead
          <6>3. /\ End(t, "out", b + 1) <= End(t, "out", r)
                /\ End(t, "out", r) \in Nat /\ End(t, "out", b + 1) \in Nat
            BY <1>1, <6>1, EndsUpTo
          <6>4. h["out"] < End(t, "out", r)
            BY <2>4, <6>2, <6>3
          <6>5. h["in"] <= End(t, "in", u)
            BY <1>7, <2>4, <6>4, Waits
          <6>6. i \in 0..I /\ u \in 0..I
            BY <1>2, <2>3, <4>2
          <6>7. End(t, "in", u) \in Nat /\ End(t, "in", i) \in Nat
            BY <1>1, <6>6, UnitsAre
          <6>8. End(t, "in", i) <= End(t, "in", u)
            BY <1>4, <2>4, <4>2, <6>5, <6>7
          <6>9. i <= u
            BY <1>1, <6>6, <6>8, EndsUpTo
          <6> QED
            BY <1>2, <2>3, <5>1, <6>9
        <5> QED
          BY <4>1, <5>2, <5>3
      <4> QED
        BY <2>6, <4>1, <4>2
    <3>3. CASE Framed(t, u, r, mode, a, b, g)
      <4>1. d = "in" => i \in 1..I /\ End(t, "in", i) <= g["in"]
        BY <1>2
      <4>2. d = "out" => i \in 1..O /\ End(t, "out", i) <= g["out"]
        BY <1>2
      <4> QED
        BY <3>3, <4>1, <4>2 DEF Framed
    <3>4. CASE Ended(t, u, r, mode, a, b, h)
      <4>1. PICK e \in Directions : \E j \in 1..Len(t[e]) : t[e][j].kind = "close" /\ End(t, e, j) <= h[e]
        BY <3>4 DEF Ended, HasClosed
      <4>2. Closed(c)
        BY <1>1, <4>1 DEF Closed, Complete, End
      <4> QED
        BY <1>5, <4>2
    <3> QED
      BY <2>1, <3>1, <3>2, <3>3, <3>4 DEF Stage
  <2>8. d = "in" \/ d = "out"
    BY DEF Directions
  <2> QED
    BY <1>2, <2>1, <2>2, <2>7, <2>8
<1> QED
  BY <1>6, <1>7 DEF Follows

\* A decoder and a list that follow are what ShownIsSent asks for.
LEMMA FollowsShows ==
  ASSUME NEW c, NEW t, t = talk[c], Http1(t), NEW s, s = station[c],
         NEW h, h = heard[c], NEW g, g = before[c], Causal(t, h),
         Follows(DecoderOf(c), t, s, h, g), NEW d \in Directions
  PROVE  ShownInOrder(c, d) /\ NothingHeldBack(c, d)
<1>1. s \in Seq(H1Items) /\ Orderly(t, d, s)
  BY DEF Follows, PlainReads, AskReads
<1>2. ShownInOrder(c, d)
  BY <1>1, FollowsInOrder
<1>3. ASSUME NEW i \in Complete(t, d, g[d]), ~Hidden(c, d, i)
      PROVE  \E k \in DOMAIN s : s[k].dir = d /\ s[k].msg = i
  <2>1. i \in ShownOf(s, d)
    BY <1>1, <1>3, Unhidden
  <2>2. PICK k \in 1..(Len(s) + 1) - 1 : s[k].dir = d /\ s[k].msg = i
    BY <2>1 DEF ShownOf, BeforeIn
  <2>3. k \in DOMAIN s
    BY <1>1, <2>2
  <2> QED
    BY <2>2, <2>3
<1>4. NothingHeldBack(c, d)
  BY <1>3 DEF NothingHeldBack
<1> QED
  BY <1>2, <1>4

-----------------------------------------------------------------------------
(***************************************************************************)
(* HTTP/2: the data of a stream, and the units of a body that go one way.  *)
(***************************************************************************)
\* Step i of the recursion of DataOf, and what it adds.
DataAt(t, d, s, i) ==
  IF t[d][i].kind = "data" /\ t[d][i].stream = s THEN OwnUnits(t, d, i) ELSE <<>>
DataStep(t, d, s, f, i) == IF i = 0 THEN <<>> ELSE f[i - 1] \o DataAt(t, d, s, i)

\* The recursion of DataOf, step by step.
LEMMA DataOfDef ==
  ASSUME NEW t, NEW d, NEW s, Len(t[d]) \in Nat
  PROVE  /\ DataOf(t, d, s, 0) = <<>>
         /\ \A i \in 1..Len(t[d]) : DataOf(t, d, s, i) = DataOf(t, d, s, i - 1) \o DataAt(t, d, s, i)
<1> DEFINE L == Len(t[d])
           S == {n \in 0..L : \E f : f = [i \in 0..n |-> DataStep(t, d, s, f, i)]}
           F == CHOOSE f : f = [i \in 0..L |-> DataStep(t, d, s, f, i)]
<1>1. 0 \in S
  <2> DEFINE f == [i \in 0..0 |-> <<>>]
  <2>1. f = [i \in 0..0 |-> DataStep(t, d, s, f, i)]
    BY DEF DataStep
  <2> QED
    BY <2>1
<1>2. ASSUME NEW n \in 1..L, n - 1 \in S PROVE n \in S
  <2>1. PICK f : f = [i \in 0..n - 1 |-> DataStep(t, d, s, f, i)]
    BY <1>2
  <2> DEFINE g == [i \in 0..n |-> IF i \in 0..n - 1 THEN f[i] ELSE DataStep(t, d, s, f, i)]
  <2>2. \A i \in 0..n : g[i] = DataStep(t, d, s, g, i)
    <3> TAKE i \in 0..n
    <3>1. i # 0 => i - 1 \in 0..n - 1 /\ g[i - 1] = f[i - 1]
      OBVIOUS
    <3>2. DataStep(t, d, s, g, i) = DataStep(t, d, s, f, i)
      BY <3>1 DEF DataStep
    <3>3. i \in 0..n - 1 => f[i] = DataStep(t, d, s, f, i)
      BY <2>1
    <3> QED
      BY <3>2, <3>3
  <2> HIDE DEF g
  <2>3. g = [i \in 0..n |-> DataStep(t, d, s, g, i)]
    BY <2>2 DEF g
  <2> QED
    BY <2>3
<1>3. L \in S
  <2>1. L \in Nat
    OBVIOUS
  <2> HIDE DEF S, L
  <2>2. \A n \in 0..L : n \in S
    BY <1>1, <1>2, <2>1, UpTo
  <2> QED
    BY <2>1, <2>2
<1>4. F = [i \in 0..L |-> DataStep(t, d, s, F, i)]
  BY <1>3
<1>5. \A n : DataOf(t, d, s, n) = F[n]
  BY Zenon DEF DataOf, DataStep, DataAt
<1> HIDE DEF S, F
<1>6. \A i \in 0..L : F[i] = DataStep(t, d, s, F, i)
  BY <1>4
<1>7. 0 \in 0..L /\ \A i \in 1..L : i \in 0..L /\ i # 0
  OBVIOUS
<1> QED
  BY <1>5, <1>6, <1>7 DEF DataStep

\* What each frame adds to the data of a stream.
LEMMA DataOfIs ==
  ASSUME NEW t, Spoken(t), NEW d \in Directions, NEW s
  PROVE  /\ \A n \in 0..Len(t[d]) : DataOf(t, d, s, n) \in Seq(Marks)
         /\ DataOf(t, d, s, 0) = <<>>
         /\ \A i \in 1..Len(t[d]) :
              /\ t[d][i].kind = "data" /\ t[d][i].stream = s =>
                   DataOf(t, d, s, i) = DataOf(t, d, s, i - 1) \o OwnUnits(t, d, i)
              /\ ~(t[d][i].kind = "data" /\ t[d][i].stream = s) =>
                   DataOf(t, d, s, i) = DataOf(t, d, s, i - 1)
<1> DEFINE L == Len(t[d])
           S == {n \in 0..L : DataOf(t, d, s, n) \in Seq(Marks)}
<1>0. L \in Nat
  BY DEF Spoken
<1>1. DataOf(t, d, s, 0) = <<>>
      /\ \A i \in 1..L : DataOf(t, d, s, i) = DataOf(t, d, s, i - 1) \o DataAt(t, d, s, i)
  BY <1>0, DataOfDef
<1>2. ASSUME NEW i \in 1..L, i - 1 \in S
      PROVE  /\ i \in S
             /\ DataOf(t, d, s, i) = IF t[d][i].kind = "data" /\ t[d][i].stream = s
                                     THEN DataOf(t, d, s, i - 1) \o OwnUnits(t, d, i)
                                     ELSE DataOf(t, d, s, i - 1)
  <2>1. DataOf(t, d, s, i) = DataOf(t, d, s, i - 1) \o DataAt(t, d, s, i)
    BY <1>1
  <2>2. DataOf(t, d, s, i - 1) \in Seq(Marks) /\ OwnUnits(t, d, i) \in Seq(Marks)
    BY <1>2, OwnUnitsAre
  <2>3. DataOf(t, d, s, i - 1) \o OwnUnits(t, d, i) \in Seq(Marks)
    BY <2>2, ConcatProperties
  <2>4. DataOf(t, d, s, i - 1) \o <<>> = DataOf(t, d, s, i - 1)
    BY <2>2, ConcatEmptySeq
  <2>5. DataOf(t, d, s, i) = IF t[d][i].kind = "data" /\ t[d][i].stream = s
                             THEN DataOf(t, d, s, i - 1) \o OwnUnits(t, d, i)
                             ELSE DataOf(t, d, s, i - 1)
    <3>1. CASE t[d][i].kind = "data" /\ t[d][i].stream = s
      BY <2>1, <3>1 DEF DataAt
    <3>2. CASE ~(t[d][i].kind = "data" /\ t[d][i].stream = s)
      BY <2>1, <2>4, <3>2 DEF DataAt
    <3> QED
      BY <3>1, <3>2
  <2>6. DataOf(t, d, s, i) \in Seq(Marks)
    BY <2>2, <2>3, <2>5
  <2>7. i \in S
    BY <1>0, <2>6
  <2> HIDE DEF S
  <2> QED
    BY <2>5, <2>7
<1>3. 0 \in S
  <2>1. <<>> \in Seq(Marks) /\ 0 \in 0..L
    BY <1>0, EmptySeq
  <2>2. DataOf(t, d, s, 0) \in Seq(Marks)
    BY <1>1, <2>1
  <2> QED
    BY <2>1, <2>2
<1>4. \A n \in 0..L : n \in S
  <2> HIDE DEF S, L
  <2> QED
    BY <1>0, <1>2, <1>3, UpTo
<1>5. ASSUME NEW i \in 1..L
      PROVE  DataOf(t, d, s, i) = IF t[d][i].kind = "data" /\ t[d][i].stream = s
                                  THEN DataOf(t, d, s, i - 1) \o OwnUnits(t, d, i)
                                  ELSE DataOf(t, d, s, i - 1)
  <2>1. i - 1 \in 0..L
    BY <1>0
  <2> HIDE DEF S
  <2> QED
    BY <1>2, <1>4, <2>1
<1>6. \A n \in 0..L : DataOf(t, d, s, n) \in Seq(Marks)
  BY <1>4
<1> QED
  BY <1>1, <1>5, <1>6

\* The same, for the next frame.
LEMMA DataNext ==
  ASSUME NEW t, Spoken(t), NEW d \in Directions, NEW s, NEW n \in Nat, n + 1 \in 1..Len(t[d])
  PROVE  /\ t[d][n + 1].kind = "data" /\ t[d][n + 1].stream = s =>
              DataOf(t, d, s, n + 1) = DataOf(t, d, s, n) \o OwnUnits(t, d, n + 1)
         /\ ~(t[d][n + 1].kind = "data" /\ t[d][n + 1].stream = s) =>
              DataOf(t, d, s, n + 1) = DataOf(t, d, s, n)
<1> DEFINE i == n + 1
<1>1. i \in 1..Len(t[d]) /\ i - 1 = n
  OBVIOUS
<1> HIDE DEF i
<1>2. /\ t[d][i].kind = "data" /\ t[d][i].stream = s =>
           DataOf(t, d, s, i) = DataOf(t, d, s, i - 1) \o OwnUnits(t, d, i)
      /\ ~(t[d][i].kind = "data" /\ t[d][i].stream = s) =>
           DataOf(t, d, s, i) = DataOf(t, d, s, i - 1)
  BY <1>1, DataOfIs
<1> QED
  BY <1>1, <1>2 DEF i

\* A stream without data has none.
LEMMA DataOfNone ==
  ASSUME NEW t, Spoken(t), NEW d \in Directions, NEW s, NEW n \in 0..Len(t[d]),
         \A i \in 1..n : ~(t[d][i].kind = "data" /\ t[d][i].stream = s)
  PROVE  DataOf(t, d, s, n) = <<>>
<1> DEFINE S == {i \in 0..n : DataOf(t, d, s, i) = <<>>}
<1>0. n \in Nat /\ Len(t[d]) \in Nat
  BY DEF Spoken
<1>1. 0 \in S
  BY <1>0, DataOfIs
<1>2. ASSUME NEW i \in 1..n, i - 1 \in S PROVE i \in S
  <2>1. i \in 1..Len(t[d]) /\ i \in 0..n
    BY <1>0
  <2>2. ~(t[d][i].kind = "data" /\ t[d][i].stream = s)
    OBVIOUS
  <2>3. DataOf(t, d, s, i) = DataOf(t, d, s, i - 1)
    BY <2>1, <2>2, DataOfIs
  <2> QED
    BY <1>2, <2>1, <2>3
<1>3. \A i \in 0..n : i \in S
  <2> HIDE DEF S
  <2> QED
    BY <1>0, <1>1, <1>2, UpTo
<1> QED
  BY <1>0, <1>3

\* Step n of the recursion of OneWay.
OneWayStep(body, d, f, n) ==
  IF n = 0 THEN <<>> ELSE IF body[n][1] = d THEN Append(f[n - 1], body[n]) ELSE f[n - 1]

\* The recursion of OneWay.
LEMMA OneWayDef ==
  ASSUME NEW body, NEW d, Len(body) \in Nat
  PROVE  \E f : /\ \A n \in 0..Len(body) : f[n] = OneWayStep(body, d, f, n)
                /\ OneWay(body, d) = f[Len(body)]
<1> DEFINE L == Len(body)
           S == {n \in 0..L : \E f : f = [i \in 0..n |-> OneWayStep(body, d, f, i)]}
           F == CHOOSE f : f = [i \in 0..L |-> OneWayStep(body, d, f, i)]
<1>1. 0 \in S
  <2> DEFINE f == [i \in 0..0 |-> <<>>]
  <2>1. f = [i \in 0..0 |-> OneWayStep(body, d, f, i)]
    BY DEF OneWayStep
  <2> QED
    BY <2>1
<1>2. ASSUME NEW n \in 1..L, n - 1 \in S PROVE n \in S
  <2>1. PICK f : f = [i \in 0..n - 1 |-> OneWayStep(body, d, f, i)]
    BY <1>2
  <2> DEFINE g == [i \in 0..n |-> IF i \in 0..n - 1 THEN f[i] ELSE OneWayStep(body, d, f, i)]
  <2>2. \A i \in 0..n : g[i] = OneWayStep(body, d, g, i)
    <3> TAKE i \in 0..n
    <3>1. i # 0 => i - 1 \in 0..n - 1 /\ g[i - 1] = f[i - 1]
      OBVIOUS
    <3>2. OneWayStep(body, d, g, i) = OneWayStep(body, d, f, i)
      BY <3>1 DEF OneWayStep
    <3>3. i \in 0..n - 1 => f[i] = OneWayStep(body, d, f, i)
      BY <2>1
    <3> QED
      BY <3>2, <3>3
  <2> HIDE DEF g
  <2>3. g = [i \in 0..n |-> OneWayStep(body, d, g, i)]
    BY <2>2 DEF g
  <2> QED
    BY <2>3
<1>3. L \in S
  <2>1. L \in Nat
    OBVIOUS
  <2> HIDE DEF S, L
  <2>2. \A n \in 0..L : n \in S
    BY <1>1, <1>2, <2>1, UpTo
  <2> QED
    BY <2>1, <2>2
<1>4. F = [i \in 0..L |-> OneWayStep(body, d, F, i)]
  BY <1>3
<1>5. OneWay(body, d) = F[L]
  BY Zenon DEF OneWay, OneWayStep
<1> HIDE DEF S, F
<1>6. \A i \in 0..L : F[i] = OneWayStep(body, d, F, i)
  BY <1>4
<1> QED
  BY <1>5, <1>6

\* One more unit.
LEMMA OneWayAppend ==
  ASSUME NEW b \in Seq(Marks), NEW u \in Marks, NEW d
  PROVE  OneWay(Append(b, u), d) = IF u[1] = d THEN Append(OneWay(b, d), u) ELSE OneWay(b, d)
<1> DEFINE c == Append(b, u)
           L == Len(b)
<1>1. c \in Seq(Marks) /\ Len(c) = L + 1 /\ c[L + 1] = u /\ L \in Nat /\ Len(c) \in Nat
      /\ \A n \in 1..L : c[n] = b[n]
  BY AppendProperties
<1> HIDE DEF c
<1>2. PICK f : /\ \A n \in 0..L : f[n] = OneWayStep(b, d, f, n)
               /\ OneWay(b, d) = f[L]
  BY <1>1, OneWayDef
<1>3. PICK g : /\ \A n \in 0..Len(c) : g[n] = OneWayStep(c, d, g, n)
               /\ OneWay(c, d) = g[Len(c)]
  BY <1>1, OneWayDef
<1> DEFINE S == {n \in 0..L : g[n] = f[n]}
<1>4. 0 \in S
  <2>1. 0 \in 0..L /\ 0 \in 0..Len(c)
    BY <1>1
  <2>2. f[0] = <<>> /\ g[0] = <<>>
    BY <1>2, <1>3, <2>1 DEF OneWayStep
  <2> QED
    BY <2>1, <2>2
<1>5. ASSUME NEW n \in 1..L, n - 1 \in S PROVE n \in S
  <2>1. n \in 0..L /\ n \in 0..Len(c) /\ n # 0 /\ c[n] = b[n] /\ g[n - 1] = f[n - 1]
    BY <1>1, <1>5
  <2>2. f[n] = OneWayStep(b, d, f, n) /\ g[n] = OneWayStep(c, d, g, n)
    BY <1>2, <1>3, <2>1
  <2>3. OneWayStep(b, d, f, n) = OneWayStep(c, d, g, n)
    BY <2>1 DEF OneWayStep
  <2> QED
    BY <2>1, <2>2, <2>3
<1>6. \A n \in 0..L : n \in S
  <2> HIDE DEF S, L
  <2> QED
    BY <1>1, <1>4, <1>5, UpTo
<1>7. g[L] = f[L]
  BY <1>1, <1>6
<1>8. g[L + 1] = OneWayStep(c, d, g, L + 1) /\ L + 1 # 0 /\ (L + 1) - 1 = L
  BY <1>1, <1>3
<1>9. OneWay(c, d) = IF u[1] = d THEN Append(OneWay(b, d), u) ELSE OneWay(b, d)
  BY <1>1, <1>2, <1>3, <1>7, <1>8 DEF OneWayStep
<1> QED
  BY <1>9 DEF c

\* A body of nothing.
LEMMA OneWayNone ==
  ASSUME NEW d PROVE OneWay(<<>>, d) = <<>>
<1>1. PICK f : /\ \A n \in 0..Len(<<>>) : f[n] = OneWayStep(<<>>, d, f, n)
               /\ OneWay(<<>>, d) = f[Len(<<>>)]
  BY OneWayDef
<1> QED
  BY <1>1 DEF OneWayStep

\* The units that go one way are units.
LEMMA OneWayIs ==
  ASSUME NEW b \in Seq(Marks), NEW d
  PROVE  OneWay(b, d) \in Seq(Marks)
<1> DEFINE L == Len(b)
<1>0. L \in Nat /\ \A n \in 1..L : b[n] \in Marks
  BY ElementOfSeq
<1>1. PICK f : /\ \A n \in 0..L : f[n] = OneWayStep(b, d, f, n)
               /\ OneWay(b, d) = f[L]
  BY <1>0, OneWayDef
<1> DEFINE S == {n \in 0..L : f[n] \in Seq(Marks)}
<1>2. 0 \in S
  <2>1. 0 \in 0..L /\ f[0] = <<>> /\ <<>> \in Seq(Marks)
    BY <1>0, <1>1 DEF OneWayStep
  <2> QED
    BY <2>1
<1>3. ASSUME NEW n \in 1..L, n - 1 \in S PROVE n \in S
  <2>1. n \in 0..L /\ n # 0 /\ f[n - 1] \in Seq(Marks) /\ b[n] \in Marks
    BY <1>0, <1>3
  <2>2. f[n] = IF b[n][1] = d THEN Append(f[n - 1], b[n]) ELSE f[n - 1]
    BY <1>1, <2>1 DEF OneWayStep
  <2>3. Append(f[n - 1], b[n]) \in Seq(Marks)
    BY <2>1, AppendProperties
  <2> QED
    BY <2>1, <2>2, <2>3
<1>4. \A n \in 0..L : n \in S
  <2> HIDE DEF S, L
  <2> QED
    BY <1>0, <1>2, <1>3, UpTo
<1> QED
  BY <1>0, <1>1, <1>4

\* The units of a frame are all of one way.
AllGo(w, e) == \A j \in 1..Len(w) : w[j][1] = e

LEMMA OneWayAdds ==
  ASSUME NEW b \in Seq(Marks), NEW e, NEW w \in Seq(Marks), AllGo(w, e), NEW d
  PROVE  OneWay(b \o w, d) = IF e = d THEN OneWay(b, d) \o w ELSE OneWay(b, d)
<1> DEFINE L == Len(w)
           C(j) == b \o SubSeq(w, 1, j)
           R(j) == IF e = d THEN OneWay(b, d) \o SubSeq(w, 1, j) ELSE OneWay(b, d)
           S == {j \in 0..L : OneWay(C(j), d) = R(j)}
<1>0. L \in Nat /\ OneWay(b, d) \in Seq(Marks) /\ \A j \in 1..L : w[j] \in Marks
  BY OneWayIs, ElementOfSeq
<1>1. 0 \in S
  <2>1. SubSeq(w, 1, 0) = <<>>
    BY SubSeqEmpty
  <2>2. b \o <<>> = b /\ OneWay(b, d) \o <<>> = OneWay(b, d)
    BY <1>0, ConcatEmptySeq
  <2>3. C(0) = b /\ R(0) = OneWay(b, d)
    BY <2>1, <2>2
  <2>4. 0 \in 0..L
    BY <1>0
  <2> HIDE DEF C, R
  <2> QED
    BY <2>3, <2>4
<1>2. ASSUME NEW j \in 1..L, j - 1 \in S PROVE j \in S
  <2> DEFINE v == SubSeq(w, 1, j - 1)
  <2>1. v \in Seq(Marks) /\ Len(v) = j - 1 /\ SubSeq(w, 1, j) = Append(v, w[j])
    <3>1. j \in Nat /\ j <= L /\ 1 <= j
      BY <1>0
    <3> QED
      BY <1>0, <3>1
  <2>2. \A a \in Seq(Marks) : a \o Append(v, w[j]) = Append(a \o v, w[j])
    BY <1>0, <2>1
  <2> HIDE DEF v
  <2>3. b \o v \in Seq(Marks) /\ w[j] \in Marks /\ w[j][1] = e
    BY <1>0, <2>1, ConcatProperties DEF AllGo
  <2>4. C(j) = Append(b \o v, w[j])
    BY <2>1, <2>2
  <2>5. OneWay(b \o v, d) = IF e = d THEN OneWay(b, d) \o v ELSE OneWay(b, d)
    BY <1>2 DEF v
  <2>6. OneWay(C(j), d) = IF e = d THEN Append(OneWay(b \o v, d), w[j]) ELSE OneWay(b \o v, d)
    <3> DEFINE a == b \o v
               u == w[j]
    <3>1. a \in Seq(Marks) /\ u \in Marks /\ u[1] = e
      BY <2>3
    <3> HIDE DEF a, u
    <3>2. OneWay(Append(a, u), d) = IF e = d THEN Append(OneWay(a, d), u) ELSE OneWay(a, d)
      BY <3>1, OneWayAppend
    <3> QED
      BY <2>4, <3>2 DEF a, u
  <2>7. e = d => Append(OneWay(b, d) \o v, w[j]) = OneWay(b, d) \o SubSeq(w, 1, j)
    BY <1>0, <2>1, <2>2
  <2>8. OneWay(C(j), d) = R(j)
    BY <2>5, <2>6, <2>7
  <2> QED
    BY <2>8
<1>3. \A j \in 0..L : j \in S
  <2> HIDE DEF S, L
  <2> QED
    BY <1>0, <1>1, <1>2, UpTo
<1>4. SubSeq(w, 1, L) = w
  BY SubSeqFull
<1>5. OneWay(C(L), d) = R(L)
  BY <1>0, <1>3
<1> QED
  BY <1>4, <1>5

-----------------------------------------------------------------------------
(***************************************************************************)
(* HTTP/2: what is said, and the table of streams.                         *)
(***************************************************************************)
\* Frames of HTTP/2 whose header blocks are whole.
Http2Frames == [kind : {"preface", "headers", "data", "other"}, len : Nat \ {0}, after : Nat,
                stream : Nat, ends : BOOLEAN, final : BOOLEAN,
                head : {"regular", "odd", "status", "trailer"}, overlaps : BOOLEAN]

\* Frame i of a direction belongs to the request or the response on stream x.
OnStream(t, d, x, i) == t[d][i].kind \in {"headers", "data"} /\ t[d][i].stream = x

\* Among the first n frames there is one of stream x, and one that ends it.
Begun2(t, d, x, n) == \E i \in 1..n : OnStream(t, d, x, i)
IsStatus(t, i) == t["out"][i].kind = "headers" /\ t["out"][i].head = "status"
IsLast(t, d, i) ==
  t[d][i].ends \/ (d = "out" /\ t[d][i].kind = "headers" /\ t[d][i].head = "trailer")
Over(t, d, x, n) == \E i \in 1..n : OnStream(t, d, x, i) /\ IsLast(t, d, i)

\* The response on stream x is not announced to overlap the request.
Apart(t, x) == \E i \in 1..Len(t["out"]) : OnStream(t, "out", x, i) /\ ~t["out"][i].overlaps

\* Stream x carries the request that begins with frame q, and its response.
RequestOn(t, x, q) ==
  /\ q \in 1..Len(t["in"]) /\ OnStream(t, "in", x, q)
  /\ t["in"][q].kind = "headers" /\ t["in"][q].head \in {"regular", "odd"}
  /\ \A i \in 1..Len(t["in"]) : OnStream(t, "in", x, i) =>
       /\ i = q \/ (i > q /\ t["in"][i].kind = "data")
       /\ \A j \in i + 1..Len(t["in"]) : OnStream(t, "in", x, j) => ~IsLast(t, "in", i)

ResponseOn(t, x, q) ==
  \A i \in 1..Len(t["out"]) : OnStream(t, "out", x, i) =>
    /\ t["out"][i].after >= q
    /\ t["out"][i].kind = "headers" => t["out"][i].head \in {"status", "trailer"}
    /\ ~IsStatus(t, i) => \E j \in 1..i - 1 : OnStream(t, "out", x, j) /\ IsStatus(t, j)
    /\ \A j \in i + 1..Len(t["out"]) : OnStream(t, "out", x, j) =>
         ~IsLast(t, "out", i) /\ (IsStatus(t, j) => IsStatus(t, i))
    /\ Apart(t, x) =>
         \E e \in 1..t["out"][i].after :
           /\ e <= Len(t["in"]) /\ OnStream(t, "in", x, e) /\ t["in"][e].ends
           /\ e = q \/ t["in"][q].head = "regular"

\* Stream x is not used, or carries one request and its response.
Exchange(t, x) ==
  \/ ~Begun2(t, "in", x, Len(t["in"])) /\ ~Begun2(t, "out", x, Len(t["out"]))
  \/ \E q \in 1..Len(t["in"]) : RequestOn(t, x, q) /\ ResponseOn(t, x, q)

\* A conversation over HTTP/2 whose preface the peek has seen: the preface is the
\* client's first frame, header blocks are whole, and every stream carries at most one
\* exchange.
Http2(t) ==
  /\ t.ver = "h2" /\ t.marked
  /\ \A d \in Directions : t[d] \in Seq(Http2Frames) /\ Unfinished(t, d) = {}
  /\ \A d \in Directions : \A i \in 1..Len(t[d]) :
       t[d][i].kind = "preface" <=> d = "in" /\ i = 1
  /\ \A x \in Nat : Exchange(t, x)

\* What the table has of stream x after m frames of the client and n to it.
EntryIs(t, x, e, m, n) ==
  /\ ~Begun2(t, "in", x, m) /\ ~Begun2(t, "out", x, n) => e = NewStream
  /\ Begun2(t, "in", x, m) /\ ~Over(t, "in", x, m) /\ ~Begun2(t, "out", x, n) =>
       \E q \in 1..m : RequestOn(t, x, q) /\ e.head = t["in"][q].head
  /\ ~Over(t, "out", x, n) =>
       /\ OneWay(e.body, "out") = DataOf(t, "out", x, n)
       /\ Begun2(t, "out", x, n) => e.head = "status"
       /\ Apart(t, x) /\ Over(t, "in", x, m) => e.body = DataOf(t, "out", x, n)

\* What is in the table.
Entries == [head : {None, "regular", "odd", "status", "trailer"}, body : Seq(Marks)]

\* n frames to the client answer only what is among m of its own.
Answered(t, m, n) == \A i \in 1..n : t["out"][i].after <= m

LEMMA Http2Is ==
  ASSUME NEW t, Http2(t)
  PROVE  /\ t.ver = "h2" /\ Spoken(t) /\ "in" \in Directions /\ "out" \in Directions
         /\ \A d \in Directions : \A i \in 1..Len(t[d]) :
              /\ t[d][i] \in Http2Frames
              /\ t[d][i].kind = "headers" => t[d][i].final
              /\ t[d][i].kind = "preface" <=> d = "in" /\ i = 1
<1>1. "in" \in Directions /\ "out" \in Directions /\ t.ver = "h2"
  BY DEF Directions, Http2
<1>2. ASSUME NEW d \in Directions
      PROVE  /\ Len(t[d]) \in Nat /\ DOMAIN t[d] = 1..Len(t[d])
             /\ \A i \in 1..Len(t[d]) : t[d][i] \in Http2Frames
  <2>1. t[d] \in Seq(Http2Frames)
    BY DEF Http2
  <2> QED
    BY <2>1, LenProperties, ElementOfSeq
<1>3. ASSUME NEW d \in Directions, NEW i \in 1..Len(t[d])
      PROVE  /\ t[d][i].len \in Nat \ {0}
             /\ t[d][i].kind = "headers" => t[d][i].final
             /\ t[d][i].kind = "preface" <=> d = "in" /\ i = 1
  <2>1. t[d][i].len \in Nat \ {0}
    BY <1>2 DEF Http2Frames
  <2>2. Unfinished(t, d) = {} /\ i \in DOMAIN t[d]
    BY <1>2 DEF Http2
  <2>3. t[d][i].kind = "headers" => t[d][i].final
    BY <2>2 DEF Unfinished
  <2>4. t[d][i].kind = "preface" <=> d = "in" /\ i = 1
    BY DEF Http2
  <2> QED
    BY <2>1, <2>3, <2>4
<1> QED
  BY <1>1, <1>2, <1>3 DEF Spoken

\* One frame more.
LEMMA BegunNext ==
  ASSUME NEW t, NEW d, NEW x, NEW n \in Nat
  PROVE  /\ Begun2(t, d, x, n + 1) <=> Begun2(t, d, x, n) \/ OnStream(t, d, x, n + 1)
         /\ Over(t, d, x, n + 1) <=>
              Over(t, d, x, n) \/ (OnStream(t, d, x, n + 1) /\ IsLast(t, d, n + 1))
         /\ Over(t, d, x, n) => Begun2(t, d, x, n)
<1>1. \A i : i \in 1..n + 1 <=> i \in 1..n \/ i = n + 1
  OBVIOUS
<1> QED
  BY <1>1, Zenon DEF Begun2, Over

\* A stream that is used has a request.
LEMMA StreamHas ==
  ASSUME NEW t, Http2(t), NEW x \in Nat, NEW d \in Directions,
         NEW i \in 1..Len(t[d]), OnStream(t, d, x, i)
  PROVE  \E q : RequestOn(t, x, q) /\ ResponseOn(t, x, q)
<1>1. Begun2(t, d, x, Len(t[d]))
  BY DEF Begun2
<1>2. Exchange(t, x) /\ d \in {"in", "out"}
  BY DEF Http2, Directions
<1> QED
  BY <1>1, <1>2 DEF Exchange

\* Where a request has not come there is no answer; where it has not ended, none that
\* is not announced to overlap it.
LEMMA NoAnswer ==
  ASSUME NEW t, Http2(t), NEW x, NEW q, RequestOn(t, x, q), ResponseOn(t, x, q),
         NEW m \in Nat, NEW n \in Nat, n <= Len(t["out"]), Answered(t, m, n)
  PROVE  /\ m < q => ~Begun2(t, "out", x, n)
         /\ Apart(t, x) /\ ~Over(t, "in", x, m) => ~Begun2(t, "out", x, n)
<1>0. "out" \in Directions /\ Len(t["out"]) \in Nat /\ q \in Nat
  BY Http2Is DEF Spoken, RequestOn
<1>1. ASSUME NEW i \in 1..n, OnStream(t, "out", x, i)
      PROVE  ~(m < q) /\ (Apart(t, x) => Over(t, "in", x, m))
  <2>1. i \in 1..Len(t["out"]) /\ t["out"][i].after <= m /\ t["out"][i].after >= q
    BY <1>0, <1>1 DEF Answered, ResponseOn
  <2>2. t["out"][i].after \in Nat
    BY <1>0, <2>1, Http2Is DEF Http2Frames
  <2>3. ASSUME Apart(t, x) PROVE Over(t, "in", x, m)
    <3>1. PICK e \in 1..t["out"][i].after : OnStream(t, "in", x, e) /\ t["in"][e].ends
      BY <1>1, <2>1, <2>3 DEF ResponseOn
    <3>2. e \in 1..m
      BY <2>1, <2>2
    <3> QED
      BY <3>1, <3>2 DEF Over, IsLast
  <2> QED
    BY <1>0, <2>1, <2>2, <2>3
<1> QED
  BY <1>1 DEF Begun2

\* The request of a stream is the only one.
LEMMA RequestOnly ==
  ASSUME NEW t, NEW x, NEW q, RequestOn(t, x, q), NEW r, RequestOn(t, x, r)
  PROVE  r = q
BY DEF RequestOn

\* A frame of something else.
LEMMA InElse ==
  ASSUME NEW t, NEW x, NEW m \in Nat, NEW n, ~OnStream(t, "in", x, m + 1),
         NEW e, EntryIs(t, x, e, m, n)
  PROVE  EntryIs(t, x, e, m + 1, n)
<1>1. /\ Begun2(t, "in", x, m + 1) <=> Begun2(t, "in", x, m)
      /\ Over(t, "in", x, m + 1) <=> Over(t, "in", x, m)
  BY BegunNext
<1>2. \A q \in 1..m : q \in 1..m + 1
  OBVIOUS
<1> QED
  BY <1>1, <1>2, Zenon DEF EntryIs

LEMMA OutElse ==
  ASSUME NEW t, Http2(t), NEW x, NEW m, NEW n \in Nat, n + 1 \in 1..Len(t["out"]),
         ~OnStream(t, "out", x, n + 1), NEW e, EntryIs(t, x, e, m, n)
  PROVE  EntryIs(t, x, e, m, n + 1)
<1>1. /\ Begun2(t, "out", x, n + 1) <=> Begun2(t, "out", x, n)
      /\ Over(t, "out", x, n + 1) <=> Over(t, "out", x, n)
  BY BegunNext
<1>2. DataOf(t, "out", x, n + 1) = DataOf(t, "out", x, n)
  <2>1. "out" \in Directions /\ Spoken(t) /\ (n + 1) - 1 = n
    BY Http2Is
  <2> QED
    BY <2>1, DataNext DEF OnStream
<1> QED
  BY <1>1, <1>2, Zenon DEF EntryIs

\* Nothing has been answered on the stream.
LEMMA Unanswered ==
  ASSUME NEW t, Http2(t), NEW x, NEW n \in Nat, n <= Len(t["out"]), ~Begun2(t, "out", x, n)
  PROVE  ~Over(t, "out", x, n) /\ DataOf(t, "out", x, n) = <<>>
<1>1. "out" \in Directions /\ Spoken(t) /\ Len(t["out"]) \in Nat /\ n \in 0..Len(t["out"])
  BY Http2Is DEF Spoken
<1>2. \A i \in 1..n : ~OnStream(t, "out", x, i)
  BY DEF Begun2
<1>3. DataOf(t, "out", x, n) = <<>>
  BY <1>1, <1>2, DataOfNone DEF OnStream
<1> QED
  BY <1>2, <1>3 DEF Over

\* The header block of a request.
LEMMA InHeaders ==
  ASSUME NEW t, Http2(t), NEW x \in Nat, NEW m \in Nat, m + 1 \in 1..Len(t["in"]),
         NEW n \in Nat, n <= Len(t["out"]), Answered(t, m, n),
         OnStream(t, "in", x, m + 1), NEW f, f = t["in"][m + 1], f.kind = "headers",
         NEW e \in Entries, EntryIs(t, x, e, m, n), NEW st, st = [e EXCEPT !.head = f.head]
  PROVE  /\ e = NewStream /\ st \in Entries /\ st.body = <<>>
         /\ IF f.ends /\ f.head \in {"regular"}
            THEN EntryIs(t, x, NewStream, m + 1, n) ELSE EntryIs(t, x, st, m + 1, n)
<1>0. "in" \in Directions /\ f \in Http2Frames
  BY Http2Is
<1>1. PICK q : RequestOn(t, x, q) /\ ResponseOn(t, x, q)
  BY <1>0, StreamHas
<1>2. q = m + 1 /\ f.head \in {"regular", "odd"}
  BY <1>1 DEF RequestOn
<1>3. ~Begun2(t, "out", x, n)
  BY <1>1, <1>2, NoAnswer
<1>4. ~Over(t, "out", x, n) /\ DataOf(t, "out", x, n) = <<>>
  BY <1>3, Unanswered
<1>5. ~Begun2(t, "in", x, m) /\ ~Over(t, "in", x, m)
  <2>1. ASSUME NEW i \in 1..m, OnStream(t, "in", x, i) PROVE FALSE
    <3>1. i \in 1..Len(t["in"]) /\ i < q
      BY <1>2
    <3> QED
      BY <1>1, <2>1, <3>1 DEF RequestOn
  <2> QED
    BY <2>1 DEF Begun2, Over
<1>6. e = NewStream
  BY <1>3, <1>5 DEF EntryIs
<1>7. st = [head |-> f.head, body |-> <<>>]
  BY <1>6 DEF NewStream
<1>8. st \in Entries /\ st.body = <<>> /\ st.head = f.head /\ NewStream.body = <<>>
  <2>1. <<>> \in Seq(Marks)
    BY EmptySeq
  <2>2. f.head \in {None, "regular", "odd", "status", "trailer"}
    BY <1>2
  <2>3. [head |-> f.head, body |-> <<>>] \in Entries
    BY <2>1, <2>2 DEF Entries
  <2>4. NewStream.body = <<>>
    BY DEF NewStream
  <2>5. st \in Entries
    BY <1>7, <2>3
  <2>6. st.body = <<>> /\ st.head = f.head
    BY <1>7
  <2> QED
    BY <2>4, <2>5, <2>6
<1>9. Over(t, "in", x, m + 1) <=> f.ends
  BY <1>5, BegunNext DEF IsLast
<1>10. OneWay(<<>>, "out") = <<>>
  BY OneWayNone
<1>11. m + 1 \in 1..m + 1
  OBVIOUS
<1>12. Begun2(t, "in", x, m + 1)
  BY BegunNext
<1>13. ASSUME NEW y, y.body = <<>>, y.head = f.head \/ f.ends PROVE EntryIs(t, x, y, m + 1, n)
  BY <1>1, <1>2, <1>3, <1>4, <1>9, <1>10, <1>11, <1>12, <1>13, Zenon DEF EntryIs
<1> QED
  BY <1>6, <1>8, <1>13

\* A part of the body of a request.
LEMMA InData ==
  ASSUME NEW t, Http2(t), NEW x \in Nat, NEW m \in Nat, m + 1 \in 1..Len(t["in"]),
         NEW n \in Nat, n <= Len(t["out"]), Answered(t, m, n),
         OnStream(t, "in", x, m + 1), t["in"][m + 1].kind = "data",
         NEW e \in Entries, EntryIs(t, x, e, m, n),
         NEW st, st = [e EXCEPT !.body = @ \o OwnUnits(t, "in", m + 1)]
  PROVE  /\ st \in Entries /\ st.head = e.head
         /\ IF t["in"][m + 1].ends /\ st.head \in {"regular"}
            THEN EntryIs(t, x, NewStream, m + 1, n) ELSE EntryIs(t, x, st, m + 1, n)
<1> DEFINE f == t["in"][m + 1]
           w == OwnUnits(t, "in", m + 1)
<1>0. "in" \in Directions /\ Spoken(t) /\ f \in Http2Frames
  BY Http2Is
<1>1. PICK q : RequestOn(t, x, q) /\ ResponseOn(t, x, q)
  BY <1>0, StreamHas
<1>2. /\ q \in 1..m /\ ~Over(t, "in", x, m) /\ Begun2(t, "in", x, m)
      /\ ~t["in"][q].ends
  <2>1. q \in 1..Len(t["in"]) /\ m + 1 > q /\ OnStream(t, "in", x, q)
    BY <1>1 DEF RequestOn
  <2>2. q \in 1..m
    BY <2>1
  <2>3. ASSUME NEW i \in 1..m, OnStream(t, "in", x, i) PROVE ~IsLast(t, "in", i)
    <3>1. i \in 1..Len(t["in"]) /\ m + 1 \in i + 1..Len(t["in"])
      OBVIOUS
    <3> QED
      BY <1>1, <2>3, <3>1 DEF RequestOn
  <2> QED
    BY <2>1, <2>2, <2>3 DEF Over, Begun2, IsLast
<1>3. /\ w \in Seq(Marks) /\ AllGo(w, "in")
  BY <1>0, OwnUnitsAre DEF AllGo
<1>4. e.body \in Seq(Marks) /\ e.body \o w \in Seq(Marks)
      /\ e.head \in {None, "regular", "odd", "status", "trailer"}
  BY <1>3, ConcatProperties DEF Entries
<1>5. OneWay(e.body \o w, "out") = OneWay(e.body, "out")
  <2> DEFINE b == e.body
             k == "in"
  <2>1. b \in Seq(Marks) /\ w \in Seq(Marks) /\ AllGo(w, k)
    BY <1>3, <1>4
  <2> HIDE DEF w, b, k
  <2>2. OneWay(b \o w, "out") = IF k = "out" THEN OneWay(b, "out") \o w ELSE OneWay(b, "out")
    BY <2>1, OneWayAdds
  <2> QED
    BY <2>2 DEF b, k
<1> HIDE DEF w
<1>6. st.head = e.head /\ st.body = e.body \o w /\ st \in Entries
  <2>1. e.body \o w \in Seq(Marks) /\ st = [e EXCEPT !.body = e.body \o w]
    BY <1>4 DEF w
  <2> QED
    BY <2>1 DEF Entries
<1>7. Begun2(t, "in", x, m + 1) /\ (Over(t, "in", x, m + 1) <=> f.ends)
  BY <1>2, BegunNext DEF IsLast
<1>8. ~Begun2(t, "out", x, n) => /\ e.head = t["in"][q].head
                                 /\ ~Over(t, "out", x, n) /\ DataOf(t, "out", x, n) = <<>>
  <2> SUFFICES ASSUME ~Begun2(t, "out", x, n)
               PROVE  e.head = t["in"][q].head
    BY Unanswered
  <2>1. PICK r \in 1..m : RequestOn(t, x, r) /\ e.head = t["in"][r].head
    BY <1>2 DEF EntryIs
  <2> QED
    BY <1>1, <2>1, RequestOnly
<1>9. CASE f.ends /\ st.head \in {"regular"}
  <2>1. ASSUME ~Over(t, "out", x, n) PROVE ~Begun2(t, "out", x, n)
    BY <1>6, <1>9, <2>1 DEF EntryIs
  <2>2. NewStream.body = <<>> /\ OneWay(<<>>, "out") = <<>>
    BY OneWayNone DEF NewStream
  <2>3. EntryIs(t, x, NewStream, m + 1, n)
    BY <1>7, <1>8, <1>9, <2>1, <2>2, Zenon DEF EntryIs
  <2> QED
    BY <1>6, <1>9, <2>3
<1>10. CASE ~(f.ends /\ st.head \in {"regular"})
  <2>1. ASSUME ~Over(t, "in", x, m + 1), ~Begun2(t, "out", x, n)
        PROVE  \E r \in 1..m + 1 : RequestOn(t, x, r) /\ st.head = t["in"][r].head
    <3>1. q \in 1..m + 1
      BY <1>2
    <3> QED
      BY <1>1, <1>6, <1>8, <2>1, <3>1
  <2>2. ASSUME ~Over(t, "out", x, n)
        PROVE  /\ OneWay(st.body, "out") = DataOf(t, "out", x, n)
               /\ Begun2(t, "out", x, n) => st.head = "status"
    BY <1>5, <1>6, <2>2 DEF EntryIs
  <2>3. ASSUME Apart(t, x), Over(t, "in", x, m + 1) PROVE FALSE
    <3>1. ~Begun2(t, "out", x, n)
      BY <1>1, <1>2, <2>3, NoAnswer
    <3>2. PICK i \in 1..Len(t["out"]) : OnStream(t, "out", x, i)
      BY <2>3 DEF Apart
    <3>3. PICK k \in 1..t["out"][i].after :
            /\ k <= Len(t["in"]) /\ OnStream(t, "in", x, k) /\ t["in"][k].ends
            /\ k = q \/ t["in"][q].head = "regular"
      BY <1>1, <2>3, <3>2 DEF ResponseOn
    <3>4. t["in"][q].head = "regular"
      BY <1>2, <3>3
    <3> QED
      BY <1>6, <1>7, <1>8, <1>10, <2>3, <3>1, <3>4
  <2>4. EntryIs(t, x, st, m + 1, n)
    BY <1>7, <2>1, <2>2, <2>3, Zenon DEF EntryIs
  <2> QED
    BY <1>6, <1>10, <2>4
<1> QED
  BY <1>9, <1>10

\* What is known when a frame of a response comes: it is not the last, and if it is
\* not announced to overlap its request, that has ended.
LEMMA OutFacts ==
  ASSUME NEW t, Http2(t), NEW x \in Nat, NEW m \in Nat, NEW n \in Nat,
         n + 1 \in 1..Len(t["out"]), Answered(t, m, n + 1), OnStream(t, "out", x, n + 1),
         NEW e, EntryIs(t, x, e, m, n)
  PROVE  /\ ~Over(t, "out", x, n) /\ Begun2(t, "out", x, n + 1)
         /\ Over(t, "out", x, n + 1) <=> IsLast(t, "out", n + 1)
         /\ OneWay(e.body, "out") = DataOf(t, "out", x, n)
         /\ ~t["out"][n + 1].overlaps => e.body = DataOf(t, "out", x, n)
         /\ Apart(t, x) => e.body = DataOf(t, "out", x, n)
         /\ t["out"][n + 1].kind = "headers" => t["out"][n + 1].head \in {"status", "trailer"}
         /\ IsStatus(t, n + 1) => \A i \in 1..n : OnStream(t, "out", x, i) => IsStatus(t, i)
         /\ ~IsStatus(t, n + 1) => e.head = "status"
<1> DEFINE f == t["out"][n + 1]
<1>0. "out" \in Directions /\ Spoken(t) /\ Len(t["out"]) \in Nat /\ f \in Http2Frames
  BY Http2Is DEF Spoken
<1>1. PICK q : RequestOn(t, x, q) /\ ResponseOn(t, x, q)
  BY <1>0, StreamHas
<1>2. ASSUME NEW i \in 1..n, OnStream(t, "out", x, i)
      PROVE  ~IsLast(t, "out", i) /\ (IsStatus(t, n + 1) => IsStatus(t, i))
  <2>1. i \in 1..Len(t["out"]) /\ n + 1 \in i + 1..Len(t["out"])
    BY <1>0
  <2> QED
    BY <1>1, <1>2, <2>1 DEF ResponseOn
<1>3. ~Over(t, "out", x, n) /\ Begun2(t, "out", x, n + 1)
      /\ (Over(t, "out", x, n + 1) <=> IsLast(t, "out", n + 1))
  <2>1. ~Over(t, "out", x, n)
    BY <1>2 DEF Over
  <2> QED
    BY <2>1, BegunNext
<1>4. OneWay(e.body, "out") = DataOf(t, "out", x, n)
  BY <1>3 DEF EntryIs
<1>5. ASSUME Apart(t, x) PROVE e.body = DataOf(t, "out", x, n)
  <2>1. f.after \in Nat /\ f.after <= m
    BY <1>0 DEF Http2Frames, Answered
  <2>2. PICK k \in 1..f.after : OnStream(t, "in", x, k) /\ t["in"][k].ends
    BY <1>1, <1>5 DEF ResponseOn
  <2>3. k \in 1..m
    BY <2>1
  <2>4. Over(t, "in", x, m)
    BY <2>2, <2>3 DEF Over, IsLast
  <2> QED
    BY <1>3, <1>5, <2>4 DEF EntryIs
<1>6. ~f.overlaps => Apart(t, x)
  BY DEF Apart
<1>7. f.kind = "headers" => f.head \in {"status", "trailer"}
  BY <1>1 DEF ResponseOn
<1>8. ASSUME ~IsStatus(t, n + 1) PROVE e.head = "status"
  <2>1. \E j \in 1..(n + 1) - 1 : OnStream(t, "out", x, j)
    BY <1>1, <1>8 DEF ResponseOn
  <2>2. (n + 1) - 1 = n
    OBVIOUS
  <2>3. Begun2(t, "out", x, n)
    BY <2>1, <2>2 DEF Begun2
  <2> QED
    BY <1>3, <2>3 DEF EntryIs
<1> QED
  BY <1>2, <1>3, <1>4, <1>5, <1>6, <1>7, <1>8

\* The header block of a response, or its trailer.
LEMMA OutHeaders ==
  ASSUME NEW t, Http2(t), NEW x \in Nat, NEW m \in Nat, NEW n \in Nat,
         n + 1 \in 1..Len(t["out"]), Answered(t, m, n + 1), OnStream(t, "out", x, n + 1),
         NEW f, f = t["out"][n + 1], f.kind = "headers",
         NEW e \in Entries, EntryIs(t, x, e, m, n), NEW st, st = [e EXCEPT !.head = f.head]
  PROVE  /\ st \in Entries /\ st.body = e.body
         /\ f.head # "trailer" =>
              e.body = <<>> \/ (f.overlaps /\ OneWay(e.body, "out") = <<>>)
         /\ IF f.ends /\ f.head \in {"regular", "status"}
            THEN f.head # "trailer" /\ EntryIs(t, x, NewStream, m, n + 1)
            ELSE EntryIs(t, x, st, m, n + 1)
<1>0. "out" \in Directions /\ Spoken(t) /\ Len(t["out"]) \in Nat
      /\ n \in 0..Len(t["out"]) /\ n + 1 \in 1..Len(t["out"]) /\ n + 1 - 1 = n
  BY Http2Is DEF Spoken
<1>1. /\ ~Over(t, "out", x, n) /\ Begun2(t, "out", x, n + 1)
      /\ Over(t, "out", x, n + 1) <=> IsLast(t, "out", n + 1)
      /\ OneWay(e.body, "out") = DataOf(t, "out", x, n)
      /\ ~f.overlaps => e.body = DataOf(t, "out", x, n)
      /\ Apart(t, x) => e.body = DataOf(t, "out", x, n)
      /\ f.head \in {"status", "trailer"}
      /\ IsStatus(t, n + 1) => \A i \in 1..n : OnStream(t, "out", x, i) => IsStatus(t, i)
  BY OutFacts
<1>2. st.head = f.head /\ st.body = e.body /\ st \in Entries
  BY <1>1 DEF Entries
<1>3. IsStatus(t, n + 1) <=> f.head = "status"
  BY DEF IsStatus
<1>4. IsLast(t, "out", n + 1) <=> f.ends \/ f.head = "trailer"
  BY DEF IsLast
<1>5. ASSUME f.head = "status" PROVE DataOf(t, "out", x, n) = <<>>
  <2>1. \A i \in 1..n : ~(t["out"][i].kind = "data" /\ t["out"][i].stream = x)
    BY <1>1, <1>3, <1>5 DEF OnStream, IsStatus
  <2> QED
    BY <1>0, <2>1, DataOfNone
<1>6. DataOf(t, "out", x, n + 1) = DataOf(t, "out", x, n)
  BY <1>0, DataNext
<1>7. CASE f.ends /\ f.head \in {"regular", "status"}
  <2>1. f.head = "status" /\ Over(t, "out", x, n + 1)
    BY <1>1, <1>4, <1>7
  <2>2. EntryIs(t, x, NewStream, m, n + 1)
    BY <1>1, <2>1, Zenon DEF EntryIs
  <2> QED
    BY <1>1, <1>2, <1>5, <1>7, <2>1, <2>2
<1>8. CASE ~(f.ends /\ f.head \in {"regular", "status"})
  <2>1. ~Over(t, "out", x, n + 1) => f.head = "status"
    BY <1>1, <1>4
  <2>2. EntryIs(t, x, st, m, n + 1)
    BY <1>1, <1>2, <1>6, <2>1, Zenon DEF EntryIs
  <2> QED
    BY <1>1, <1>2, <1>5, <1>8, <2>2
<1> QED
  BY <1>7, <1>8

\* A part of the body of a response.
LEMMA OutData ==
  ASSUME NEW t, Http2(t), NEW x \in Nat, NEW m \in Nat, NEW n \in Nat,
         n + 1 \in 1..Len(t["out"]), Answered(t, m, n + 1), OnStream(t, "out", x, n + 1),
         NEW f, f = t["out"][n + 1], f.kind = "data",
         NEW e \in Entries, EntryIs(t, x, e, m, n),
         NEW st, st = [e EXCEPT !.body = @ \o OwnUnits(t, "out", n + 1)]
  PROVE  /\ st \in Entries /\ st.head = "status"
         /\ \/ st.body = DataOf(t, "out", x, n + 1)
            \/ f.overlaps /\ OneWay(st.body, "out") = DataOf(t, "out", x, n + 1)
         /\ IF f.ends THEN EntryIs(t, x, NewStream, m, n + 1) ELSE EntryIs(t, x, st, m, n + 1)
<1> DEFINE w == OwnUnits(t, "out", n + 1)
<1>0. "out" \in Directions /\ Spoken(t) /\ Len(t["out"]) \in Nat
      /\ n \in 0..Len(t["out"]) /\ n + 1 \in 1..Len(t["out"]) /\ n + 1 - 1 = n
  BY Http2Is DEF Spoken
<1>1. /\ ~Over(t, "out", x, n) /\ Begun2(t, "out", x, n + 1)
      /\ Over(t, "out", x, n + 1) <=> IsLast(t, "out", n + 1)
      /\ OneWay(e.body, "out") = DataOf(t, "out", x, n)
      /\ ~f.overlaps => e.body = DataOf(t, "out", x, n)
      /\ Apart(t, x) => e.body = DataOf(t, "out", x, n)
      /\ ~IsStatus(t, n + 1) => e.head = "status"
  BY OutFacts
<1>2. e.head = "status" /\ (IsLast(t, "out", n + 1) <=> f.ends)
  BY <1>1 DEF IsStatus, IsLast
<1>3. /\ w \in Seq(Marks) /\ AllGo(w, "out")
  BY <1>0, OwnUnitsAre DEF AllGo
<1>4. e.body \in Seq(Marks) /\ e.body \o w \in Seq(Marks)
  BY <1>3, ConcatProperties DEF Entries
<1>5. DataOf(t, "out", x, n + 1) = DataOf(t, "out", x, n) \o w
  BY <1>0, DataNext DEF OnStream
<1>6. OneWay(e.body \o w, "out") = DataOf(t, "out", x, n) \o w
  <2> DEFINE b == e.body
             k == "out"
  <2>1. b \in Seq(Marks) /\ w \in Seq(Marks) /\ AllGo(w, k)
    BY <1>3, <1>4
  <2> HIDE DEF w, b, k
  <2>2. OneWay(b \o w, "out") = IF k = "out" THEN OneWay(b, "out") \o w ELSE OneWay(b, "out")
    BY <2>1, OneWayAdds
  <2> QED
    BY <1>1, <2>2 DEF b, k
<1> HIDE DEF w
<1>7. st.head = "status" /\ st.body = e.body \o w /\ st \in Entries
  <2>1. e.body \o w \in Seq(Marks) /\ st = [e EXCEPT !.body = e.body \o w]
    BY <1>4 DEF w
  <2> QED
    BY <1>2, <2>1 DEF Entries
<1>8. \/ st.body = DataOf(t, "out", x, n + 1)
      \/ f.overlaps /\ OneWay(st.body, "out") = DataOf(t, "out", x, n + 1)
  BY <1>1, <1>5, <1>6, <1>7
<1>9. CASE f.ends
  <2>1. EntryIs(t, x, NewStream, m, n + 1)
    BY <1>1, <1>2, <1>9, Zenon DEF EntryIs
  <2> QED
    BY <1>7, <1>8, <1>9, <2>1
<1>10. CASE ~f.ends
  <2>1. OneWay(st.body, "out") = DataOf(t, "out", x, n + 1)
        /\ (Apart(t, x) => st.body = DataOf(t, "out", x, n + 1))
    BY <1>1, <1>5, <1>6, <1>7
  <2>2. EntryIs(t, x, st, m, n + 1)
    BY <1>1, <1>7, <2>1, Zenon DEF EntryIs
  <2> QED
    BY <1>7, <1>8, <1>10, <2>2
<1> QED
  BY <1>9, <1>10

Tables == UNION {[X -> Entries] : X \in SUBSET Nat}
H2Decoders == [in : Seq(Marks), out : Seq(Marks), prefaced : BOOLEAN, streams : Tables,
               partial : {None}]

\* An entry is put into the table, or taken out.
LEMMA TableIs ==
  ASSUME NEW o \in H2Decoders, NEW x \in Nat
  PROVE  StreamOf(o, x) \in Entries
<1>1. NewStream \in Entries
  <2>1. <<>> \in Seq(Marks)
    BY EmptySeq
  <2> QED
    BY <2>1 DEF NewStream, Entries
<1>2. PICK X \in SUBSET Nat : o.streams \in [X -> Entries]
  BY DEF H2Decoders, Tables
<1>3. x \in DOMAIN o.streams => o.streams[x] \in Entries
  BY <1>2
<1> QED
  BY <1>1, <1>3 DEF StreamOf

LEMMA SameBut ==
  ASSUME NEW o \in H2Decoders, NEW f \in Tables, NEW p, p = [o EXCEPT !.streams = f]
  PROVE  /\ p \in H2Decoders /\ p.streams = f /\ p.prefaced = o.prefaced
         /\ \A d \in Directions : p[d] = o[d]
<1>1. p \in H2Decoders /\ p.streams = f /\ p.prefaced = o.prefaced
  BY DEF H2Decoders
<1>2. p["in"] = o["in"] /\ p["out"] = o["out"]
  BY DEF H2Decoders
<1> QED
  BY <1>1, <1>2 DEF Directions

LEMMA TableWith ==
  ASSUME NEW o \in H2Decoders, NEW s \in Nat, NEW e \in Entries, NEW p, p = With(o, s, e)
  PROVE  /\ p \in H2Decoders /\ p.prefaced = o.prefaced /\ \A d \in Directions : p[d] = o[d]
         /\ StreamOf(p, s) = e
         /\ \A x : x # s => StreamOf(p, x) = StreamOf(o, x)
<1> DEFINE D == DOMAIN o.streams
           f == [x \in D \cup {s} |-> IF x = s THEN e ELSE o.streams[x]]
<1>1. PICK X \in SUBSET Nat : o.streams \in [X -> Entries]
  BY DEF H2Decoders, Tables
<1>2. f \in [X \cup {s} -> Entries] /\ X \cup {s} \in SUBSET Nat
  BY <1>1
<1>3. f \in Tables
  BY <1>2 DEF Tables
<1>4. p = [o EXCEPT !.streams = f]
  BY DEF With
<1>5. DOMAIN f = D \cup {s} /\ f[s] = e /\ \A x \in D : x # s => f[x] = o.streams[x]
  OBVIOUS
<1> HIDE DEF f, D
<1>6. p.streams = f /\ p \in H2Decoders /\ p.prefaced = o.prefaced /\ \A d \in Directions : p[d] = o[d]
  BY <1>3, <1>4, SameBut
<1>7. \A x : StreamOf(p, x) = IF x \in D \cup {s} THEN f[x] ELSE NewStream
  BY <1>5, <1>6 DEF StreamOf
<1>8. \A x : StreamOf(o, x) = IF x \in D THEN o.streams[x] ELSE NewStream
  BY DEF StreamOf, D
<1>9. ASSUME NEW x, x # s PROVE StreamOf(p, x) = StreamOf(o, x)
  <2>1. CASE x \in D
    BY <1>5, <1>7, <1>8, <1>9, <2>1
  <2>2. CASE x \notin D
    BY <1>7, <1>8, <1>9, <2>2
  <2> QED
    BY <2>1, <2>2
<1> QED
  BY <1>5, <1>6, <1>7, <1>9

LEMMA TableWithout ==
  ASSUME NEW o \in H2Decoders, NEW s, NEW p, p = Without(o, s)
  PROVE  /\ p \in H2Decoders /\ p.prefaced = o.prefaced /\ \A d \in Directions : p[d] = o[d]
         /\ StreamOf(p, s) = NewStream
         /\ \A x : x # s => StreamOf(p, x) = StreamOf(o, x)
<1> DEFINE D == DOMAIN o.streams
           f == [x \in D \ {s} |-> o.streams[x]]
<1>1. PICK X \in SUBSET Nat : o.streams \in [X -> Entries]
  BY DEF H2Decoders, Tables
<1>2. f \in [X \ {s} -> Entries] /\ X \ {s} \in SUBSET Nat
  BY <1>1
<1>3. f \in Tables
  BY <1>2 DEF Tables
<1>4. p = [o EXCEPT !.streams = f]
  BY DEF Without
<1>5. DOMAIN f = D \ {s} /\ \A x \in D : x # s => f[x] = o.streams[x]
  OBVIOUS
<1> HIDE DEF f, D
<1>6. p.streams = f /\ p \in H2Decoders /\ p.prefaced = o.prefaced /\ \A d \in Directions : p[d] = o[d]
  BY <1>3, <1>4, SameBut
<1>7. \A x : StreamOf(p, x) = IF x \in D \ {s} THEN f[x] ELSE NewStream
  BY <1>5, <1>6 DEF StreamOf
<1>8. \A x : StreamOf(o, x) = IF x \in D THEN o.streams[x] ELSE NewStream
  BY DEF StreamOf, D
<1>9. ASSUME NEW x, x # s PROVE StreamOf(p, x) = StreamOf(o, x)
  <2>1. CASE x \in D
    BY <1>5, <1>7, <1>8, <1>9, <2>1
  <2>2. CASE x \notin D
    BY <1>7, <1>8, <1>9, <2>2
  <2> QED
    BY <2>1, <2>2
<1> QED
  BY <1>6, <1>7, <1>9

\* Decoder p is o with entry e for stream s.
Turned(o, p, s, e) ==
  /\ p \in H2Decoders /\ p.prefaced = o.prefaced /\ \A d \in Directions : p[d] = o[d]
  /\ StreamOf(p, s) = e
  /\ \A x : x # s => StreamOf(p, x) = StreamOf(o, x)

\* An entry is put into the table, or taken out, as what is read says.
LEMMA TableTurns ==
  ASSUME NEW o \in H2Decoders, NEW s \in Nat, NEW e \in Entries, NEW gone \in BOOLEAN,
         NEW p, gone => p = Without(o, s), ~gone => p = With(o, s, e)
  PROVE  /\ gone => Turned(o, p, s, NewStream)
         /\ ~gone => Turned(o, p, s, e)
<1>1. CASE gone
  <2>1. p = Without(o, s)
    BY <1>1
  <2>2. /\ p \in H2Decoders /\ p.prefaced = o.prefaced /\ \A d \in Directions : p[d] = o[d]
        /\ StreamOf(p, s) = NewStream
        /\ \A x : x # s => StreamOf(p, x) = StreamOf(o, x)
    BY <2>1, TableWithout
  <2> QED
    BY <1>1, <2>2 DEF Turned
<1>2. CASE ~gone
  <2>1. p = With(o, s, e)
    BY <1>2
  <2>2. /\ p \in H2Decoders /\ p.prefaced = o.prefaced /\ \A d \in Directions : p[d] = o[d]
        /\ StreamOf(p, s) = e
        /\ \A x : x # s => StreamOf(p, x) = StreamOf(o, x)
    BY <2>1, TableWith
  <2> QED
    BY <1>2, <2>2 DEF Turned
<1> QED
  BY <1>1, <1>2

\* The table after m frames of the client and n to it.
TableFits(t, o, m, n) == \A x \in Nat : EntryIs(t, x, StreamOf(o, x), m, n)

\* An entry of the client's is replaced, and those of other streams are left.
LEMMA InTable ==
  ASSUME NEW t, NEW o, NEW m \in Nat, NEW n, TableFits(t, o, m, n),
         NEW s, t["in"][m + 1].stream = s, NEW p,
         \A x : x # s => StreamOf(p, x) = StreamOf(o, x),
         EntryIs(t, s, StreamOf(p, s), m + 1, n)
  PROVE  TableFits(t, p, m + 1, n)
<1>1. ASSUME NEW x \in Nat PROVE EntryIs(t, x, StreamOf(p, x), m + 1, n)
  <2>1. CASE x = s
    BY <2>1
  <2>2. CASE x # s
    <3>1. ~OnStream(t, "in", x, m + 1) /\ StreamOf(p, x) = StreamOf(o, x)
      BY <2>2 DEF OnStream
    <3>2. EntryIs(t, x, StreamOf(o, x), m, n)
      BY DEF TableFits
    <3>3. EntryIs(t, x, StreamOf(o, x), m + 1, n)
      BY <3>1, <3>2, InElse
    <3> QED
      BY <3>1, <3>3
  <2> QED
    BY <2>1, <2>2
<1> QED
  BY <1>1 DEF TableFits

LEMMA OutTable ==
  ASSUME NEW t, Http2(t), NEW o, NEW m, NEW n \in Nat, n + 1 \in 1..Len(t["out"]),
         TableFits(t, o, m, n), NEW s, t["out"][n + 1].stream = s, NEW p,
         \A x : x # s => StreamOf(p, x) = StreamOf(o, x),
         EntryIs(t, s, StreamOf(p, s), m, n + 1)
  PROVE  TableFits(t, p, m, n + 1)
<1>1. ASSUME NEW x \in Nat PROVE EntryIs(t, x, StreamOf(p, x), m, n + 1)
  <2>1. CASE x = s
    BY <2>1
  <2>2. CASE x # s
    <3>1. ~OnStream(t, "out", x, n + 1) /\ StreamOf(p, x) = StreamOf(o, x)
      BY <2>2 DEF OnStream
    <3>2. EntryIs(t, x, StreamOf(o, x), m, n)
      BY DEF TableFits
    <3>3. EntryIs(t, x, StreamOf(o, x), m, n + 1)
      BY <3>1, <3>2, OutElse
    <3> QED
      BY <3>1, <3>3
  <2> QED
    BY <2>1, <2>2
<1> QED
  BY <1>1 DEF TableFits

\* What comes of a frame: the buffers are left, and the item is the right one.
Comes(t, o, d, i, r) ==
  /\ r.o \in H2Decoders /\ r.o.prefaced = o.prefaced /\ \A e \in Directions : r.o[e] = o[e]
  /\ r.item \in H1Items /\ r.item.dir = d /\ r.item.msg = i /\ Right(t, d, r.item)

LEMMA ComesIs ==
  ASSUME NEW t, NEW o, NEW d \in Directions, NEW i \in Nat, NEW r, NEW p \in H2Decoders,
         p.prefaced = o.prefaced, \A e \in Directions : p[e] = o[e],
         NEW b \in Seq(Marks), r.o = p, r.item = Item(d, i, b),
         \/ b = Content(t, d, i)
         \/ t.ver = "h2" /\ t[d][i].overlaps /\ OneWay(b, d) = Content(t, d, i)
  PROVE  Comes(t, o, d, i, r)
<1>1. r.item.dir = d /\ r.item.msg = i /\ r.item.body = b /\ r.item \in H1Items
  BY DEF Item, H1Items
<1>2. Right(t, d, r.item)
  BY <1>1 DEF Right
<1> QED
  BY <1>1, <1>2 DEF Comes

\* A frame of the client's turns the entry of its stream.
LEMMA InTurns ==
  ASSUME NEW t, NEW o \in H2Decoders, NEW m \in Nat, NEW n, TableFits(t, o, m, n),
         NEW s \in Nat, t["in"][m + 1].stream = s, NEW e \in Entries, NEW gone \in BOOLEAN,
         IF gone THEN EntryIs(t, s, NewStream, m + 1, n) ELSE EntryIs(t, s, e, m + 1, n),
         NEW r, gone => r.o = Without(o, s), ~gone => r.o = With(o, s, e),
         NEW b \in Seq(Marks), r.item = Item("in", m + 1, b), b = Content(t, "in", m + 1)
  PROVE  Comes(t, o, "in", m + 1, r) /\ TableFits(t, r.o, m + 1, n)
<1> DEFINE p == r.o
<1>1. (gone => p = Without(o, s)) /\ (~gone => p = With(o, s, e)) /\ r.o = p
  OBVIOUS
<1> HIDE DEF p
<1>2. (gone => Turned(o, p, s, NewStream)) /\ (~gone => Turned(o, p, s, e))
  BY <1>1, TableTurns
<1>3. p \in H2Decoders /\ p.prefaced = o.prefaced /\ \A d \in Directions : p[d] = o[d]
  BY <1>2 DEF Turned
<1>4. (\A x : x # s => StreamOf(p, x) = StreamOf(o, x)) /\ EntryIs(t, s, StreamOf(p, s), m + 1, n)
  BY <1>2 DEF Turned
<1>5. TableFits(t, p, m + 1, n)
  BY <1>4, InTable
<1>6. m + 1 \in Nat /\ "in" \in Directions
  BY DEF Directions
<1>7. Comes(t, o, "in", m + 1, r)
  BY <1>1, <1>3, <1>6, ComesIs
<1> QED
  BY <1>1, <1>5, <1>7

\* A frame of the client (h2_parser.rs 439-850).
LEMMA FrameIn ==
  ASSUME NEW t, Http2(t), NEW o \in H2Decoders, NEW m \in Nat, m + 1 \in 1..Len(t["in"]),
         NEW n \in Nat, n <= Len(t["out"]), Answered(t, m, n), TableFits(t, o, m, n),
         t["in"][m + 1].kind # "preface", NEW r, r = RegularFrame(t, o, "in", m + 1)
  PROVE  Comes(t, o, "in", m + 1, r) /\ TableFits(t, r.o, m + 1, n)
<1> DEFINE f == t["in"][m + 1]
           s == f.stream
           w == OwnUnits(t, "in", m + 1)
           e == StreamOf(o, s)
<1>0. /\ t.ver = "h2" /\ Spoken(t) /\ "in" \in Directions /\ f \in Http2Frames
      /\ f.kind \in {"headers", "data", "other"} /\ (f.kind = "headers" => f.final)
      /\ s \in Nat /\ m + 1 \in Nat
  <2>1. t.ver = "h2" /\ Spoken(t) /\ "in" \in Directions /\ f \in Http2Frames
        /\ (f.kind = "headers" => f.final)
    BY Http2Is
  <2> QED
    BY <2>1 DEF Http2Frames
<1>1. e \in Entries /\ EntryIs(t, s, e, m, n)
  BY <1>0, TableIs DEF TableFits
<1>2. w \in Seq(Marks) /\ <<>> \in Seq(Marks)
  BY <1>0, OwnUnitsAre, EmptySeq
<1>3. Content(t, "in", m + 1) = IF f.kind = "headers" THEN <<>> ELSE w
  BY <1>0 DEF Content
<1>4. CASE f.kind = "data"
  <2> DEFINE st == [e EXCEPT !.body = @ \o w]
             last == f.ends /\ st.head \in {"regular"}
  <2>1. OnStream(t, "in", s, m + 1)
    BY <1>4 DEF OnStream
  <2>2. /\ st \in Entries
        /\ IF last THEN EntryIs(t, s, NewStream, m + 1, n) ELSE EntryIs(t, s, st, m + 1, n)
    BY <1>0, <1>1, <1>4, <2>1, InData
  <2>3. r.o = (IF last THEN Without(o, s) ELSE With(o, s, st)) /\ r.item = Item("in", m + 1, w)
    BY <1>4 DEF RegularFrame, DataFrame
  <2> HIDE DEF st, last
  <2>4. (last => r.o = Without(o, s)) /\ (~last => r.o = With(o, s, st))
    BY <2>3
  <2>5. w = Content(t, "in", m + 1)
    BY <1>3, <1>4
  <2> QED
    BY <1>0, <1>2, <2>2, <2>3, <2>4, <2>5, InTurns
<1>5. CASE f.kind = "headers"
  <2> DEFINE st == [e EXCEPT !.head = f.head]
             gone == f.ends /\ f.head \in {"regular"}
  <2>1. OnStream(t, "in", s, m + 1)
    BY <1>5 DEF OnStream
  <2>2. /\ st \in Entries /\ st.body = <<>>
        /\ IF gone THEN EntryIs(t, s, NewStream, m + 1, n) ELSE EntryIs(t, s, st, m + 1, n)
    <3>1. f = t["in"][m + 1] /\ st = [e EXCEPT !.head = f.head] /\ gone = (f.ends /\ f.head \in {"regular"})
      OBVIOUS
    <3> HIDE DEF st, f, e, s, gone
    <3>2. /\ st \in Entries /\ st.body = <<>>
          /\ IF f.ends /\ f.head \in {"regular"}
             THEN EntryIs(t, s, NewStream, m + 1, n) ELSE EntryIs(t, s, st, m + 1, n)
      <4>1. e = NewStream /\ st \in Entries
        BY <1>0, <1>1, <1>5, <2>1, <3>1, InHeaders
      <4>2. st.body = <<>>
        BY <3>1, <4>1 DEF NewStream
      <4>3. f.ends /\ f.head \in {"regular"} => EntryIs(t, s, NewStream, m + 1, n)
        BY <1>0, <1>1, <1>5, <2>1, <3>1, InHeaders
      <4>4. ~(f.ends /\ f.head \in {"regular"}) => EntryIs(t, s, st, m + 1, n)
        BY <1>0, <1>1, <1>5, <2>1, <3>1, InHeaders
      <4> QED
        BY <4>1, <4>2, <4>3, <4>4
    <3> QED
      BY <3>1, <3>2
  <2>3. r = HeadersDone(o, "in", m + 1, s, f.head, f.ends)
    BY <1>0, <1>5 DEF RegularFrame
  <2>4. r.o = (IF gone THEN Without(o, s) ELSE With(o, s, st)) /\ r.item = Item("in", m + 1, <<>>)
    BY <2>2, <2>3 DEF HeadersDone
  <2> HIDE DEF st, gone
  <2>5. (gone => r.o = Without(o, s)) /\ (~gone => r.o = With(o, s, st))
    BY <2>4
  <2>6. <<>> = Content(t, "in", m + 1)
    BY <1>3, <1>5
  <2> QED
    BY <1>0, <1>2, <2>2, <2>4, <2>5, <2>6, InTurns
<1>6. CASE f.kind = "other"
  <2>1. r.o = o /\ r.item = Item("in", m + 1, w)
    BY <1>6 DEF RegularFrame
  <2>2. \A x : ~OnStream(t, "in", x, m + 1)
    BY <1>6 DEF OnStream
  <2>3. TableFits(t, o, m + 1, n)
    BY <2>2, InElse DEF TableFits
  <2>4. w = Content(t, "in", m + 1)
    BY <1>3, <1>6
  <2>5. Comes(t, o, "in", m + 1, r)
    <3> HIDE DEF w
    <3> QED
      BY <1>0, <1>2, <2>1, <2>4, ComesIs
  <2> QED
    BY <2>1, <2>3, <2>5
<1> QED
  BY <1>0, <1>4, <1>5, <1>6

\* A frame to the client turns the entry of its stream.
LEMMA OutTurns ==
  ASSUME NEW t, Http2(t), NEW o \in H2Decoders, NEW m, NEW n \in Nat, n + 1 \in 1..Len(t["out"]),
         TableFits(t, o, m, n),
         NEW s \in Nat, t["out"][n + 1].stream = s, NEW e \in Entries, NEW gone \in BOOLEAN,
         IF gone THEN EntryIs(t, s, NewStream, m, n + 1) ELSE EntryIs(t, s, e, m, n + 1),
         NEW r, gone => r.o = Without(o, s), ~gone => r.o = With(o, s, e),
         NEW b \in Seq(Marks), r.item = Item("out", n + 1, b),
         \/ b = Content(t, "out", n + 1)
         \/ t["out"][n + 1].overlaps /\ OneWay(b, "out") = Content(t, "out", n + 1)
  PROVE  Comes(t, o, "out", n + 1, r) /\ TableFits(t, r.o, m, n + 1)
<1> DEFINE p == r.o
<1>1. (gone => p = Without(o, s)) /\ (~gone => p = With(o, s, e)) /\ r.o = p
  OBVIOUS
<1> HIDE DEF p
<1>2. (gone => Turned(o, p, s, NewStream)) /\ (~gone => Turned(o, p, s, e))
  BY <1>1, TableTurns
<1>3. p \in H2Decoders /\ p.prefaced = o.prefaced /\ \A d \in Directions : p[d] = o[d]
  BY <1>2 DEF Turned
<1>4. (\A x : x # s => StreamOf(p, x) = StreamOf(o, x)) /\ EntryIs(t, s, StreamOf(p, s), m, n + 1)
  BY <1>2 DEF Turned
<1>5. TableFits(t, p, m, n + 1)
  BY <1>4, OutTable
<1>6. n + 1 \in Nat /\ "out" \in Directions /\ t.ver = "h2"
  BY Http2Is
<1>7. Comes(t, o, "out", n + 1, r)
  BY <1>1, <1>3, <1>6, ComesIs
<1> QED
  BY <1>1, <1>5, <1>7

\* A frame to the client (h2_parser.rs 439-850).
LEMMA FrameOut ==
  ASSUME NEW t, Http2(t), NEW o \in H2Decoders, NEW m \in Nat, NEW n \in Nat,
         n + 1 \in 1..Len(t["out"]), Answered(t, m, n + 1), TableFits(t, o, m, n),
         NEW r, r = RegularFrame(t, o, "out", n + 1)
  PROVE  Comes(t, o, "out", n + 1, r) /\ TableFits(t, r.o, m, n + 1)
<1> DEFINE f == t["out"][n + 1]
           s == f.stream
           w == OwnUnits(t, "out", n + 1)
           e == StreamOf(o, s)
<1>0. /\ t.ver = "h2" /\ Spoken(t) /\ "out" \in Directions /\ f \in Http2Frames
      /\ f.kind \in {"headers", "data", "other"} /\ (f.kind = "headers" => f.final)
      /\ s \in Nat /\ n + 1 \in Nat
  <2>1. t.ver = "h2" /\ Spoken(t) /\ "out" \in Directions /\ f \in Http2Frames
        /\ (f.kind = "headers" => f.final) /\ f.kind # "preface"
    BY Http2Is
  <2> QED
    BY <2>1 DEF Http2Frames
<1>1. e \in Entries /\ EntryIs(t, s, e, m, n)
  BY <1>0, TableIs DEF TableFits
<1>2. w \in Seq(Marks) /\ <<>> \in Seq(Marks)
  BY <1>0, OwnUnitsAre, EmptySeq
<1>3. /\ f.kind = "headers" => Content(t, "out", n + 1) = <<>>
      /\ f.kind = "data" /\ f.ends => Content(t, "out", n + 1) = DataOf(t, "out", s, n + 1)
      /\ f.kind = "data" /\ ~f.ends => Content(t, "out", n + 1) = w
      /\ f.kind = "other" => Content(t, "out", n + 1) = w
  BY <1>0 DEF Content
<1>4. CASE f.kind = "data"
  <2> DEFINE st == [e EXCEPT !.body = @ \o w]
             last == f.ends /\ st.head \in {"regular", "odd", "status"}
             b == IF last THEN st.body ELSE w
  <2>1. OnStream(t, "out", s, n + 1)
    BY <1>4 DEF OnStream
  <2>2. /\ st \in Entries /\ st.head = "status"
        /\ \/ st.body = DataOf(t, "out", s, n + 1)
           \/ f.overlaps /\ OneWay(st.body, "out") = DataOf(t, "out", s, n + 1)
        /\ IF f.ends THEN EntryIs(t, s, NewStream, m, n + 1) ELSE EntryIs(t, s, st, m, n + 1)
    BY <1>0, <1>1, <1>4, <2>1, OutData
  <2>3. r.o = (IF last THEN Without(o, s) ELSE With(o, s, st)) /\ r.item = Item("out", n + 1, b)
    <3>1. r = DataFrame(t, o, "out", n + 1)
      BY <1>4 DEF RegularFrame
    <3> QED
      BY <3>1 DEF DataFrame
  <2>4. last <=> f.ends
    BY <2>2
  <2>5. b \in Seq(Marks)
    BY <1>2, <2>2 DEF Entries
  <2>6. last \in BOOLEAN
    OBVIOUS
  <2>7. (last => b = st.body) /\ (~last => b = w)
    OBVIOUS
  <2> HIDE DEF st, last, b
  <2>8. (last => r.o = Without(o, s)) /\ (~last => r.o = With(o, s, st))
    BY <2>3
  <2>9. \/ b = Content(t, "out", n + 1)
        \/ f.overlaps /\ OneWay(b, "out") = Content(t, "out", n + 1)
    BY <1>3, <1>4, <2>2, <2>4, <2>7
  <2>10. IF last THEN EntryIs(t, s, NewStream, m, n + 1) ELSE EntryIs(t, s, st, m, n + 1)
    BY <2>2, <2>4
  <2> QED
    BY <1>0, <2>2, <2>3, <2>5, <2>6, <2>8, <2>9, <2>10, OutTurns
<1>5. CASE f.kind = "headers"
  <2> DEFINE st == [e EXCEPT !.head = f.head]
             gone == f.ends /\ f.head \in {"regular", "status"}
             b == IF gone \/ f.head # "trailer" THEN st.body ELSE <<>>
  <2>1. OnStream(t, "out", s, n + 1)
    BY <1>5 DEF OnStream
  <2>2. /\ st \in Entries /\ st.body = e.body
        /\ f.head # "trailer" =>
             e.body = <<>> \/ (f.overlaps /\ OneWay(e.body, "out") = <<>>)
        /\ gone => f.head # "trailer" /\ EntryIs(t, s, NewStream, m, n + 1)
        /\ ~gone => EntryIs(t, s, st, m, n + 1)
    <3>1. f = t["out"][n + 1] /\ st = [e EXCEPT !.head = f.head] /\ gone = (f.ends /\ f.head \in {"regular", "status"})
      OBVIOUS
    <3> HIDE DEF st, f, e, s, gone
    <3>2. st \in Entries
      BY <1>0, <1>1, <1>5, <2>1, <3>1, OutHeaders
    <3>3. st.body = e.body
      BY <1>1, <3>1 DEF Entries
    <3>4. f.head # "trailer" =>
             e.body = <<>> \/ (f.overlaps /\ OneWay(e.body, "out") = <<>>)
      BY <1>0, <1>1, <1>5, <2>1, <3>1, OutHeaders
    <3>5. gone => f.head # "trailer" /\ EntryIs(t, s, NewStream, m, n + 1)
      BY <1>0, <1>1, <1>5, <2>1, <3>1, OutHeaders
    <3>6. ~gone => EntryIs(t, s, st, m, n + 1)
      BY <1>0, <1>1, <1>5, <2>1, <3>1, OutHeaders
    <3> QED
      BY <3>2, <3>3, <3>4, <3>5, <3>6
  <2>3. r = HeadersDone(o, "out", n + 1, s, f.head, f.ends)
    BY <1>0, <1>5 DEF RegularFrame
  <2>4. r.o = (IF gone THEN Without(o, s) ELSE With(o, s, st)) /\ r.item = Item("out", n + 1, b)
    BY <2>3 DEF HeadersDone
  <2>5. b \in Seq(Marks)
    BY <1>2, <2>2 DEF Entries
  <2>6. gone \in BOOLEAN
    OBVIOUS
  <2>7. (f.head # "trailer" => b = st.body) /\ (f.head = "trailer" => b = <<>>)
    BY <2>2
  <2> HIDE DEF st, gone, b
  <2>8. (gone => r.o = Without(o, s)) /\ (~gone => r.o = With(o, s, st))
    BY <2>4
  <2>9. \/ b = Content(t, "out", n + 1)
        \/ f.overlaps /\ OneWay(b, "out") = Content(t, "out", n + 1)
    BY <1>3, <1>5, <2>2, <2>7
  <2>10. IF gone THEN EntryIs(t, s, NewStream, m, n + 1) ELSE EntryIs(t, s, st, m, n + 1)
    BY <2>2
  <2> QED
    BY <1>0, <2>2, <2>4, <2>5, <2>6, <2>8, <2>9, <2>10, OutTurns
<1>6. CASE f.kind = "other"
  <2>1. r.o = o /\ r.item = Item("out", n + 1, w)
    BY <1>6 DEF RegularFrame
  <2>2. \A x : ~OnStream(t, "out", x, n + 1)
    BY <1>6 DEF OnStream
  <2>3. TableFits(t, o, m, n + 1)
    BY <2>2, OutElse DEF TableFits
  <2>4. w = Content(t, "out", n + 1)
    BY <1>3, <1>6
  <2>5. Comes(t, o, "out", n + 1, r)
    <3> HIDE DEF w
    <3> QED
      BY <1>0, <1>2, <2>1, <2>4, ComesIs
  <2> QED
    BY <2>1, <2>3, <2>5
<1> QED
  BY <1>0, <1>4, <1>5, <1>6

\* The buffer of a direction begins with frame n + 1, and has what has gone by of it
\* and of those behind it when h units have.
StandsAt(t, d, b, n, h) ==
  n \in 0..Len(t[d]) /\ End(t, d, n) <= h /\ b = Window(t, d, End(t, d, n), h)

\* Frame n + 1 is there.
IsHere(t, d, n, h) == n + 1 \in 1..Len(t[d]) /\ End(t, d, n + 1) <= h

\* What a buffer begins with.
LEMMA StandsIs ==
  ASSUME NEW t, Spoken(t), NEW d \in Directions, NEW h \in 0..Total(t, d), NEW b,
         NEW n, StandsAt(t, d, b, n, h)
  PROVE  /\ n \in Nat /\ b \in Seq(Marks)
         /\ InStep(b) => /\ n + 1 \in 1..Len(t[d]) /\ Head(b) = <<d, n + 1, 1>>
                         /\ First(t, b) = t[d][n + 1]
                         /\ Len(b) >= t[d][n + 1].len => End(t, d, n + 1) <= h
         /\ IsHere(t, d, n, h) => InStep(b) /\ Len(b) >= t[d][n + 1].len
<1> DEFINE p == End(t, d, n)
<1>1. /\ n \in 0..Len(t[d]) /\ Len(t[d]) \in Nat /\ Total(t, d) \in Nat /\ h \in Nat
      /\ p \in Nat /\ p \in 0..h /\ b = Window(t, d, p, h)
  <2>1. Len(t[d]) \in Nat
    BY DEF Spoken
  <2>2. n \in 0..Len(t[d]) /\ p <= h /\ b = Window(t, d, p, h)
    BY DEF StandsAt
  <2>3. Total(t, d) \in Nat
    BY <2>1, AllAre
  <2>4. p \in Nat
    BY <2>1, <2>2, UnitsAre
  <2> QED
    BY <2>1, <2>2, <2>3, <2>4
<1>2. /\ b \in Seq(Marks) /\ Len(b) = h - p
      /\ \A i \in 1..h - p : b[i] = AllUnits(t, d)[p + i]
      /\ b = <<>> <=> p = h
  <2> DEFINE w == Window(t, d, p, h)
  <2>0. p \in 0..h
    BY <1>1
  <2> HIDE DEF p
  <2>1. w \in Seq(Marks) /\ Len(w) = h - p
    BY <2>0, WindowIs, ZenonT(60)
  <2>2. ASSUME NEW i \in 1..h - p PROVE w[i] = AllUnits(t, d)[p + i]
    BY <2>0, <2>2, WindowIs
  <2>3. w = <<>> <=> p = h
    <3>1. w = <<>> <=> Len(w) = 0
      BY <2>1
    <3> QED
      BY <1>1, <2>1, <3>1
  <2> QED
    BY <1>1, <2>1, <2>2, <2>3
<1>3. ASSUME n + 1 \in 1..Len(t[d])
      PROVE  /\ End(t, d, n + 1) = p + t[d][n + 1].len /\ t[d][n + 1].len \in Nat \ {0}
             /\ AllUnits(t, d)[p + 1] = <<d, n + 1, 1>>
  <2>1. (n + 1) - 1 = n
    BY <1>1
  <2>2. t[d][n + 1].len \in Nat \ {0}
    BY <1>3 DEF Spoken
  <2>3. 1 \in 1..t[d][n + 1].len
    BY <2>2
  <2> QED
    BY <1>1, <1>3, <2>1, <2>2, <2>3, Begins
<1>4. p < h => n + 1 \in 1..Len(t[d])
  <2> SUFFICES ASSUME p < h PROVE n + 1 \in 1..Len(t[d])
    OBVIOUS
  <2>1. n # Len(t[d])
    BY <1>1 DEF Total
  <2> QED
    BY <1>1, <2>1
<1>5. ASSUME p < h
      PROVE  Head(b) = <<d, n + 1, 1>> /\ First(t, b) = t[d][n + 1] /\ InStep(b) /\ b # <<>>
  <2>1. 1 \in 1..h - p /\ b # <<>> /\ Head(b) = b[1]
    BY <1>1, <1>2, <1>5
  <2>2. b[1] = <<d, n + 1, 1>>
    BY <2>1, <1>2, <1>3, <1>4, <1>5
  <2> QED
    BY <2>1, <2>2 DEF InStep, First
<1> HIDE DEF p
<1>6. ASSUME InStep(b)
      PROVE  /\ n + 1 \in 1..Len(t[d]) /\ Head(b) = <<d, n + 1, 1>>
             /\ First(t, b) = t[d][n + 1]
             /\ Len(b) >= t[d][n + 1].len => End(t, d, n + 1) <= h
  <2>1. p < h
    BY <1>1, <1>2, <1>6 DEF InStep
  <2>2. n + 1 \in 1..Len(t[d]) /\ Head(b) = <<d, n + 1, 1>> /\ First(t, b) = t[d][n + 1]
    BY <2>1, <1>4, <1>5
  <2>3. Len(b) >= t[d][n + 1].len => End(t, d, n + 1) <= h
    BY <1>1, <1>2, <1>3, <2>2
  <2> QED
    BY <2>2, <2>3
<1>7. ASSUME IsHere(t, d, n, h)
      PROVE  InStep(b) /\ Len(b) >= t[d][n + 1].len
  <2>1. n + 1 \in 1..Len(t[d]) /\ End(t, d, n + 1) <= h
    BY <1>7 DEF IsHere
  <2>2. p < h /\ Len(b) >= t[d][n + 1].len
    BY <1>1, <1>2, <1>3, <2>1
  <2> QED
    BY <1>5, <2>2
<1>8. n \in Nat
  BY <1>1
<1> QED
  BY <1>2, <1>6, <1>7, <1>8

\* A frame is there when it has gone by completely, and is not the preface.
LEMMA HereIs ==
  ASSUME NEW t, Spoken(t), NEW d \in Directions, NEW h \in 0..Total(t, d), NEW b,
         NEW n, StandsAt(t, d, b, n, h)
  PROVE  /\ FrameIsThere(t, b) <=> IsHere(t, d, n, h) /\ t[d][n + 1].kind # "preface"
         /\ FrameIsThere(t, b) => Head(b) = <<d, n + 1, 1>>
<1>1. /\ InStep(b) => /\ n + 1 \in 1..Len(t[d]) /\ Head(b) = <<d, n + 1, 1>>
                      /\ First(t, b) = t[d][n + 1]
                      /\ Len(b) >= t[d][n + 1].len => End(t, d, n + 1) <= h
      /\ IsHere(t, d, n, h) => InStep(b) /\ Len(b) >= t[d][n + 1].len
  BY StandsIs
<1> QED
  BY <1>1 DEF FrameIsThere, IsHere

\* What is left without it.
LEMMA StandsNext ==
  ASSUME NEW t, Spoken(t), NEW d \in Directions, NEW h \in 0..Total(t, d), NEW b,
         NEW n, StandsAt(t, d, b, n, h), IsHere(t, d, n, h),
         NEW l, l = t[d][n + 1].len
  PROVE  /\ StandsAt(t, d, SubSeq(b, l + 1, Len(b)), n + 1, h)
         /\ SubSeq(b, l + 1, Len(b)) \in Seq(Marks)
         /\ Len(SubSeq(b, l + 1, Len(b))) < Len(b)
<1> DEFINE p == End(t, d, n)
           q == End(t, d, n + 1)
<1>1. /\ n \in 0..Len(t[d]) /\ Len(t[d]) \in Nat /\ h \in Nat /\ h \in 0..Total(t, d)
      /\ p \in Nat /\ p \in 0..h /\ b = Window(t, d, p, h) /\ n + 1 \in 1..Len(t[d])
      /\ q <= h /\ l \in Nat \ {0}
  <2>1. Len(t[d]) \in Nat
    BY DEF Spoken
  <2>2. n \in 0..Len(t[d]) /\ p <= h /\ b = Window(t, d, p, h)
    BY DEF StandsAt
  <2>3. Total(t, d) \in Nat
    BY <2>1, AllAre
  <2>4. p \in Nat
    BY <2>1, <2>2, UnitsAre
  <2>5. n + 1 \in 1..Len(t[d]) /\ q <= h
    BY DEF IsHere
  <2>6. l \in Nat \ {0}
    BY <2>5 DEF Spoken
  <2> QED
    BY <2>1, <2>2, <2>3, <2>4, <2>5, <2>6
<1>2. q = p + l
  <2>1. (n + 1) - 1 = n
    BY <1>1
  <2> QED
    BY <1>1, <2>1, UnitsAre
<1>3. l \in 0..h - p /\ q \in 0..h
  BY <1>1, <1>2
<1> HIDE DEF p, q
<1>4. SubSeq(b, l + 1, Len(b)) = Window(t, d, q, h)
  BY <1>1, <1>2, <1>3, WindowShrinks
<1>5. /\ Window(t, d, q, h) \in Seq(Marks) /\ Len(Window(t, d, q, h)) = h - q
      /\ Len(b) = h - p
  <2>1. h \in 0..Total(t, d) /\ p \in 0..h /\ q \in 0..h
    BY <1>1, <1>3
  <2>2. Len(Window(t, d, p, h)) = h - p
    BY <2>1, WindowIs
  <2>3. Window(t, d, q, h) \in Seq(Marks)
    BY <2>1, WindowIs
  <2>4. Len(Window(t, d, q, h)) = h - q
    BY <2>1, WindowIs
  <2> QED
    BY <1>1, <2>2, <2>3, <2>4
<1>6. h - q < h - p
  BY <1>1, <1>2, <1>3
<1>7. StandsAt(t, d, SubSeq(b, l + 1, Len(b)), n + 1, h)
  BY <1>1, <1>4 DEF StandsAt, q
<1> QED
  BY <1>4, <1>5, <1>6, <1>7

\* A decoder with another buffer.
Put(o, d, b) == [o EXCEPT ![d] = b]

LEMMA BufferIs ==
  ASSUME NEW o \in H2Decoders, NEW d \in Directions, NEW b \in Seq(Marks),
         NEW p, p = Put(o, d, b)
  PROVE  /\ p \in H2Decoders /\ p.prefaced = o.prefaced /\ p[d] = b /\ p[Other(d)] = o[Other(d)]
         /\ \A x : StreamOf(p, x) = StreamOf(o, x)
<1>1. CASE d = "in"
  <2>1. p \in H2Decoders /\ p.prefaced = o.prefaced /\ p.streams = o.streams
        /\ p[d] = b /\ p["out"] = o["out"]
    BY <1>1 DEF H2Decoders, Put
  <2> QED
    BY <1>1, <2>1 DEF Other, StreamOf
<1>2. CASE d = "out"
  <2>1. p \in H2Decoders /\ p.prefaced = o.prefaced /\ p.streams = o.streams
        /\ p[d] = b /\ p["in"] = o["in"]
    BY <1>2 DEF H2Decoders, Put
  <2> QED
    BY <1>2, <2>1 DEF Other, StreamOf
<1> QED
  BY <1>1, <1>2 DEF Directions

\* poll_one_frame where the frame is there, and where it is not.
LEMMA PollOneIs ==
  ASSUME NEW t, Http2(t), NEW o \in H2Decoders, NEW d \in Directions,
         NEW h \in 0..Total(t, d), NEW n, StandsAt(t, d, o[d], n, h)
  PROVE  /\ ~(IsHere(t, d, n, h) /\ t[d][n + 1].kind # "preface") =>
              PollOne(t, o, d) = [o |-> o, item |-> None]
         /\ IsHere(t, d, n, h) /\ t[d][n + 1].kind # "preface" =>
              PollOne(t, o, d) =
                RegularFrame(t, Put(o, d, SubSeq(o[d], t[d][n + 1].len + 1, Len(o[d]))), d, n + 1)
<1>1. Spoken(t) /\ o.partial = None
  BY Http2Is DEF H2Decoders
<1>2. /\ FrameIsThere(t, o[d]) <=> IsHere(t, d, n, h) /\ t[d][n + 1].kind # "preface"
      /\ FrameIsThere(t, o[d]) => Head(o[d]) = <<d, n + 1, 1>>
  BY <1>1, HereIs
<1>3. FrameIsThere(t, o[d]) => Head(o[d])[2] = n + 1
  BY <1>2
<1>4. o[d] \in Seq(Marks) /\ \A b : [o EXCEPT ![d] = SubSeq(@, b, Len(@))] = Put(o, d, SubSeq(o[d], b, Len(o[d])))
  BY DEF Put, H2Decoders, Directions
<1> QED
  BY <1>1, <1>2, <1>3, <1>4 DEF PollOne

\* What can be seen of the first n frames.
Seen(t, d, n) == {i \in 1..n : Visible(t[d][i])}

\* The list shows each frame as it is to be shown, and behind all that can be seen of
\* the earlier ones.
Listed(t, d, s) ==
  \A k \in 1..Len(s) : s[k].dir = d =>
    /\ s[k].msg \in 1..Len(t[d]) /\ Visible(t[d][s[k].msg]) /\ Right(t, d, s[k])
    /\ BeforeIn(s, d, k) = Seen(t, d, s[k].msg - 1)

\* One more frame is shown.
LEMMA ListedGrows ==
  ASSUME NEW t, NEW s \in Seq(H1Items), NEW x \in H1Items, NEW d, Listed(t, d, s),
         x.dir = d => /\ x.msg \in 1..Len(t[d]) /\ Visible(t[d][x.msg]) /\ Right(t, d, x)
                      /\ ShownOf(s, d) = Seen(t, d, x.msg - 1)
  PROVE  Listed(t, d, Append(s, x))
<1> DEFINE y == Append(s, x)
<1>1. /\ Len(y) = Len(s) + 1 /\ Len(s) \in Nat
      /\ \A k \in 1..Len(s) : y[k] = s[k]
      /\ y[Len(s) + 1] = x
      /\ \A k \in 1..Len(s) + 1 : BeforeIn(y, d, k) = BeforeIn(s, d, k)
  BY AppendShows
<1> HIDE DEF y
<1>2. SUFFICES ASSUME NEW k \in 1..Len(s) + 1, y[k].dir = d
               PROVE  /\ y[k].msg \in 1..Len(t[d]) /\ Visible(t[d][y[k].msg]) /\ Right(t, d, y[k])
                      /\ BeforeIn(y, d, k) = Seen(t, d, y[k].msg - 1)
  BY <1>1 DEF Listed, y
<1>3. CASE k = Len(s) + 1
  BY <1>1, <1>2, <1>3 DEF ShownOf
<1>4. CASE k # Len(s) + 1
  <2>1. k \in 1..Len(s) /\ k \in 1..Len(s) + 1
    BY <1>1, <1>4
  <2> QED
    BY <1>1, <1>2, <2>1 DEF Listed
<1> QED
  BY <1>3, <1>4

\* Decoder o and list s have come to frame m of the client and n to it, of what k units
\* have brought of each direction.
Reads2(t, o, s, k, m, n) ==
  /\ o \in H2Decoders /\ s \in Seq(H1Items)
  /\ StandsAt(t, "in", o["in"], m, k["in"]) /\ StandsAt(t, "out", o["out"], n, k["out"])
  /\ o.prefaced <=> m # 0
  /\ m = 0 => AllRead(t, "in", 0, k["in"])
  /\ Answered(t, m, n) /\ TableFits(t, o, m, n)
  /\ Listed(t, "in", s) /\ Listed(t, "out", s)
  /\ ShownOf(s, "in") = Seen(t, "in", m) /\ ShownOf(s, "out") = Seen(t, "out", n)

\* The numbers of it.
LEMMA ReadsIs ==
  ASSUME NEW t, Http2(t), NEW o, NEW s, NEW k, NEW m, NEW n, Reads2(t, o, s, k, m, n)
  PROVE  /\ m \in Nat /\ n \in Nat /\ m <= Len(t["in"]) /\ n <= Len(t["out"])
         /\ Len(t["in"]) \in Nat /\ Len(t["out"]) \in Nat
<1>1. Len(t["in"]) \in Nat /\ Len(t["out"]) \in Nat
  BY Http2Is DEF Spoken
<1>2. m \in 0..Len(t["in"]) /\ n \in 0..Len(t["out"])
  BY DEF Reads2, StandsAt
<1> QED
  BY <1>1, <1>2

\* What is shown of a frame that comes next.
LEMMA SeenNext ==
  ASSUME NEW t, NEW d \in Directions, NEW n \in Nat, NEW s \in Seq(H1Items), NEW x \in H1Items,
         x.dir = d, x.msg = n + 1, ShownOf(s, d) = Seen(t, d, n), Visible(t[d][n + 1])
  PROVE  /\ ShownOf(Append(s, x), d) = Seen(t, d, n + 1)
         /\ ShownOf(Append(s, x), Other(d)) = ShownOf(s, Other(d))
<1>1. \A e : ShownOf(Append(s, x), e) = ShownOf(s, e) \cup {m \in {x.msg} : x.dir = e}
  BY AppendShows
<1>2. Seen(t, d, n + 1) = Seen(t, d, n) \cup {n + 1}
  <2>1. \A i : i \in 1..n + 1 <=> i \in 1..n \/ i = n + 1
    OBVIOUS
  <2> QED
    BY <2>1 DEF Seen
<1>3. Other(d) # d
  BY DEF Other, Directions
<1> QED
  BY <1>1, <1>2, <1>3

\* A frame is visible when it is no preface.
LEMMA VisibleIs ==
  ASSUME NEW t, Http2(t), NEW d \in Directions, NEW i \in 1..Len(t[d])
  PROVE  Visible(t[d][i]) <=> t[d][i].kind # "preface"
<1>1. t[d][i] \in Http2Frames /\ (t[d][i].kind = "headers" => t[d][i].final)
  BY Http2Is
<1>2. t[d][i].kind # "cont"
  BY <1>1 DEF Http2Frames
<1> QED
  BY <1>1, <1>2 DEF Visible

\* The next frame of the client's.
LEMMA StepIn ==
  ASSUME NEW t, Http2(t), NEW o, NEW s, NEW k, NEW m, NEW n, Reads2(t, o, s, k, m, n),
         \A d \in Directions : k[d] \in 0..Total(t, d),
         IsHere(t, "in", m, k["in"]), t["in"][m + 1].kind # "preface",
         NEW r, r = PollOne(t, o, "in")
  PROVE  /\ r.item \in H1Items /\ Reads2(t, r.o, Append(s, r.item), k, m + 1, n)
         /\ Len(r.o["in"]) < Len(o["in"]) /\ r.o["out"] = o["out"]
<1> DEFINE b == SubSeq(o["in"], t["in"][m + 1].len + 1, Len(o["in"]))
           p == Put(o, "in", b)
           h == k["in"]
<1>1. /\ Spoken(t) /\ "in" \in Directions /\ "out" \in Directions /\ h \in 0..Total(t, "in")
      /\ m \in Nat /\ n \in Nat /\ n <= Len(t["out"]) /\ m + 1 \in 1..Len(t["in"]) /\ m # 0
  <2>1. Spoken(t) /\ "in" \in Directions /\ "out" \in Directions
    BY Http2Is
  <2>2. m \in Nat /\ n \in Nat /\ n <= Len(t["out"])
    BY ReadsIs
  <2>3. m + 1 \in 1..Len(t["in"])
    BY DEF IsHere
  <2>4. m # 0
    BY <2>1, <2>3, Http2Is
  <2> QED
    BY <2>1, <2>2, <2>3, <2>4
<1>2. /\ o \in H2Decoders /\ s \in Seq(H1Items) /\ StandsAt(t, "in", o["in"], m, h)
      /\ StandsAt(t, "out", o["out"], n, k["out"]) /\ Answered(t, m, n) /\ TableFits(t, o, m, n)
      /\ Listed(t, "in", s) /\ Listed(t, "out", s) /\ o.prefaced
      /\ ShownOf(s, "in") = Seen(t, "in", m) /\ ShownOf(s, "out") = Seen(t, "out", n)
  BY <1>1, Zenon DEF Reads2
<1> HIDE DEF h
<1>3. /\ StandsAt(t, "in", b, m + 1, h) /\ b \in Seq(Marks) /\ Len(b) < Len(o["in"])
  BY <1>1, <1>2, StandsNext DEF h
<1>4. r = RegularFrame(t, p, "in", m + 1)
  <2>1. IsHere(t, "in", m, h) /\ t["in"][m + 1].kind # "preface"
    BY DEF h
  <2> QED
    BY <1>1, <1>2, <2>1, PollOneIs
<1> HIDE DEF b
<1>5. p = Put(o, "in", b)
  OBVIOUS
<1> HIDE DEF p
<1>6. /\ p \in H2Decoders /\ p.prefaced = o.prefaced /\ p["in"] = b /\ p["out"] = o["out"]
      /\ \A x : StreamOf(p, x) = StreamOf(o, x)
  <2>1. Other("in") = "out"
    BY DEF Other
  <2>2. p \in H2Decoders /\ p.prefaced = o.prefaced
    BY <1>1, <1>2, <1>3, <1>5, BufferIs
  <2>3. p["in"] = b
    BY <1>1, <1>2, <1>3, <1>5, BufferIs
  <2>4. p[Other("in")] = o[Other("in")]
    BY <1>1, <1>2, <1>3, <1>5, BufferIs
  <2>5. \A x : StreamOf(p, x) = StreamOf(o, x)
    BY <1>1, <1>2, <1>3, <1>5, BufferIs
  <2> QED
    BY <2>1, <2>2, <2>3, <2>4, <2>5
<1>7. TableFits(t, p, m, n)
  BY <1>2, <1>6 DEF TableFits
<1>8. Comes(t, p, "in", m + 1, r) /\ TableFits(t, r.o, m + 1, n)
  BY <1>1, <1>2, <1>4, <1>6, <1>7, FrameIn
<1>9. /\ r.o \in H2Decoders /\ r.o.prefaced /\ r.o["in"] = b /\ r.o["out"] = o["out"]
      /\ r.item \in H1Items /\ r.item.dir = "in" /\ r.item.msg = m + 1 /\ Right(t, "in", r.item)
  <2>1. r.o.prefaced = p.prefaced /\ r.o["in"] = p["in"] /\ r.o["out"] = p["out"]
    BY <1>1, <1>8 DEF Comes
  <2> QED
    BY <1>2, <1>6, <1>8, <2>1 DEF Comes
<1> DEFINE l == Append(s, r.item)
<1>10. /\ ShownOf(l, "in") = Seen(t, "in", m + 1) /\ ShownOf(l, "out") = Seen(t, "out", n)
       /\ l \in Seq(H1Items) /\ Visible(t["in"][m + 1])
  <2>1. Visible(t["in"][m + 1])
    BY <1>1, VisibleIs
  <2>2. Other("in") = "out"
    BY DEF Other
  <2>3. ShownOf(l, "in") = Seen(t, "in", m + 1) /\ ShownOf(l, Other("in")) = ShownOf(s, Other("in"))
    BY <1>1, <1>2, <1>9, <2>1, SeenNext
  <2>4. l \in Seq(H1Items)
    BY <1>2, <1>9, AppendShows
  <2> QED
    BY <1>2, <2>1, <2>2, <2>3, <2>4
<1>11. Listed(t, "in", l)
  <2>1. (m + 1) - 1 = m
    BY <1>1
  <2>2. ShownOf(s, "in") = Seen(t, "in", r.item.msg - 1) /\ r.item.msg \in 1..Len(t["in"])
        /\ Visible(t["in"][r.item.msg])
    BY <1>1, <1>2, <1>9, <1>10, <2>1
  <2> QED
    BY <1>2, <1>9, <2>2, ListedGrows
<1>12. Listed(t, "out", l)
  <2>1. r.item.dir # "out"
    BY <1>9
  <2> QED
    BY <1>2, <1>9, <2>1, ListedGrows
<1>13. Answered(t, m + 1, n)
  <2>1. \A i \in 1..n : t["out"][i].after \in Nat
    <3> SUFFICES ASSUME NEW i \in 1..n PROVE t["out"][i].after \in Nat
      OBVIOUS
    <3>1. i \in 1..Len(t["out"])
      BY <1>1, ReadsIs
    <3> QED
      BY <1>1, <3>1, Http2Is DEF Http2Frames
  <2> QED
    BY <1>1, <1>2, <2>1 DEF Answered
<1>14. m + 1 # 0
  BY <1>1
<1> HIDE DEF l
<1>15. Reads2(t, r.o, l, k, m + 1, n)
  BY <1>2, <1>3, <1>8, <1>9, <1>10, <1>11, <1>12, <1>13, <1>14 DEF Reads2, h
<1> QED
  BY <1>3, <1>9, <1>15 DEF l

\* When nothing is there of the client's, what comes to it has been asked for.
LEMMA AskedFor ==
  ASSUME NEW t, Http2(t), NEW o, NEW s, NEW k, NEW m, NEW n, Reads2(t, o, s, k, m, n),
         \A d \in Directions : k[d] \in 0..Total(t, d), Causal(t, k),
         ~(IsHere(t, "in", m, k["in"]) /\ t["in"][m + 1].kind # "preface")
  PROVE  /\ AllRead(t, "in", m, k["in"])
         /\ IsHere(t, "out", n, k["out"]) => Answered(t, m, n + 1)
<1>1. /\ Spoken(t) /\ "in" \in Directions /\ "out" \in Directions
      /\ m \in Nat /\ n \in Nat /\ m <= Len(t["in"]) /\ n <= Len(t["out"])
      /\ Len(t["in"]) \in Nat /\ Len(t["out"]) \in Nat
      /\ k["in"] \in Nat /\ k["out"] \in Nat
  <2>1. Spoken(t) /\ "in" \in Directions /\ "out" \in Directions
    BY Http2Is
  <2>2. Total(t, "in") \in Nat /\ Total(t, "out") \in Nat
    BY <2>1, AllAre
  <2>3. k["in"] \in 0..Total(t, "in") /\ k["out"] \in 0..Total(t, "out")
    BY <2>1
  <2>4. k["in"] \in Nat /\ k["out"] \in Nat
    BY <2>2, <2>3
  <2> QED
    BY <2>1, <2>4, ReadsIs
<1>2. AllRead(t, "in", m, k["in"])
  <2>1. CASE m = 0
    <3>1. AllRead(t, "in", 0, k["in"])
      BY <2>1, Zenon DEF Reads2
    <3> QED
      BY <2>1, <3>1
  <2>2. CASE m # 0
    <3>1. m + 1 \in 1..Len(t["in"]) => t["in"][m + 1].kind # "preface"
      BY <1>1, <2>2, Http2Is
    <3> QED
      BY <3>1 DEF IsHere, AllRead
  <2> QED
    BY <2>1, <2>2
<1>3. ASSUME IsHere(t, "out", n, k["out"]) PROVE Answered(t, m, n + 1)
  <2>1. n + 1 \in 1..Len(t["out"]) /\ End(t, "out", n + 1) <= k["out"]
    BY <1>3 DEF IsHere
  <2> DEFINE a == t["out"][n + 1].after
  <2>2. a \in Nat
    BY <1>1, <2>1, Http2Is DEF Http2Frames
  <2>3. a <= m
    <3>1. CASE a = 0
      BY <1>1, <3>1
    <3>2. CASE a # 0
      <4>1. End(t, "out", n) < End(t, "out", n + 1)
        <5>1. n \in 0..Len(t["out"]) /\ n + 1 \in 0..Len(t["out"]) /\ n < n + 1
          BY <1>1, <2>1
        <5> QED
          BY <1>1, <5>1, EndsGrow
      <4>2. End(t, "out", n) \in Nat /\ End(t, "out", n + 1) \in Nat
        BY <1>1, <2>1, UnitsAre
      <4>3. (n + 1) - 1 = n /\ End(t, "out", n) < k["out"]
        BY <1>1, <2>1, <4>1, <4>2
      <4>4. a \in 1..Len(t["in"]) /\ End(t, "in", a) <= k["in"]
        <5>1. Other("out") = "in"
          BY DEF Other
        <5> QED
          BY <1>1, <2>1, <3>2, <4>3, <5>1 DEF Causal
      <4> HIDE DEF a
      <4> QED
        BY <1>1, <1>2, <4>4, AllReadIs
    <3> QED
      BY <3>1, <3>2
  <2>4. \A i : i \in 1..n + 1 <=> i \in 1..n \/ i = n + 1
    BY <1>1
  <2>5. Answered(t, m, n)
    BY DEF Reads2
  <2> QED
    BY <2>3, <2>4, <2>5 DEF Answered
<1> QED
  BY <1>2, <1>3

\* The next frame to the client.
LEMMA StepOut ==
  ASSUME NEW t, Http2(t), NEW o, NEW s, NEW k, NEW m, NEW n, Reads2(t, o, s, k, m, n),
         \A d \in Directions : k[d] \in 0..Total(t, d),
         IsHere(t, "out", n, k["out"]), Answered(t, m, n + 1),
         NEW r, r = PollOne(t, o, "out")
  PROVE  /\ r.item \in H1Items /\ Reads2(t, r.o, Append(s, r.item), k, m, n + 1)
         /\ Len(r.o["out"]) < Len(o["out"]) /\ r.o["in"] = o["in"]
<1> DEFINE b == SubSeq(o["out"], t["out"][n + 1].len + 1, Len(o["out"]))
           p == Put(o, "out", b)
           h == k["out"]
<1>1. /\ Spoken(t) /\ "in" \in Directions /\ "out" \in Directions /\ h \in 0..Total(t, "out")
      /\ m \in Nat /\ n \in Nat /\ n <= Len(t["out"]) /\ n + 1 \in 1..Len(t["out"])
      /\ t["out"][n + 1].kind # "preface"
  <2>1. Spoken(t) /\ "in" \in Directions /\ "out" \in Directions
    BY Http2Is
  <2>2. m \in Nat /\ n \in Nat /\ n <= Len(t["out"])
    BY ReadsIs
  <2>3. n + 1 \in 1..Len(t["out"])
    BY DEF IsHere
  <2>4. t["out"][n + 1].kind # "preface"
    BY <2>1, <2>3, Http2Is
  <2> QED
    BY <2>1, <2>2, <2>3, <2>4
<1>2. /\ o \in H2Decoders /\ s \in Seq(H1Items) /\ StandsAt(t, "out", o["out"], n, h)
      /\ StandsAt(t, "in", o["in"], m, k["in"]) /\ TableFits(t, o, m, n)
      /\ Listed(t, "in", s) /\ Listed(t, "out", s) /\ (o.prefaced <=> m # 0)
      /\ (m = 0 => AllRead(t, "in", 0, k["in"]))
      /\ ShownOf(s, "in") = Seen(t, "in", m) /\ ShownOf(s, "out") = Seen(t, "out", n)
  BY <1>1, Zenon DEF Reads2
<1> HIDE DEF h
<1>3. /\ StandsAt(t, "out", b, n + 1, h) /\ b \in Seq(Marks) /\ Len(b) < Len(o["out"])
  BY <1>1, <1>2, StandsNext DEF h
<1>4. r = RegularFrame(t, p, "out", n + 1)
  <2>1. IsHere(t, "out", n, h)
    BY DEF h
  <2> QED
    BY <1>1, <1>2, <2>1, PollOneIs
<1> HIDE DEF b
<1>5. p = Put(o, "out", b)
  OBVIOUS
<1> HIDE DEF p
<1>6. /\ p \in H2Decoders /\ p.prefaced = o.prefaced /\ p["out"] = b /\ p["in"] = o["in"]
      /\ \A x : StreamOf(p, x) = StreamOf(o, x)
  <2>1. Other("out") = "in"
    BY DEF Other
  <2>2. p \in H2Decoders /\ p.prefaced = o.prefaced
    BY <1>1, <1>2, <1>3, <1>5, BufferIs
  <2>3. p["out"] = b
    BY <1>1, <1>2, <1>3, <1>5, BufferIs
  <2>4. p[Other("out")] = o[Other("out")]
    BY <1>1, <1>2, <1>3, <1>5, BufferIs
  <2>5. \A x : StreamOf(p, x) = StreamOf(o, x)
    BY <1>1, <1>2, <1>3, <1>5, BufferIs
  <2> QED
    BY <2>1, <2>2, <2>3, <2>4, <2>5
<1>7. TableFits(t, p, m, n)
  BY <1>2, <1>6 DEF TableFits
<1>8. Comes(t, p, "out", n + 1, r) /\ TableFits(t, r.o, m, n + 1)
  BY <1>1, <1>4, <1>6, <1>7, FrameOut
<1>9. /\ r.o \in H2Decoders /\ r.o.prefaced = o.prefaced /\ r.o["out"] = b /\ r.o["in"] = o["in"]
      /\ r.item \in H1Items /\ r.item.dir = "out" /\ r.item.msg = n + 1 /\ Right(t, "out", r.item)
  <2>1. r.o.prefaced = p.prefaced /\ r.o["in"] = p["in"] /\ r.o["out"] = p["out"]
    BY <1>1, <1>8 DEF Comes
  <2> QED
    BY <1>2, <1>6, <1>8, <2>1 DEF Comes
<1> DEFINE l == Append(s, r.item)
<1>10. /\ ShownOf(l, "out") = Seen(t, "out", n + 1) /\ ShownOf(l, "in") = Seen(t, "in", m)
       /\ l \in Seq(H1Items) /\ Visible(t["out"][n + 1])
  <2>1. Visible(t["out"][n + 1])
    BY <1>1, VisibleIs
  <2>2. Other("out") = "in"
    BY DEF Other
  <2>3. ShownOf(l, "out") = Seen(t, "out", n + 1) /\ ShownOf(l, Other("out")) = ShownOf(s, Other("out"))
    BY <1>1, <1>2, <1>9, <2>1, SeenNext
  <2>4. l \in Seq(H1Items)
    BY <1>2, <1>9, AppendShows
  <2> QED
    BY <1>2, <2>1, <2>2, <2>3, <2>4
<1>11. Listed(t, "out", l)
  <2>1. (n + 1) - 1 = n
    BY <1>1
  <2>2. ShownOf(s, "out") = Seen(t, "out", r.item.msg - 1) /\ r.item.msg \in 1..Len(t["out"])
        /\ Visible(t["out"][r.item.msg])
    BY <1>1, <1>2, <1>9, <1>10, <2>1
  <2> QED
    BY <1>2, <1>9, <2>2, ListedGrows
<1>12. Listed(t, "in", l)
  <2>1. r.item.dir # "in"
    BY <1>9
  <2> QED
    BY <1>2, <1>9, <2>1, ListedGrows
<1> HIDE DEF l
<1>13. o.prefaced \in BOOLEAN /\ (r.o.prefaced <=> m # 0)
  BY <1>2, <1>9 DEF H2Decoders
<1>14. Reads2(t, r.o, l, k, m, n + 1)
  BY <1>2, <1>3, <1>8, <1>9, <1>10, <1>11, <1>12, <1>13 DEF Reads2, h
<1> QED
  BY <1>3, <1>9, <1>14 DEF l

-----------------------------------------------------------------------------
(***************************************************************************)
(* HTTP/2: one event, H2Observer::write and the polls that follow it.      *)
(***************************************************************************)
\* How much is in the buffers.
Size(o) == Len(o["in"]) + Len(o["out"])
Polls == [o : H2Decoders, done : BOOLEAN, items : Seq(H1Items)]
PollFrom(o) == [o |-> o, done |-> FALSE, items |-> <<>>]

\* A buffer has become shorter.
LEMMA SizeLess ==
  ASSUME NEW o \in H2Decoders, NEW p \in H2Decoders,
         \/ Len(p["in"]) < Len(o["in"]) /\ p["out"] = o["out"]
         \/ Len(p["out"]) < Len(o["out"]) /\ p["in"] = o["in"]
  PROVE  Size(p) < Size(o) /\ Size(o) \in Nat
<1> DEFINE a == Len(o["in"])
           b == Len(o["out"])
           c == Len(p["in"])
           e == Len(p["out"])
<1>1. o["in"] \in Seq(Marks) /\ o["out"] \in Seq(Marks) /\ p["in"] \in Seq(Marks) /\ p["out"] \in Seq(Marks)
  BY DEF H2Decoders
<1>2. a \in Nat /\ b \in Nat /\ c \in Nat /\ e \in Nat
  BY <1>1
<1>3. (c < a /\ e = b) \/ (e < b /\ c = a)
  OBVIOUS
<1>4. Size(o) = a + b /\ Size(p) = c + e
  BY DEF Size
<1> HIDE DEF a, b, c, e
<1> QED
  BY <1>2, <1>3, <1>4

\* ParseH2 polls once more than there are units.
LEMMA ParseDef ==
  ASSUME NEW t, NEW o, Size(o) \in Nat
  PROVE  \E f : /\ f[0] = PollFrom(o)
                /\ \A n \in 1..Size(o) + 1 : f[n] = Poll(t, f[n - 1])
                /\ ParseH2(t, o) = f[Size(o) + 1]
<1> DEFINE L == Size(o) + 1
           acc == [o |-> o, done |-> FALSE, items |-> <<>>]
           Do(f, n) == IF n = 0 THEN acc ELSE Poll(t, f[n - 1])
           S == {n \in 0..L : \E f : f = [i \in 0..n |-> Do(f, i)]}
           F == CHOOSE f : f = [i \in 0..L |-> Do(f, i)]
<1>0. L \in Nat
  OBVIOUS
<1>1. 0 \in S
  <2> DEFINE f == [i \in 0..0 |-> acc]
  <2>1. f = [i \in 0..0 |-> Do(f, i)]
    OBVIOUS
  <2>2. 0 \in 0..L
    BY <1>0
  <2> HIDE DEF f, Do
  <2> QED
    BY <2>1, <2>2
<1>2. ASSUME NEW n \in 1..L, n - 1 \in S PROVE n \in S
  <2>1. PICK f : f = [i \in 0..n - 1 |-> Do(f, i)]
    BY <1>2
  <2> DEFINE g == [i \in 0..n |-> IF i \in 0..n - 1 THEN f[i] ELSE Do(f, i)]
  <2>2. \A i \in 0..n : g[i] = Do(g, i)
    <3> TAKE i \in 0..n
    <3>1. i # 0 => i - 1 \in 0..n - 1 /\ g[i - 1] = f[i - 1]
      OBVIOUS
    <3>2. Do(g, i) = Do(f, i)
      BY <3>1
    <3>3. i \in 0..n - 1 => f[i] = Do(f, i)
      BY <2>1
    <3> QED
      BY <3>2, <3>3
  <2> HIDE DEF g
  <2>3. g = [i \in 0..n |-> Do(g, i)]
    BY <2>2 DEF g
  <2> QED
    BY <1>0, <2>3
<1>3. L \in S
  <2> HIDE DEF S, L
  <2>1. \A n \in 0..L : n \in S
    BY <1>0, <1>1, <1>2, UpTo
  <2> QED
    BY <1>0, <2>1
<1>4. F = [i \in 0..L |-> Do(F, i)]
  BY <1>3
<1>5. ParseH2(t, o) = F[L]
  BY Zenon DEF ParseH2, Size
<1> HIDE DEF S, F
<1>6. \A i \in 0..L : F[i] = Do(F, i)
  BY <1>4
<1>7. 0 \in 0..L /\ \A i \in 1..L : i \in 0..L /\ i # 0
  BY <1>0
<1>8. F[0] = acc /\ \A n \in 1..L : F[n] = Poll(t, F[n - 1])
  BY <1>6, <1>7
<1> QED
  BY <1>5, <1>8 DEF PollFrom

\* What every poll keeps, ParseH2 keeps; at its end nothing more comes, because every
\* poll that something comes of makes the buffers shorter (h2_parser.rs 391-437).
LEMMA ParseKeeps ==
  ASSUME NEW t, NEW o, NEW S, PollFrom(o) \in S,
         \A a \in S : Size(a.o) \in Nat,
         \A a \in S : ~a.done => /\ Poll(t, a) \in S
                                 /\ Poll(t, a).done \/ Size(Poll(t, a).o) < Size(a.o)
  PROVE  ParseH2(t, o) \in S /\ ParseH2(t, o).done
<1> DEFINE L == Size(o)
<1>1. L \in Nat
  BY DEF PollFrom
<1>2. PICK f : /\ f[0] = PollFrom(o)
               /\ \A n \in 1..L + 1 : f[n] = Poll(t, f[n - 1])
               /\ ParseH2(t, o) = f[L + 1]
  BY <1>1, ParseDef
<1> DEFINE T == {n \in 0..L + 1 : f[n] \in S /\ (f[n].done \/ Size(f[n].o) <= L - n)}
<1>3. 0 \in T
  <2>1. Size(f[0].o) = L
    BY <1>2 DEF PollFrom
  <2> QED
    BY <1>1, <1>2, <2>1
<1>4. ASSUME NEW n \in 1..L + 1, n - 1 \in T PROVE n \in T
  <2>1. f[n] = Poll(t, f[n - 1])
    BY <1>2
  <2>2. f[n - 1] \in S /\ (f[n - 1].done \/ Size(f[n - 1].o) <= L - (n - 1))
    BY <1>4
  <2>3. CASE f[n - 1].done
    <3>1. f[n] = f[n - 1]
      BY <2>1, <2>3 DEF Poll
    <3> QED
      BY <2>2, <2>3, <3>1
  <2>4. CASE ~f[n - 1].done
    <3>1. f[n] \in S /\ (f[n].done \/ Size(f[n].o) < Size(f[n - 1].o))
      BY <2>1, <2>2, <2>4
    <3>2. Size(f[n].o) \in Nat /\ Size(f[n - 1].o) \in Nat
      BY <2>2, <3>1
    <3>3. Size(f[n - 1].o) <= L - (n - 1)
      BY <2>2, <2>4
    <3> DEFINE k == Size(f[n].o)
               l == Size(f[n - 1].o)
    <3>4. (f[n].done \/ k < l) /\ k \in Nat /\ l \in Nat /\ l <= L - (n - 1) /\ n \in Nat
      BY <3>1, <3>2, <3>3
    <3> HIDE DEF k, l, L
    <3>5. f[n].done \/ k <= L - n
      BY <1>1, <3>4
    <3>6. f[n].done \/ Size(f[n].o) <= L - n
      BY <3>5 DEF k
    <3> QED
      BY <3>1, <3>6
  <2> QED
    BY <2>3, <2>4
<1>5. L + 1 \in T
  <2> HIDE DEF T, L
  <2>1. L + 1 \in Nat
    BY <1>1
  <2>2. \A n \in 0..L + 1 : n \in T
    BY <2>1, <1>3, <1>4, UpTo
  <2> QED
    BY <2>1, <2>2
<1>6. f[L + 1] \in S /\ (f[L + 1].done \/ Size(f[L + 1].o) <= L - (L + 1))
  BY <1>5
<1>7. Size(f[L + 1].o) \in Nat
  BY <1>6
<1> QED
  <2> DEFINE k == Size(f[L + 1].o)
  <2>1. k \in Nat /\ (f[L + 1].done \/ k <= L - (L + 1))
    BY <1>6, <1>7
  <2> HIDE DEF k, L
  <2>2. f[L + 1].done
    BY <1>1, <2>1
  <2> QED
    BY <1>2, <1>6, <2>2

\* One more item behind a list.
LEMMA BehindNext ==
  ASSUME NEW s \in Seq(H1Items), NEW i \in Seq(H1Items), NEW x \in H1Items
  PROVE  s \o Append(i, x) = Append(s \o i, x) /\ Append(i, x) \in Seq(H1Items)
<1> DEFINE a == [o |-> [mode |-> "http", in |-> <<>>, out |-> <<>>], items |-> i]
           b == [o |-> <<>>, items |-> Append(i, x)]
<1>1. a \in Readings
  <2>1. <<>> \in Seq(Marks)
    BY EmptySeq
  <2> QED
    BY <2>1 DEF Readings, H1Decoders, Modes
<1>2. ItemsOf(b) = Append(i, x) /\ ItemsOf(a) = i /\ Behind(s, a) = s \o i
      /\ Behind(s, b) = s \o Append(i, x)
  BY DEF ItemsOf, Behind
<1> HIDE DEF a, b
<1>3. Behind(s, b) = Append(Behind(s, a), x)
  BY <1>1, <1>2, BehindGrows
<1> QED
  BY <1>2, <1>3, AppendProperties

\* Both directions have been read as far as can be.
ReadOut(t, k, m, n) == AllRead(t, "in", m, k["in"]) /\ AllRead(t, "out", n, k["out"])

\* One poll: a frame of the client's if one is there, else one to it, else none.
LEMMA PollStep ==
  ASSUME NEW t, Http2(t), None \notin H1Items, NEW s \in Seq(H1Items), NEW k,
         \A d \in Directions : k[d] \in 0..Total(t, d), Causal(t, k),
         NEW a \in Polls, ~a.done, NEW m, NEW n, Reads2(t, a.o, s \o a.items, k, m, n),
         NEW b, b = Poll(t, a)
  PROVE  /\ b \in Polls /\ (b.done \/ Size(b.o) < Size(a.o))
         /\ \E i, j \in Nat : /\ Reads2(t, b.o, s \o b.items, k, i, j)
                              /\ b.done => ReadOut(t, k, i, j)
<1> DEFINE o == a.o
           l == s \o a.items
<1>1. /\ o \in H2Decoders /\ a.items \in Seq(H1Items) /\ Reads2(t, o, l, k, m, n)
      /\ "in" \in Directions /\ "out" \in Directions
      /\ k["in"] \in 0..Total(t, "in") /\ k["out"] \in 0..Total(t, "out")
  BY Http2Is DEF Polls
<1>2. /\ m \in Nat /\ n \in Nat
      /\ StandsAt(t, "in", o["in"], m, k["in"]) /\ StandsAt(t, "out", o["out"], n, k["out"])
      /\ o["in"] \in Seq(Marks) /\ o["out"] \in Seq(Marks)
      /\ Len(o["in"]) \in Nat /\ Len(o["out"]) \in Nat
  <2>1. m \in Nat /\ n \in Nat
    BY <1>1, ReadsIs
  <2>2. StandsAt(t, "in", o["in"], m, k["in"]) /\ StandsAt(t, "out", o["out"], n, k["out"])
    BY <1>1 DEF Reads2
  <2>3. o["in"] \in Seq(Marks) /\ o["out"] \in Seq(Marks)
    BY <1>1 DEF H2Decoders
  <2> QED
    BY <2>1, <2>2, <2>3
<1> HIDE DEF o, l
<1>3. /\ \A x \in H1Items : s \o Append(a.items, x) = Append(l, x) /\ Append(a.items, x) \in Seq(H1Items)
  BY <1>1, BehindNext DEF l
<1> DEFINE r == PollNext(t, o)
<1>4. b = [o |-> r.o, done |-> r.item = None,
           items |-> IF r.item = None THEN a.items ELSE Append(a.items, r.item)]
  BY DEF Poll, o
<1> DEFINE p == PollOne(t, o, "in")
<1>5. r = IF p.item # None THEN p ELSE PollOne(t, p.o, "out")
  BY DEF PollNext
<1> HIDE DEF r, p
<1>6. ASSUME r.item \in H1Items, r.o \in H2Decoders, Size(r.o) < Size(o), NEW i \in Nat, NEW j \in Nat,
             Reads2(t, r.o, Append(l, r.item), k, i, j)
      PROVE  /\ b \in Polls /\ (b.done \/ Size(b.o) < Size(a.o))
             /\ \E u, v \in Nat : /\ Reads2(t, b.o, s \o b.items, k, u, v)
                                  /\ b.done => ReadOut(t, k, u, v)
  <2>1. r.item # None
    BY <1>6
  <2>7. b = [o |-> r.o, done |-> FALSE, items |-> Append(a.items, r.item)]
    <3>1. (r.item = None) = FALSE
      BY <2>1
    <3> QED
      BY <1>4, <2>1, <3>1
  <2>2. b.o = r.o /\ b.done = FALSE /\ b.items = Append(a.items, r.item)
    BY <2>7
  <2>3. b.items \in Seq(H1Items) /\ s \o b.items = Append(l, r.item)
    BY <1>3, <1>6, <2>2
  <2>4. b \in Polls
    BY <1>6, <2>7, <2>2, <2>3 DEF Polls
  <2>5. Size(b.o) < Size(a.o)
    BY <1>6, <2>2 DEF o
  <2> QED
    BY <1>6, <2>2, <2>3, <2>4, <2>5
<1>7. CASE IsHere(t, "in", m, k["in"]) /\ t["in"][m + 1].kind # "preface"
  <2>1. /\ p.item \in H1Items /\ Reads2(t, p.o, Append(l, p.item), k, m + 1, n)
        /\ Len(p.o["in"]) < Len(o["in"]) /\ p.o["out"] = o["out"]
    BY <1>1, <1>7, StepIn DEF p
  <2>2. r = p
    BY <1>5, <2>1
  <2>3. p.o \in H2Decoders
    BY <2>1 DEF Reads2
  <2>5. Size(p.o) < Size(o)
    BY <1>1, <2>1, <2>3, SizeLess
  <2>6. m + 1 \in Nat
    BY <1>2
  <2> QED
    BY <1>2, <1>6, <2>1, <2>2, <2>3, <2>5, <2>6
<1>8. CASE ~(IsHere(t, "in", m, k["in"]) /\ t["in"][m + 1].kind # "preface")
  <2>1. p = [o |-> o, item |-> None]
    BY <1>1, <1>2, <1>8, PollOneIs DEF p
  <2>2. r = PollOne(t, o, "out")
    BY <1>5, <2>1
  <2>3. /\ AllRead(t, "in", m, k["in"])
        /\ IsHere(t, "out", n, k["out"]) => Answered(t, m, n + 1)
    BY <1>1, <1>8, AskedFor
  <2>4. CASE IsHere(t, "out", n, k["out"])
    <3>1. /\ r.item \in H1Items /\ Reads2(t, r.o, Append(l, r.item), k, m, n + 1)
          /\ Len(r.o["out"]) < Len(o["out"]) /\ r.o["in"] = o["in"]
      BY <1>1, <2>2, <2>3, <2>4, StepOut
    <3>3. r.o \in H2Decoders
      BY <3>1 DEF Reads2
    <3>5. Size(r.o) < Size(o)
      BY <1>1, <3>1, <3>3, SizeLess
    <3>6. n + 1 \in Nat
      BY <1>2
    <3> QED
      BY <1>2, <1>6, <3>1, <3>3, <3>5, <3>6
  <2>5. CASE ~IsHere(t, "out", n, k["out"])
    <3>1. r = [o |-> o, item |-> None]
      BY <1>1, <1>2, <2>2, <2>5, PollOneIs
    <3>6. b = [o |-> o, done |-> TRUE, items |-> a.items]
      <4>1. r.item = None /\ r.o = o /\ (r.item = None) = TRUE
        BY <3>1
      <4> QED
        BY <1>4, <4>1
    <3>2. b.o = o /\ b.done = TRUE /\ b.items = a.items
      BY <3>6
    <3>3. b \in Polls
      BY <1>1, <3>6 DEF Polls
    <3>4. AllRead(t, "out", n, k["out"])
      BY <2>5 DEF IsHere, AllRead
    <3>5. Reads2(t, b.o, s \o b.items, k, m, n)
      BY <1>1, <3>2 DEF l
    <3> QED
      BY <1>2, <2>3, <3>2, <3>3, <3>4, <3>5 DEF ReadOut
  <2> QED
    BY <2>4, <2>5
<1> QED
  BY <1>7, <1>8

\* More of a direction goes by.
LEMMA StandsMore ==
  ASSUME NEW t, Spoken(t), NEW d \in Directions, NEW g \in 0..Total(t, d), NEW h \in 0..g,
         NEW b, NEW n, StandsAt(t, d, b, n, h)
  PROVE  StandsAt(t, d, b \o News(t, d, h, g), n, g)
<1>1. n \in 0..Len(t[d]) /\ End(t, d, n) <= h /\ b = Window(t, d, End(t, d, n), h)
  BY DEF StandsAt
<1>2. End(t, d, n) \in Nat /\ Total(t, d) \in Nat
  BY <1>1, UnitsAre, AllAre
<1>3. End(t, d, n) \in 0..h /\ End(t, d, n) <= g
  BY <1>1, <1>2
<1>4. b \o News(t, d, h, g) = Window(t, d, End(t, d, n), g)
  BY <1>1, <1>3, WindowGrows DEF News
<1> QED
  BY <1>1, <1>3, <1>4 DEF StandsAt

\* The numbers of units before and after an event.
LEMMA HearsAre ==
  ASSUME NEW t, Spoken(t), NEW d \in Directions, NEW h, NEW k, Hears(t, d, h, k)
  PROVE  \A e \in Directions :
           /\ h[e] \in 0..Total(t, e) /\ k[e] \in 0..Total(t, e) /\ h[e] \in 0..k[e]
           /\ h[e] \in Nat /\ k[e] \in Nat
<1> SUFFICES ASSUME NEW e \in Directions
             PROVE  /\ h[e] \in 0..Total(t, e) /\ k[e] \in 0..Total(t, e) /\ h[e] \in 0..k[e]
                    /\ h[e] \in Nat /\ k[e] \in Nat
  OBVIOUS
<1>1. h[e] \in 0..Total(t, e) /\ k[e] \in 0..Total(t, e) /\ h[d] <= k[d] /\ k[Other(d)] = h[Other(d)]
  BY DEF Hears
<1>2. Total(t, e) \in Nat
  BY AllAre
<1>3. h[e] \in Nat /\ k[e] \in Nat
  BY <1>1, <1>2
<1>4. e = d \/ e = Other(d)
  BY DEF Directions, Other
<1>5. h[e] <= k[e]
  BY <1>1, <1>3, <1>4
<1> QED
  BY <1>1, <1>3, <1>5

\* The client's first frame is its preface: it changes no stream and is not seen.
LEMMA Prefaced ==
  ASSUME NEW t, Http2(t), NEW o, NEW n \in Nat, n <= Len(t["out"]), 1 \in 1..Len(t["in"]),
         Answered(t, 0, n), TableFits(t, o, 0, n)
  PROVE  /\ Answered(t, 1, n) /\ TableFits(t, o, 1, n)
         /\ Seen(t, "in", 1) = Seen(t, "in", 0)
<1>1. "in" \in Directions /\ "out" \in Directions /\ t["in"][1].kind = "preface"
      /\ Len(t["out"]) \in Nat
  BY Http2Is DEF Spoken
<1>2. \A x : ~OnStream(t, "in", x, 1)
  BY <1>1 DEF OnStream
<1>3. TableFits(t, o, 1, n)
  <2>1. 0 \in Nat /\ 0 + 1 = 1
    OBVIOUS
  <2>2. ASSUME NEW x \in Nat PROVE EntryIs(t, x, StreamOf(o, x), 1, n)
    <3>1. EntryIs(t, x, StreamOf(o, x), 0, n)
      BY DEF TableFits
    <3>2. EntryIs(t, x, StreamOf(o, x), 0 + 1, n)
      <4>1. ~OnStream(t, "in", x, 0 + 1)
        BY <1>2
      <4> QED
        BY <3>1, <4>1, <2>1, InElse
    <3> QED
      BY <3>2
  <2> QED
    BY <2>2 DEF TableFits
<1>4. Answered(t, 1, n)
  <2> SUFFICES ASSUME NEW i \in 1..n PROVE t["out"][i].after <= 1
    BY DEF Answered
  <2>1. i \in 1..Len(t["out"]) /\ t["out"][i].after <= 0
    BY <1>1 DEF Answered
  <2>2. t["out"][i].after \in Nat
    BY <1>1, <2>1, Http2Is DEF Http2Frames
  <2> QED
    BY <2>1, <2>2
<1>5. Seen(t, "in", 1) = Seen(t, "in", 0)
  <2>1. ~Visible(t["in"][1])
    BY <1>1 DEF Visible
  <2>2. Seen(t, "in", 1) = {} /\ Seen(t, "in", 0) = {}
    BY <2>1 DEF Seen
  <2> QED
    BY <2>2
<1> QED
  BY <1>3, <1>4, <1>5

\* H2Observer::write: more units, and the preface is taken when it is there
\* (h2_parser.rs 320-390).
LEMMA WriteReads ==
  ASSUME NEW t, Http2(t), NEW o, NEW s, NEW h, NEW m, NEW n, Reads2(t, o, s, h, m, n),
         NEW d \in Directions, NEW k, Hears(t, d, h, k),
         NEW w, w = WriteH2(t, o, d, News(t, d, h[d], k[d]))
  PROVE  \E i \in Nat : Reads2(t, w, s, k, i, n)
<1> DEFINE buffer == o[d] \o News(t, d, h[d], k[d])
           takes == /\ d = "in" /\ ~o.prefaced
                    /\ InStep(buffer) /\ First(t, buffer).kind = "preface"
                    /\ Len(buffer) >= First(t, buffer).len
           place == IF d = "in" THEN m ELSE n
<1>1. /\ Spoken(t) /\ "in" \in Directions /\ "out" \in Directions
      /\ m \in Nat /\ n \in Nat /\ n <= Len(t["out"])
  BY Http2Is, ReadsIs
<1>2. \A e \in Directions :
        /\ h[e] \in 0..Total(t, e) /\ k[e] \in 0..Total(t, e) /\ h[e] \in 0..k[e]
        /\ h[e] \in Nat /\ k[e] \in Nat
  BY <1>1, HearsAre
<1>3. /\ o \in H2Decoders /\ s \in Seq(H1Items)
      /\ StandsAt(t, "in", o["in"], m, h["in"]) /\ StandsAt(t, "out", o["out"], n, h["out"])
      /\ o.prefaced <=> m # 0
      /\ m = 0 => AllRead(t, "in", 0, h["in"])
      /\ Answered(t, m, n) /\ TableFits(t, o, m, n) /\ Listed(t, "in", s) /\ Listed(t, "out", s)
      /\ ShownOf(s, "in") = Seen(t, "in", m) /\ ShownOf(s, "out") = Seen(t, "out", n)
  BY Zenon DEF Reads2
<1>4. k[Other(d)] = h[Other(d)]
  BY DEF Hears
<1>5. StandsAt(t, d, o[d], place, h[d])
  BY <1>3 DEF Directions
<1>6. StandsAt(t, d, buffer, place, k[d])
  BY <1>1, <1>2, <1>5, StandsMore
<1>7. buffer \in Seq(Marks)
  <2> HIDE DEF buffer, place
  <2> QED
    BY <1>1, <1>2, <1>6, StandsIs
<1>8. CASE takes
  <2> DEFINE l == First(t, buffer).len
             b == SubSeq(buffer, l + 1, Len(buffer))
  <2>1. d = "in" /\ m = 0 /\ ~o.prefaced /\ place = 0
    BY <1>3, <1>8
  <2>2. w = [o EXCEPT !["in"] = b, !.prefaced = TRUE]
    BY <1>8, <2>1 DEF WriteH2
  <2>3. /\ 1 \in 1..Len(t["in"]) /\ First(t, buffer) = t["in"][1] /\ End(t, "in", 1) <= k["in"]
    <3>1. InStep(buffer) /\ Len(buffer) >= First(t, buffer).len
      BY <1>8
    <3>2. StandsAt(t, "in", buffer, 0, k["in"]) /\ k["in"] \in 0..Total(t, "in")
      BY <1>1, <1>2, <1>6, <2>1
    <3> HIDE DEF buffer
    <3>3. /\ 0 + 1 \in 1..Len(t["in"]) /\ First(t, buffer) = t["in"][0 + 1]
          /\ Len(buffer) >= t["in"][0 + 1].len => End(t, "in", 0 + 1) <= k["in"]
      BY <1>1, <3>1, <3>2, StandsIs
    <3> QED
      BY <3>1, <3>3
  <2>4. StandsAt(t, "in", b, 1, k["in"]) /\ b \in Seq(Marks)
    <3>1. StandsAt(t, "in", buffer, 0, k["in"]) /\ k["in"] \in 0..Total(t, "in")
      BY <1>1, <1>2, <1>6, <2>1
    <3>2. l = t["in"][0 + 1].len /\ IsHere(t, "in", 0, k["in"]) /\ 0 + 1 = 1
      BY <2>3 DEF IsHere
    <3> HIDE DEF buffer, l
    <3>3. /\ StandsAt(t, "in", SubSeq(buffer, l + 1, Len(buffer)), 0 + 1, k["in"])
          /\ SubSeq(buffer, l + 1, Len(buffer)) \in Seq(Marks)
      BY <1>1, <3>1, <3>2, StandsNext
    <3> QED
      BY <3>3
  <2> HIDE DEF b
  <2>5. w \in H2Decoders /\ w["in"] = b /\ w["out"] = o["out"] /\ w.prefaced /\ w.streams = o.streams
    BY <1>3, <2>2, <2>4 DEF H2Decoders
  <2>6. Answered(t, 1, n) /\ TableFits(t, o, 1, n) /\ Seen(t, "in", 1) = Seen(t, "in", 0)
    BY <1>1, <1>3, <2>1, <2>3, Prefaced
  <2>7. TableFits(t, w, 1, n)
    BY <2>5, <2>6 DEF TableFits, StreamOf
  <2>8. StandsAt(t, "out", w["out"], n, k["out"])
    BY <1>3, <1>4, <2>1, <2>5 DEF Other
  <2>9. Reads2(t, w, s, k, 1, n)
    BY <1>3, <2>1, <2>4, <2>5, <2>6, <2>7, <2>8 DEF Reads2
  <2> QED
    BY <2>9
<1>9. CASE ~takes
  <2>1. w = Put(o, d, buffer)
    BY <1>9 DEF WriteH2, Put
  <2>2. m = 0 => AllRead(t, "in", 0, k["in"])
    <3>1. CASE d = "in"
      <4> SUFFICES ASSUME m = 0, 0 + 1 \in 1..Len(t["in"]), End(t, "in", 0 + 1) <= k["in"]
                   PROVE  FALSE
        BY DEF AllRead
      <4>1. StandsAt(t, "in", buffer, 0, k["in"]) /\ IsHere(t, "in", 0, k["in"])
            /\ k["in"] \in 0..Total(t, "in")
        BY <1>1, <1>2, <1>6, <3>1 DEF IsHere
      <4>2. t["in"][0 + 1].kind = "preface"
        BY <1>1, Http2Is
      <4> HIDE DEF buffer
      <4>3. InStep(buffer) /\ Len(buffer) >= t["in"][0 + 1].len
        BY <1>1, <4>1, StandsIs
      <4>4. First(t, buffer) = t["in"][0 + 1]
        BY <1>1, <4>1, <4>3, StandsIs
      <4> QED
        BY <1>3, <1>9, <3>1, <4>2, <4>3, <4>4
    <3>2. CASE d = "out"
      BY <1>3, <1>4, <3>2 DEF Other
    <3> QED
      BY <3>1, <3>2 DEF Directions
  <2> HIDE DEF buffer
  <2>3. w \in H2Decoders /\ w.prefaced = o.prefaced
    BY <1>3, <1>7, <2>1, BufferIs
  <2>4. w[d] = buffer
    BY <1>3, <1>7, <2>1, BufferIs
  <2>5. w[Other(d)] = o[Other(d)]
    BY <1>3, <1>7, <2>1, BufferIs
  <2>6. \A x : StreamOf(w, x) = StreamOf(o, x)
    BY <1>3, <1>7, <2>1, BufferIs
  <2>7. StandsAt(t, "in", w["in"], m, k["in"]) /\ StandsAt(t, "out", w["out"], n, k["out"])
    <3>1. CASE d = "in"
      BY <1>3, <1>4, <1>6, <2>4, <2>5, <3>1 DEF Other
    <3>2. CASE d = "out"
      BY <1>3, <1>4, <1>6, <2>4, <2>5, <3>2 DEF Other
    <3> QED
      BY <3>1, <3>2 DEF Directions
  <2>8. TableFits(t, w, m, n)
    BY <1>3, <2>6 DEF TableFits
  <2>9. Reads2(t, w, s, k, m, n)
    BY <1>3, <2>2, <2>3, <2>7, <2>8 DEF Reads2
  <2> QED
    BY <1>1, <2>9
<1> QED
  BY <1>8, <1>9

\* Decoder o and list s follow what has been heard of a conversation over HTTP/2.
Follows2(o, t, s, h, g) ==
  /\ \A d \in Directions : g[d] \in 0..h[d] /\ h[d] \in 0..Total(t, d)
  /\ \E m, n \in Nat : Reads2(t, o, s, h, m, n) /\ ReadOut(t, h, m, n)

\* They follow whatever units an event brings (observer.rs 229-345,
\* h2_parser.rs 320-437).
LEMMA Follows2Hears ==
  ASSUME NEW t, Http2(t), None \notin H1Items, NEW o, NEW s, NEW h, NEW g, Follows2(o, t, s, h, g),
         NEW d \in Directions, NEW k, Hears(t, d, h, k),
         NEW z, z = ParseH2(t, WriteH2(t, o, d, News(t, d, h[d], k[d])))
  PROVE  z \in Polls /\ Follows2(z.o, t, s \o z.items, k, h)
<1>1. PICK m \in Nat, n \in Nat : Reads2(t, o, s, h, m, n)
  BY DEF Follows2
<1> DEFINE w == WriteH2(t, o, d, News(t, d, h[d], k[d]))
           S == {a \in Polls :
                   \E i, j \in Nat : /\ Reads2(t, a.o, s \o a.items, k, i, j)
                                     /\ a.done => ReadOut(t, k, i, j)}
<1>2. \E i \in Nat : Reads2(t, w, s, k, i, n)
  BY <1>1, WriteReads
<1> HIDE DEF w
<1>3. s \in Seq(H1Items) /\ w \in H2Decoders
  BY <1>2 DEF Reads2
<1>4. PollFrom(w) \in S
  <2>1. <<>> \in Seq(H1Items) /\ s \o <<>> = s
    BY <1>3, EmptySeq
  <2>2. PollFrom(w) \in Polls /\ PollFrom(w).o = w /\ ~PollFrom(w).done /\ PollFrom(w).items = <<>>
    BY <1>3, <2>1 DEF PollFrom, Polls
  <2> QED
    BY <1>2, <2>1, <2>2
<1>5. \A a \in S : Size(a.o) \in Nat
  <2> TAKE a \in S
  <2>1. a.o \in H2Decoders
    BY DEF Polls
  <2>2. a.o["in"] \in Seq(Marks) /\ a.o["out"] \in Seq(Marks)
    BY <2>1 DEF H2Decoders
  <2>3. Len(a.o["in"]) \in Nat /\ Len(a.o["out"]) \in Nat
    BY <2>2
  <2> DEFINE u == Len(a.o["in"])
             v == Len(a.o["out"])
  <2>4. Size(a.o) = u + v
    BY DEF Size
  <2> HIDE DEF u, v
  <2>5. u \in Nat /\ v \in Nat
    BY <2>3 DEF u, v
  <2> QED
    BY <2>4, <2>5
<1>6. (\A e \in Directions : k[e] \in 0..Total(t, e) /\ h[e] \in 0..k[e]) /\ Causal(t, k)
  <2>1. Spoken(t)
    BY Http2Is
  <2>2. \A e \in Directions : k[e] \in 0..Total(t, e) /\ h[e] \in 0..k[e]
    BY <2>1, HearsAre
  <2> QED
    BY <2>2 DEF Hears
<1>7. ASSUME NEW a \in S, ~a.done
      PROVE  Poll(t, a) \in S /\ (Poll(t, a).done \/ Size(Poll(t, a).o) < Size(a.o))
  <2>1. a \in Polls /\ \E i, j \in Nat : Reads2(t, a.o, s \o a.items, k, i, j)
    OBVIOUS
  <2> DEFINE b == Poll(t, a)
  <2> HIDE DEF b
  <2>2. /\ b \in Polls /\ (b.done \/ Size(b.o) < Size(a.o))
        /\ \E i, j \in Nat : /\ Reads2(t, b.o, s \o b.items, k, i, j)
                             /\ b.done => ReadOut(t, k, i, j)
    BY <1>3, <1>6, <1>7, <2>1, PollStep DEF b
  <2> QED
    BY <2>2 DEF b
<1>8. z \in S /\ z.done
  <2>1. z = ParseH2(t, w)
    BY DEF w
  <2> HIDE DEF S
  <2> QED
    BY <1>4, <1>5, <1>7, <2>1, ParseKeeps
<1> QED
  BY <1>6, <1>8 DEF Follows2

\* At first nothing has been read.
LEMMA Follows2Start ==
  ASSUME NEW t, Http2(t), NEW h, NEW g, \A d \in Directions : h[d] = 0 /\ g[d] = 0
  PROVE  Follows2(NewH2, t, <<>>, h, g)
<1>1. /\ Spoken(t) /\ "in" \in Directions /\ "out" \in Directions
      /\ h["in"] = 0 /\ h["out"] = 0
  BY Http2Is
<1>2. ASSUME NEW d \in Directions
      PROVE  /\ StandsAt(t, d, <<>>, 0, 0) /\ 0 \in 0..Total(t, d) /\ AllRead(t, d, 0, 0)
  <2>1. Len(t[d]) \in Nat /\ Total(t, d) \in Nat /\ End(t, d, 0) = 0
    BY <1>1, UnitsAre, AllAre DEF Spoken
  <2>2. 0 \in 0..Total(t, d) /\ 0 \in 0..Len(t[d]) /\ 0 \in 0..0
    BY <2>1
  <2>3. Window(t, d, 0, 0) = <<>>
    BY <1>1, <2>2, WindowIs
  <2>4. ASSUME 0 + 1 \in 1..Len(t[d]) PROVE ~(End(t, d, 0 + 1) <= 0)
    <3>1. 0 + 1 \in 0..Len(t[d]) /\ 0 < 0 + 1
      BY <2>1, <2>4
    <3>2. End(t, d, 0) < End(t, d, 0 + 1) /\ End(t, d, 0 + 1) \in Nat
      BY <1>1, <2>2, <3>1, EndsGrow, UnitsAre
    <3> QED
      BY <2>1, <3>2
  <2> QED
    BY <2>1, <2>2, <2>3, <2>4 DEF StandsAt, AllRead
<1>3. NewH2 \in H2Decoders /\ \A x : StreamOf(NewH2, x) = NewStream
  <2>1. <<>> \in Seq(Marks)
    BY EmptySeq
  <2>2. <<>> \in Tables
    <3>1. <<>> \in [{} -> Entries]
      OBVIOUS
    <3>2. {} \in SUBSET Nat
      OBVIOUS
    <3> QED
      BY <3>1, <3>2 DEF Tables
  <2>3. DOMAIN NewH2.streams = {}
    BY DEF NewH2
  <2> QED
    BY <2>1, <2>2, <2>3 DEF NewH2, H2Decoders, StreamOf
<1>4. NewH2["in"] = <<>> /\ NewH2["out"] = <<>> /\ NewH2.prefaced = FALSE
  BY DEF NewH2
<1>5. TableFits(t, NewH2, 0, 0)
  <2>1. ASSUME NEW x \in Nat PROVE EntryIs(t, x, NewStream, 0, 0)
    <3>1. ~Begun2(t, "in", x, 0) /\ ~Begun2(t, "out", x, 0) /\ ~Over(t, "in", x, 0)
      BY DEF Begun2, Over
    <3>2. DataOf(t, "out", x, 0) = <<>>
      BY <1>1, DataOfIs
    <3>3. OneWay(<<>>, "out") = <<>>
      BY OneWayNone
    <3>4. NewStream.body = <<>>
      BY DEF NewStream
    <3> QED
      BY <3>1, <3>2, <3>3, <3>4 DEF EntryIs
  <2> QED
    BY <1>3, <2>1 DEF TableFits
<1>6. Answered(t, 0, 0)
  BY DEF Answered
<1>7. \A d \in Directions : Listed(t, d, <<>>) /\ ShownOf(<<>>, d) = {} /\ Seen(t, d, 0) = {}
  BY DEF Listed, ShownOf, BeforeIn, Seen
<1>8. <<>> \in Seq(H1Items)
  BY EmptySeq
<1>9. Reads2(t, NewH2, <<>>, h, 0, 0)
  BY <1>1, <1>2, <1>3, <1>4, <1>5, <1>6, <1>7, <1>8 DEF Reads2
<1>10. ReadOut(t, h, 0, 0)
  BY <1>1, <1>2 DEF ReadOut
<1>11. \A d \in Directions : g[d] \in 0..h[d] /\ h[d] \in 0..Total(t, d)
  BY <1>2
<1>12. 0 \in Nat
  OBVIOUS
<1> QED
  BY <1>9, <1>10, <1>11, <1>12 DEF Follows2

\* A decoder and a list that follow are what ShownIsSent asks for.
LEMMA Follows2Shows ==
  ASSUME NEW c, NEW t, t = talk[c], Http2(t), NEW o, NEW s, s = station[c],
         NEW h, h = heard[c], NEW g, g = before[c], Follows2(o, t, s, h, g),
         NEW d \in Directions
  PROVE  ShownInOrder(c, d) /\ NothingHeldBack(c, d)
<1>1. PICK m \in Nat, n \in Nat : Reads2(t, o, s, h, m, n) /\ ReadOut(t, h, m, n)
  BY DEF Follows2
<1>2. Spoken(t) /\ s \in Seq(H1Items) /\ Total(t, d) \in Nat
  BY <1>1, Http2Is, AllAre DEF Reads2
<1>3. DOMAIN s = 1..Len(s) /\ Len(s) \in Nat
  BY <1>2
<1>4. Listed(t, d, s)
  BY <1>1 DEF Reads2, Directions
<1>5. ShownInOrder(c, d)
  <2> SUFFICES ASSUME NEW k \in DOMAIN s, s[k].dir = d
               PROVE  /\ Visible(t[d][s[k].msg]) /\ Right(t, d, s[k])
                      /\ {s[l].msg : l \in {l \in 1..k - 1 : s[l].dir = d}}
                           = {j \in 1..s[k].msg - 1 : Visible(t[d][j])}
    BY DEF ShownInOrder
  <2>1. k \in 1..Len(s)
    BY <1>3
  <2> QED
    BY <1>4, <2>1 DEF Listed, BeforeIn, Seen
<1>6. NothingHeldBack(c, d)
  <2> DEFINE u == IF d = "in" THEN m ELSE n
  <2>1. AllRead(t, d, u, h[d]) /\ ShownOf(s, d) = Seen(t, d, u) /\ u \in Nat
    BY <1>1 DEF ReadOut, Reads2, Directions
  <2> HIDE DEF u
  <2> SUFFICES ASSUME NEW i \in Complete(t, d, g[d]), Visible(t[d][i])
               PROVE  \E k \in DOMAIN s : s[k].dir = d /\ s[k].msg = i
    BY DEF NothingHeldBack
  <2>2. i \in 1..Len(t[d]) /\ End(t, d, i) <= g[d]
    BY <1>2 DEF Complete, End, Spoken
  <2>3. g[d] \in 0..h[d] /\ h[d] \in 0..Total(t, d)
    BY DEF Follows2
  <2>4. h[d] \in Nat /\ End(t, d, i) \in Nat
    <3>1. i \in 0..Len(t[d])
      BY <2>2
    <3> QED
      BY <1>2, <2>3, <3>1, UnitsAre
  <2>5. End(t, d, i) <= h[d]
    BY <2>2, <2>3, <2>4
  <2>6. i <= u
    BY <1>2, <2>1, <2>2, <2>4, <2>5, AllReadIs
  <2>7. i \in ShownOf(s, d)
    BY <2>1, <2>2, <2>6 DEF Seen
  <2>8. PICK k \in 1..Len(s) + 1 - 1 : s[k].dir = d /\ s[k].msg = i
    BY <2>7 DEF ShownOf, BeforeIn
  <2>9. k \in DOMAIN s
    BY <1>3, <2>8
  <2> QED
    BY <2>8, <2>9
<1> QED
  BY <1>5, <1>6

-----------------------------------------------------------------------------
(***************************************************************************)
(* HTTP/2 on a stream that is not marked.                                  *)
(***************************************************************************)
\* A conversation over HTTP/2 that the peek has missed.
Overlooked(t) ==
  /\ t.ver = "h2" /\ ~t.marked /\ Spoken(t)
  /\ \A d \in Directions : \A i \in 1..Len(t[d]) :
       t[d][i].kind \notin Requests \cup Responses \cup Frames

\* The decoder keeps all it was given, and nothing is shown.
Ignored(o, t, s, h, g) ==
  /\ \A d \in Directions : g[d] \in 0..h[d] /\ h[d] \in 0..Total(t, d)
  /\ o \in H1Decoders /\ o.mode = "http" /\ s = <<>>
  /\ \A d \in Directions : o[d] = Window(t, d, 0, h[d])

\* It finds nothing to read in it.
LEMMA Unreadable ==
  ASSUME NEW t, Overlooked(t), NEW d \in Directions, NEW h \in 0..Total(t, d), NEW kinds,
         kinds \in {Requests, Responses}
  PROVE  ~Readable(t, Window(t, d, 0, h), kinds)
<1> DEFINE b == Window(t, d, 0, h)
<1>1. Spoken(t) /\ Total(t, d) \in Nat /\ 0 \in 0..h
  BY AllAre DEF Overlooked
<1>2. CASE h = 0
  <2>1. b = <<>>
    BY <1>1, <1>2, WindowIs
  <2> QED
    BY <2>1 DEF Readable, InStep
<1>3. CASE h # 0
  <2>1. 1 \in 1..h - 0 /\ 0 + 1 = 1 /\ 1 \in 1..Total(t, d)
    BY <1>1, <1>3
  <2>2. b[1] = AllUnits(t, d)[1]
    BY <1>1, <2>1, WindowIs
  <2>3. PICK k \in 1..Len(t[d]) : \E j \in 1..t[d][k].len : AllUnits(t, d)[1] = <<d, k, j>>
    BY <1>1, <2>1, MarkAt
  <2>4. Head(b) = b[1]
    BY <1>1, WindowIs
  <2> HIDE DEF b
  <2>5. First(t, b) = t[d][k]
    BY <2>2, <2>3, <2>4 DEF First
  <2>6. t[d][k].kind \notin kinds
    BY <2>3 DEF Overlooked
  <2> QED
    BY <2>5, <2>6 DEF Readable, b
<1> QED
  BY <1>2, <1>3

\* A new decoder ignores what is still to come.
LEMMA IgnoredStart ==
  ASSUME NEW t, Overlooked(t), NEW h, NEW g, \A d \in Directions : h[d] = 0 /\ g[d] = 0
  PROVE  Ignored(NewH1, t, <<>>, h, g)
<1>1. NewH1 \in H1Decoders /\ NewH1.mode = "http" /\ \A d \in Directions : NewH1[d] = <<>>
  BY DEF NewH1, H1Decoders, Modes, Directions
<1> HIDE DEF NewH1
<1>2. ASSUME NEW d \in Directions
      PROVE  g[d] \in 0..h[d] /\ h[d] \in 0..Total(t, d) /\ NewH1[d] = Window(t, d, 0, h[d])
  <2>1. Spoken(t) /\ Total(t, d) \in Nat /\ h[d] = 0 /\ g[d] = 0
    BY AllAre DEF Overlooked
  <2>2. 0 \in 0..Total(t, d) /\ 0 \in 0..0
    BY <2>1
  <2>3. Window(t, d, 0, 0) = <<>>
    BY <2>1, <2>2, WindowIs
  <2> QED
    BY <1>1, <2>1, <2>2, <2>3
<1> QED
  BY <1>1, <1>2 DEF Ignored

\* More of it is ignored as well (observer.rs 272-345, h1_parser.rs 156-216).
LEMMA IgnoredHears ==
  ASSUME NEW t, Overlooked(t), NEW o, NEW s, NEW h, NEW g, Ignored(o, t, s, h, g),
         NEW d \in Directions, NEW k, Hears(t, d, h, k),
         NEW z, z = ParseH1(t, Push(o, d, News(t, d, h[d], k[d])))
  PROVE  z \in Readings /\ ItemsOf(z) = <<>> /\ Ignored(z.o, t, s, k, h)
<1> DEFINE news == News(t, d, h[d], k[d])
           p == Push(o, d, news)
           y == Start(p)
<1>1. Spoken(t) /\ \A e \in Directions : Total(t, e) \in Nat
  BY AllAre DEF Overlooked
<1>2. ASSUME NEW e \in Directions
      PROVE  /\ h[e] \in 0..Total(t, e) /\ k[e] \in 0..Total(t, e) /\ h[e] \in 0..k[e]
             /\ 0 \in 0..h[e]
  <2>1. h[e] \in 0..Total(t, e) /\ k[e] \in 0..Total(t, e) /\ Total(t, e) \in Nat
    BY <1>1 DEF Hears
  <2>2. e = d \/ e = Other(d)
    BY DEF Directions, Other
  <2>3. h[e] <= k[e]
    BY <2>1, <2>2 DEF Hears
  <2> QED
    BY <2>1, <2>3
<1>3. o \in H1Decoders /\ o.mode = "http" /\ s = <<>>
      /\ \A e \in Directions : o[e] = Window(t, e, 0, h[e])
  BY DEF Ignored
<1>4. o[d] \o news = Window(t, d, 0, k[d])
  BY <1>1, <1>2, <1>3, WindowGrows DEF News
<1>5. news \in Seq(Marks)
  <2>1. Window(t, d, h[d], k[d]) \in Seq(Marks)
    BY <1>1, <1>2, WindowIs
  <2> QED
    BY <2>1 DEF News, Window
<1> HIDE DEF news
<1>6. p \in H1Decoders /\ p.mode = "http" /\ p[d] = o[d] \o news /\ p[Other(d)] = o[Other(d)]
  BY <1>3, <1>5, PushIs
<1>7. ASSUME NEW e \in Directions PROVE p[e] = Window(t, e, 0, k[e])
  <2>1. e = d \/ e = Other(d)
    BY DEF Directions, Other
  <2>2. k[Other(d)] = h[Other(d)] /\ Other(d) \in Directions
    BY DEF Hears, Directions, Other
  <2> QED
    BY <1>3, <1>4, <1>6, <2>1, <2>2
<1> HIDE DEF p
<1>8. y \in Readings /\ \A e \in Directions : Buffer(y, e) = p[e]
  <2>1. <<>> \in Seq(H1Items)
    OBVIOUS
  <2> QED
    BY <1>6, <2>1, StartIs
<1>9. ASSUME NEW e \in Directions, NEW kinds \in {Requests, Responses}
      PROVE  ~Readable(t, Buffer(y, e), kinds)
  BY <1>2, <1>7, <1>8, <1>9, Unreadable
<1>10. z = Loop(t, Loop(t, y, "in", Requests), "out", Responses)
  BY <1>6, ParseIs DEF p, news
<1> HIDE DEF y
<1>11. Loop(t, y, "in", Requests) = y
  <2>1. "in" \in Directions /\ Requests \in {Requests, Responses}
    BY DEF Directions
  <2> QED
    BY <1>8, <1>9, <2>1, LoopIdle
<1>12. Loop(t, y, "out", Responses) = y
  <2>1. "out" \in Directions /\ Responses \in {Requests, Responses}
    BY DEF Directions
  <2> QED
    BY <1>8, <1>9, <2>1, LoopIdle
<1>13. z = y /\ z.o = p /\ ItemsOf(z) = <<>>
  BY <1>10, <1>11, <1>12 DEF y, Start, ItemsOf
<1> QED
  BY <1>2, <1>3, <1>6, <1>7, <1>8, <1>13 DEF Ignored

\* An empty list is in order, and what the peek has missed may stay hidden.
LEMMA IgnoredShows ==
  ASSUME NEW c, NEW t, t = talk[c], Overlooked(t), NEW s, s = station[c],
         NEW h, h = heard[c], NEW g, g = before[c], NEW o, Ignored(o, t, s, h, g),
         NEW d \in Directions
  PROVE  ShownInOrder(c, d) /\ NothingHeldBack(c, d)
<1>1. station[c] = <<>> /\ DOMAIN station[c] = {}
  BY DEF Ignored
<1>2. ShownInOrder(c, d)
  BY <1>1 DEF ShownInOrder
<1>3. ASSUME NEW i \in Complete(t, d, before[c][d]) PROVE Hidden(c, d, i)
  <2>1. i \in 1..Len(t[d]) /\ i \in 1..i
    BY DEF Complete, Overlooked, Spoken
  <2>2. ~t.marked /\ t[d][i].kind \notin Requests \cup Responses \cup Frames
    BY <2>1 DEF Overlooked
  <2>3. Missed(t, d, i)
    BY <2>1, <2>2 DEF Missed
  <2> QED
    BY <2>3 DEF Hidden
<1>4. NothingHeldBack(c, d)
  BY <1>3 DEF NothingHeldBack
<1> QED
  BY <1>2, <1>4

-----------------------------------------------------------------------------
(***************************************************************************)
(* Any of these.                                                           *)
(***************************************************************************)
\* The conversations that the proofs are about.
Understood(t) == Http1(t) \/ Http2(t) \/ Overlooked(t)

\* None is a value of its own.
NoneIsNew ==
  /\ None \notin H1Decoders /\ None \notin H2Decoders
  /\ None \notin H1Items /\ None \notin Seq(H1Items)

\* Decoder o and list s follow what has been heard of a conversation.
KeepsPace(o, t, s, h, g) ==
  \/ Http1(t) /\ Follows(o, t, s, h, g)
  \/ Http2(t) /\ Follows2(o, t, s, h, g)
  \/ Overlooked(t) /\ Ignored(o, t, s, h, g)

\* Either has messages or frames of at least one unit.
LEMMA UnderstoodIs ==
  ASSUME NEW t, Understood(t)
  PROVE  Spoken(t)
<1>1. "in" \in Directions
  BY DEF Directions
<1> QED
  BY <1>1, Http1Spoken, Http2Is DEF Understood, Overlooked

\* A new decoder and an empty list keep pace from the start.
LEMMA KeepsPaceStart ==
  ASSUME NEW t, Understood(t), NEW h, NEW g, \A d \in Directions : h[d] = 0 /\ g[d] = 0
  PROVE  KeepsPace(NewDecoder(t), t, <<>>, h, g)
<1>1. CASE Http1(t)
  <2>1. NewDecoder(t) = NewH1
    BY <1>1 DEF Http1, NewDecoder
  <2> QED
    BY <1>1, <2>1, FollowsStart DEF KeepsPace
<1>2. CASE Http2(t)
  <2>1. NewDecoder(t) = NewH2
    BY <1>2 DEF Http2, NewDecoder
  <2> QED
    BY <1>2, <2>1, Follows2Start DEF KeepsPace
<1>3. CASE Overlooked(t)
  <2>1. NewDecoder(t) = NewH1
    BY <1>3 DEF Overlooked, NewDecoder
  <2> QED
    BY <1>3, <2>1, IgnoredStart DEF KeepsPace
<1> QED
  BY <1>1, <1>2, <1>3 DEF Understood

\* They keep pace whatever units of a direction an event brings, for a connection that
\* has an entry (observer.rs 229-345).
LEMMA KeepsPaceHears ==
  ASSUME NoneIsNew, NEW c, NEW t, t = talk[c], NEW s, s = station[c], s # None,
         NEW h, NEW g, KeepsPace(DecoderOf(c), t, s, h, g),
         NEW d \in Directions, NEW k, Hears(t, d, h, k),
         NEW z, z = Decoded(c, d, News(t, d, h[d], k[d]))
  PROVE  /\ z.o # None /\ Shown(c, d, z.items) \in Seq(H1Items)
         /\ KeepsPace(z.o, t, Shown(c, d, z.items), k, h)
<1> DEFINE units == News(t, d, h[d], k[d])
           o == DecoderOf(c)
<1>1. z = Decoded(c, d, units)
  OBVIOUS
<1>2. ASSUME Http1(t), Follows(o, t, s, h, g)
      PROVE  /\ z.o # None /\ Shown(c, d, z.items) \in Seq(H1Items)
             /\ Follows(z.o, t, Shown(c, d, z.items), k, h)
  <2> DEFINE y == ParseH1(t, Push(o, d, units))
  <2>1. /\ y \in Readings /\ Follows(y.o, t, Behind(s, y), k, h)
        /\ d = "in" => AskedLast(t, ItemsOf(y))
    BY <1>2, FollowsHears
  <2>2. ~t.marked /\ y = ParseH1(t, Push(DecoderOf(c), d, units))
    BY <1>2 DEF Http1
  <2> HIDE DEF y, units
  <2>3. z.o = y.o /\ Shown(c, d, z.items) = Behind(s, y)
    BY <1>1, <2>1, <2>2, HeardIs
  <2>4. y.o \in H1Decoders
    BY <2>1 DEF Readings
  <2>5. Behind(s, y) \in Seq(H1Items)
    BY <2>1 DEF Follows, PlainReads, AskReads
  <2> QED
    BY <2>1, <2>3, <2>4, <2>5 DEF NoneIsNew
<1>3. ASSUME Http2(t), Follows2(o, t, s, h, g)
      PROVE  /\ z.o # None /\ Shown(c, d, z.items) \in Seq(H1Items)
             /\ Follows2(z.o, t, Shown(c, d, z.items), k, h)
  <2>1. t.marked
    BY <1>3 DEF Http2
  <2>2. z = ParseH2(t, WriteH2(t, o, d, News(t, d, h[d], k[d])))
    BY <1>1, <2>1 DEF Decoded, DecoderOf
  <2>3. Shown(c, d, z.items) = s \o z.items
    BY <2>1 DEF Shown, UpToUpgrade
  <2> HIDE DEF o, units
  <2>4. z \in Polls /\ Follows2(z.o, t, s \o z.items, k, h)
    BY <1>3, <2>2, Follows2Hears DEF NoneIsNew
  <2>5. z.o \in H2Decoders
    BY <2>4 DEF Polls
  <2>6. s \o z.items \in Seq(H1Items)
    BY <2>4 DEF Follows2, Reads2
  <2> QED
    BY <2>3, <2>4, <2>5, <2>6 DEF NoneIsNew
<1>4. ASSUME Overlooked(t), Ignored(o, t, s, h, g)
      PROVE  /\ z.o # None /\ Shown(c, d, z.items) \in Seq(H1Items)
             /\ Ignored(z.o, t, Shown(c, d, z.items), k, h)
  <2> DEFINE y == ParseH1(t, Push(o, d, units))
  <2>1. y \in Readings /\ ItemsOf(y) = <<>> /\ Ignored(y.o, t, s, k, h)
    BY <1>4, IgnoredHears
  <2>2. ~t.marked /\ y = ParseH1(t, Push(DecoderOf(c), d, units))
    BY <1>4 DEF Overlooked
  <2> HIDE DEF y, units
  <2>3. AskedLast(t, ItemsOf(y))
    BY <2>1 DEF AskedLast
  <2>4. z.o = y.o /\ Shown(c, d, z.items) = Behind(s, y)
    BY <1>1, <2>1, <2>2, <2>3, HeardIs
  <2>5. s = <<>> /\ Behind(s, y) = <<>>
    BY <1>4, <2>1 DEF Ignored, Behind
  <2>6. y.o \in H1Decoders /\ <<>> \in Seq(H1Items)
    BY <2>1 DEF Readings
  <2> QED
    BY <2>1, <2>4, <2>5, <2>6 DEF NoneIsNew
<1> QED
  BY <1>2, <1>3, <1>4 DEF KeepsPace

\* A decoder and a list that keep pace are what ShownIsSent asks for.
LEMMA KeepsPaceShows ==
  ASSUME NEW c, NEW t, t = talk[c], NEW s, s = station[c],
         NEW h, h = heard[c], NEW g, g = before[c], Causal(t, h),
         KeepsPace(DecoderOf(c), t, s, h, g), NEW d \in Directions
  PROVE  ShownInOrder(c, d) /\ NothingHeldBack(c, d)
<1> DEFINE o == DecoderOf(c)
<1>1. CASE Http1(t) /\ Follows(o, t, s, h, g)
  BY <1>1, FollowsShows
<1>2. CASE Http2(t) /\ Follows2(o, t, s, h, g)
  <2> HIDE DEF o
  <2> QED
    BY <1>2, Follows2Shows
<1>3. CASE Overlooked(t) /\ Ignored(o, t, s, h, g)
  <2> HIDE DEF o
  <2> QED
    BY <1>3, IgnoredShows
<1> QED
  BY <1>1, <1>2, <1>3 DEF KeepsPace
=============================================================================
