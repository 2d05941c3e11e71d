------------------------- MODULE LogSession_proofs -------------------------
(***************************************************************************)
(* For any number of sessions, lines and seconds: a sink holds its lines   *)
(* in order and none twice on any disk; on a good one it holds only lines  *)
(* of the sessions that opened it, all of them once stop() has returned,   *)
(* and each step of the logger is one of LogContract or changes nothing    *)
(* there.                                                                  *)
(***************************************************************************)
EXTENDS LogSession, WellFoundedInduction, SequenceTheorems, TLAPS

-----------------------------------------------------------------------------
(* The strengthening: what is on the way to a sink counts with what is there *)

Rising(x)    == \A i, j \in 1..Len(x) : i < j => x[i].n < x[j].n
Before(x, y) == \A i \in 1..Len(x), j \in 1..Len(y) : x[i].n < y[j].n
UpTo(x, c)   == \A i \in 1..Len(x) : x[i].n <= c

\* A file, its buffer and the queue are one rising sequence.
Ordered ==
  /\ Rising(q) /\ UpTo(q, count)
  /\ \A s \in Sinks :
       /\ Rising(buf[s]) /\ UpTo(buf[s], count) /\ Before(buf[s], q)
       /\ \A f \in Names : /\ Rising(store[s][f]) /\ UpTo(store[s][f], count)
                           /\ Before(store[s][f], buf[s]) /\ Before(store[s][f], q)

Waiting == gui \in {"stopping", "ending"}
Quiet   == q = <<>> /\ \A s \in Sinks : buf[s] = <<>>

\* The sinks are closed between two sessions, and the writer is told to end last.
Closing ==
  /\ active => gui = "idle" /\ session > 0
  /\ ~active /\ ~Waiting => target = Closed
  /\ pc \in {"final", "dead"} => stopEv
  /\ stopEv => gui \in {"joining", "down"}

\* A request is open while stop() waits for its answer; the writer answers when it
\* has emptied the queue and both buffers, and nobody fills them meanwhile.
Handshake ==
  /\ req <=> (Waiting /\ ~done)
  /\ pc \in {"fdrain", "ffile", "fdb"} => req
  /\ pc \in {"ffile", "fdb"} => q = <<>>
  /\ pc = "fdb" => buf["file"] = <<>>
  /\ ~active /\ ~req => Quiet

\* What is on the way is of the last session, whose sinks are the open ones.
Current ==
  /\ active \/ q # <<>> => session > 0 /\ \A s \in usedBy[session] : target[s] # 0
  /\ \A s \in Sinks : target[s] # 0 => /\ session > 0 /\ s \in usedBy[session]
                                      /\ target[s] = nameOf[session]
  /\ \A s \in Sinks : buf[s] # <<>> => target[s] # 0
  /\ \A i \in 1..Len(q) : q[i].sess = session
  /\ \A s \in Sinks : \A i \in 1..Len(buf[s]) : buf[s][i].sess = session

\* A file has lines of the sessions that opened it, the older ones first.
Owned ==
  /\ \A k \in 1..session : nameOf[k] \in Names
  /\ \A s \in Sinks : \A f \in Names : \A i \in 1..Len(store[s][f]) :
       LET k == store[s][f][i].sess IN k <= session /\ nameOf[k] = f /\ s \in usedBy[k]
  /\ \A s \in Sinks : \A f \in Names : \A i, j \in 1..Len(store[s][f]) :
       i <= j => store[s][f][i].sess <= store[s][f][j].sess

\* Nothing that was accepted is missing: it is in the sink or on the way there.
Complete ==
  /\ \A k \in 1..session : \A s \in usedBy[k] :
       k < session /\ ~Emptied(s, k) => Kept(s, k) = taken[k]
  /\ session > 0 => \A s \in usedBy[session] :
       (Kept(s, session) \o buf[s]) \o q = taken[session]
  /\ \A k \in (session + 1)..MaxSession : taken[k] = <<>>

IInv == /\ TypeOK /\ Ordered /\ Closing
        /\ Good => Handshake /\ Current /\ Owned /\ Complete

-----------------------------------------------------------------------------
(* The part of a session in a file *)

\* A set of naturals that is not empty has a least element.
LEMMA LeastNat ==
  ASSUME NEW T, T \subseteq Nat, T # {}
  PROVE  \E x \in T : \A y \in T : x <= y
<1> DEFINE R == {r \in Nat \X Nat : r[1] < r[2]}
<1>1. IsWellFoundedOn(R, Nat)
  BY NatLessThanWellFounded, Zenon DEF OpToRel
<1>2. PICK x \in T : \A y \in T : ~(<<y, x>> \in R)
  BY <1>1, WFMin, Zenon
<1>3. ASSUME NEW y \in T, y < x PROVE <<y, x>> \in R
  BY <1>3
<1> HIDE DEF R
<1>4. \A y \in T : ~(y < x)
  BY <1>2, <1>3
<1> QED BY <1>4

\* Min and Max of a set of places in a sequence are the first and the last of them.
LEMMA FirstAndLast ==
  ASSUME NEW n \in Nat, NEW T, T \subseteq 1..n, T # {}
  PROVE  /\ Min(T) \in T /\ \A y \in T : Min(T) <= y
         /\ Max(T) \in T /\ \A y \in T : y <= Max(T)
<1> DEFINE U == {n - t : t \in T}
<1>1. T \subseteq Nat /\ \A t \in T : t \in Nat /\ t <= n
  OBVIOUS
<1>2. Min(T) \in T /\ \A y \in T : Min(T) <= y
  BY <1>1, LeastNat DEF Min
<1>3. U \subseteq Nat /\ U # {}
  <2>1. \A t \in T : n - t \in Nat
    BY <1>1
  <2> QED BY <2>1
<1>4. PICK z \in U : \A y \in U : z <= y
  BY <1>3, LeastNat
<1>5. PICK x \in T : z = n - x
  OBVIOUS
<1>6. \A y \in T : n - y \in U /\ n - x <= n - y
  BY <1>4, <1>5
<1>7. \A y \in T : x >= y
  <2> SUFFICES ASSUME NEW y \in T PROVE x >= y
    OBVIOUS
  <2> QED BY <1>1, <1>5, <1>6
<1>8. Max(T) \in T /\ \A y \in T : Max(T) >= y
  BY <1>7 DEF Max
<1> QED BY <1>1, <1>2, <1>8

\* The places of a session's lines.
Has(x, k) == {i \in 1..Len(x) : x[i].sess = k}

\* A part goes from the first line of its session to the last.
LEMMA PartIs ==
  ASSUME NEW x \in Seq(Line), NEW k
  PROVE  /\ Has(x, k) = {} => Part(x, k) = <<>>
         /\ Has(x, k) # {} =>
              /\ Min(Has(x, k)) \in 1..Len(x) /\ Max(Has(x, k)) \in 1..Len(x)
              /\ Min(Has(x, k)) \in Has(x, k) /\ Max(Has(x, k)) \in Has(x, k)
              /\ \A i \in Has(x, k) : Min(Has(x, k)) <= i /\ i <= Max(Has(x, k))
              /\ Part(x, k) = SubSeq(x, Min(Has(x, k)), Max(Has(x, k)))
<1>1. Len(x) \in Nat /\ Has(x, k) \subseteq 1..Len(x)
  BY DEF Has
<1>2. Part(x, k) = IF Has(x, k) = {} THEN <<>>
                   ELSE SubSeq(x, Min(Has(x, k)), Max(Has(x, k)))
  BY DEF Part, Has
<1> QED BY <1>1, <1>2, FirstAndLast, Zenon

\* A part is a sequence of the lines of its file.
LEMMA PartSeq ==
  ASSUME NEW x \in Seq(Line), NEW k
  PROVE  Part(x, k) \in Seq(Line)
<1>1. CASE Has(x, k) = {}
  <2>1. Part(x, k) = <<>>
    BY <1>1, PartIs
  <2> QED BY <2>1
<1>2. CASE Has(x, k) # {}
  <2>1. /\ Min(Has(x, k)) \in 1..Len(x) /\ Max(Has(x, k)) \in 1..Len(x)
        /\ Part(x, k) = SubSeq(x, Min(Has(x, k)), Max(Has(x, k)))
    BY <1>2, PartIs
  <2>2. \A a, b \in 1..Len(x) : SubSeq(x, a, b) \in Seq(Line)
    OBVIOUS
  <2> QED BY <2>1, <2>2
<1> QED BY <1>1, <1>2

\* Lines of other sessions written after it do not change a session's part.
LEMMA PartOther ==
  ASSUME NEW x \in Seq(Line), NEW y \in Seq(Line), NEW k,
         \A j \in 1..Len(y) : y[j].sess # k
  PROVE  Part(x \o y, k) = Part(x, k)
<1>1. /\ x \o y \in Seq(Line) /\ Len(x \o y) = Len(x) + Len(y)
      /\ \A i \in 1..Len(x) : (x \o y)[i] = x[i]
      /\ \A i \in (Len(x) + 1)..(Len(x) + Len(y)) : (x \o y)[i] = y[i - Len(x)]
      /\ Len(x) \in Nat /\ Len(y) \in Nat
  OBVIOUS
<1>2. Has(x \o y, k) = Has(x, k)
  <2>1. ASSUME NEW i \in 1..(Len(x) + Len(y)), (x \o y)[i].sess = k
        PROVE  i \in 1..Len(x)
    <3>1. CASE i > Len(x)
      <4>1. i - Len(x) \in 1..Len(y) /\ (x \o y)[i] = y[i - Len(x)]
        BY <1>1, <3>1
      <4> QED BY <2>1, <4>1
    <3> QED BY <1>1, <3>1
  <2> QED BY <1>1, <2>1 DEF Has
<1>3. CASE Has(x, k) = {}
  BY <1>1, <1>2, <1>3, PartIs
<1>4. CASE Has(x, k) # {}
  <2> DEFINE a == Min(Has(x, k))
             b == Max(Has(x, k))
  <2>1. a \in 1..Len(x) /\ b \in 1..Len(x)
    BY <1>4, PartIs
  <2>2. Part(x, k) = SubSeq(x, a, b) /\ Part(x \o y, k) = SubSeq(x \o y, a, b)
    BY <1>1, <1>2, <1>4, PartIs
  <2> HIDE DEF a, b
  <2>3. SubSeq(x \o y, a, b) = SubSeq(x, a, b)
    BY <1>1, <2>1
  <2> QED BY <2>2, <2>3
<1> QED BY <1>3, <1>4

\* Lines of the last session of a file lengthen its part.
LEMMA PartSame ==
  ASSUME NEW x \in Seq(Line), NEW y \in Seq(Line), NEW k,
         \A j \in 1..Len(y) : y[j].sess = k,
         \A i, j \in 1..Len(x) : x[i].sess = k /\ i <= j => x[j].sess = k
  PROVE  Part(x \o y, k) = Part(x, k) \o y
<1>1. /\ x \o y \in Seq(Line) /\ Len(x \o y) = Len(x) + Len(y)
      /\ \A i \in 1..Len(x) : (x \o y)[i] = x[i]
      /\ \A i \in (Len(x) + 1)..(Len(x) + Len(y)) : (x \o y)[i] = y[i - Len(x)]
      /\ Len(x) \in Nat /\ Len(y) \in Nat
  OBVIOUS
<1>2. CASE y = <<>>
  <2>1. x \o y = x /\ Part(x, k) \o y = Part(x, k)
    BY <1>2, PartSeq
  <2> QED BY <2>1
<1>3. CASE y # <<>>
  <2> DEFINE n == Len(x) + Len(y)
  <2>1. Has(x \o y, k) = Has(x, k) \cup ((Len(x) + 1)..n)
    <3>1. \A i \in (Len(x) + 1)..n : (x \o y)[i].sess = k
      BY <1>1
    <3>2. 1..n = (1..Len(x)) \cup ((Len(x) + 1)..n)
      BY <1>1
    <3>3. Len(x \o y) = n
      BY <1>1
    <3> HIDE DEF n
    <3>4. \A i \in 1..Len(x) : (x \o y)[i].sess = x[i].sess
      BY <1>1
    <3> QED BY <3>1, <3>2, <3>3, <3>4 DEF Has
  <2>2. n \in Nat /\ n \in Has(x \o y, k) /\ Len(x) + 1 \in Has(x \o y, k)
        /\ Has(x \o y, k) \subseteq 1..n
    BY <1>1, <1>3, <2>1 DEF Has
  <2> DEFINE m == Min(Has(x \o y, k))
  <2>3. /\ Max(Has(x \o y, k)) = n
        /\ m \in Has(x \o y, k) /\ \A i \in Has(x \o y, k) : m <= i
    <3>1. Max(Has(x \o y, k)) \in 1..n /\ n <= Max(Has(x \o y, k))
      BY <1>1, <2>2, PartIs
    <3>2. m \in Has(x \o y, k) /\ \A i \in Has(x \o y, k) : m <= i
      BY <1>1, <2>2, PartIs
    <3> QED BY <2>2, <3>1, <3>2
  <2>4. Part(x \o y, k) = SubSeq(x \o y, m, n)
    BY <1>1, <2>2, <2>3, PartIs
  <2>5. CASE Has(x, k) = {}
    <3>1. m \in (Len(x) + 1)..n /\ m <= Len(x) + 1
      BY <2>1, <2>2, <2>3, <2>5
    <3>2. m = Len(x) + 1
      BY <1>1, <3>1
    <3>3. SubSeq(x \o y, Len(x) + 1, n) = y
      BY <1>1
    <3>4. Part(x, k) = <<>>
      BY <2>5, PartIs
    <3> QED BY <2>4, <3>2, <3>3, <3>4
  <2>6. CASE Has(x, k) # {}
    <3> DEFINE a == Min(Has(x, k))
    <3>1. /\ a \in Has(x, k) /\ a \in 1..Len(x) /\ \A i \in Has(x, k) : a <= i
          /\ Max(Has(x, k)) \in 1..Len(x) /\ \A i \in Has(x, k) : i <= Max(Has(x, k))
          /\ Part(x, k) = SubSeq(x, a, Max(Has(x, k)))
      BY <2>6, PartIs
    <3> HIDE DEF a
    <3>2. Len(x) \in Has(x, k)
      BY <1>1, <3>1 DEF Has
    <3>3. Max(Has(x, k)) = Len(x)
      BY <1>1, <3>1, <3>2
    <3>4. m = a
      <4>1. m <= a
        BY <2>1, <2>3, <3>1
      <4>2. m \in 1..n /\ a \in 1..n
        BY <2>1, <2>2, <2>3, <3>1
      <4>3. a <= m
        <5>1. CASE m \in Has(x, k)
          BY <3>1, <5>1
        <5>2. CASE m \in (Len(x) + 1)..n
          BY <1>1, <3>1, <5>2
        <5> QED BY <2>1, <2>3, <5>1, <5>2
      <4> QED BY <4>1, <4>2, <4>3
    <3>5. SubSeq(x \o y, a, n) = SubSeq(x, a, Len(x)) \o y
      BY SMTT(30), <1>1, <3>1
    <3> QED BY <2>4, <3>1, <3>3, <3>4, <3>5
  <2> QED BY <2>5, <2>6
<1> QED BY <1>2, <1>3

-----------------------------------------------------------------------------
(* Rising sequences of lines *)

\* The number of a line is a natural number.
LEMMA LineIs ==
  ASSUME NEW x \in Seq(Line)
  PROVE  Len(x) \in Nat /\ \A i \in 1..Len(x) : x[i] \in Line /\ x[i].n \in Nat
                                               /\ x[i].sess \in 1..MaxSession
<1>1. \A i \in 1..Len(x) : x[i] \in Line
  OBVIOUS
<1>2. \A l \in Line : l.n \in Nat /\ l.sess \in 1..MaxSession
  BY DEF Line
<1> QED BY <1>1, <1>2

\* The lines of two sequences, one after the other.
LEMMA ConcatIs ==
  ASSUME NEW x \in Seq(Line), NEW y \in Seq(Line)
  PROVE  /\ x \o y \in Seq(Line) /\ Len(x \o y) = Len(x) + Len(y)
         /\ \A i \in 1..Len(x) : (x \o y)[i] = x[i]
         /\ \A i \in 1..Len(x \o y) : i > Len(x) =>
              i - Len(x) \in 1..Len(y) /\ (x \o y)[i] = y[i - Len(x)]
<1>1. /\ x \o y \in Seq(Line) /\ Len(x \o y) = Len(x) + Len(y)
      /\ Len(x) \in Nat /\ Len(y) \in Nat
      /\ \A i \in 1..Len(x) : (x \o y)[i] = x[i]
      /\ \A i \in 1..Len(x) + Len(y) : i > Len(x) => (x \o y)[i] = y[i - Len(x)]
  OBVIOUS
<1>2. \A i \in 1..Len(x) + Len(y) : i > Len(x) => i - Len(x) \in 1..Len(y)
  BY <1>1
<1> QED BY <1>1, <1>2

\* Two rising sequences, one before the other, make one.
LEMMA RisingConcat ==
  ASSUME NEW x \in Seq(Line), NEW y \in Seq(Line), Rising(x), Rising(y), Before(x, y)
  PROVE  Rising(x \o y)
<1>1. /\ Len(x \o y) = Len(x) + Len(y) /\ Len(x) \in Nat /\ Len(y) \in Nat
      /\ \A i \in 1..Len(x) : (x \o y)[i] = x[i]
      /\ \A i \in 1..Len(x) + Len(y) : i > Len(x) => (x \o y)[i] = y[i - Len(x)]
  OBVIOUS
<1>2. ASSUME NEW i \in 1..Len(x) + Len(y), NEW j \in 1..Len(x) + Len(y), i < j
      PROVE  (x \o y)[i].n < (x \o y)[j].n
  <2>1. CASE j <= Len(x)
    BY <1>1, <1>2, <2>1 DEF Rising
  <2>2. CASE i <= Len(x) /\ j > Len(x)
    <3>1. i \in 1..Len(x) /\ j - Len(x) \in 1..Len(y)
      BY <1>1, <2>2
    <3> QED BY <1>1, <2>2, <3>1 DEF Before
  <2>3. CASE i > Len(x)
    <3>1. i - Len(x) \in 1..Len(y) /\ j - Len(x) \in 1..Len(y) /\ i - Len(x) < j - Len(x)
          /\ j > Len(x)
      BY <1>1, <1>2, <2>3
    <3> QED BY <1>1, <2>3, <3>1 DEF Rising
  <2> QED BY <1>1, <1>2, <2>1, <2>2, <2>3
<1> QED BY <1>1, <1>2 DEF Rising

\* What both are before, both together are before, and likewise for a bound.
LEMMA ConcatBefore ==
  ASSUME NEW x \in Seq(Line), NEW y \in Seq(Line)
  PROVE  /\ \A z \in Seq(Line) : Before(x, z) /\ Before(y, z) => Before(x \o y, z)
         /\ \A z \in Seq(Line) : Before(z, x) /\ Before(z, y) => Before(z, x \o y)
         /\ \A c \in Nat : UpTo(x, c) /\ UpTo(y, c) => UpTo(x \o y, c)
<1>1. /\ Len(x \o y) = Len(x) + Len(y) /\ Len(x) \in Nat /\ Len(y) \in Nat
      /\ \A i \in 1..Len(x) : (x \o y)[i] = x[i]
      /\ \A i \in 1..Len(x) + Len(y) : i > Len(x) => (x \o y)[i] = y[i - Len(x)]
  OBVIOUS
<1>2. \A i \in 1..Len(x) + Len(y) : i \in 1..Len(x) \/ (i > Len(x) /\ i - Len(x) \in 1..Len(y))
  BY <1>1
<1>3. \A i \in 1..Len(x \o y) : \/ \E j \in 1..Len(x) : (x \o y)[i] = x[j]
                                \/ \E j \in 1..Len(y) : (x \o y)[i] = y[j]
  BY <1>1, <1>2
<1> QED BY <1>3, Zenon DEF Before, UpTo

\* A first part of a sequence of lines is where the sequence is.
LEMMA PrefixOrder ==
  ASSUME NEW y \in Seq(Line), NEW k \in 0..Len(y)
  PROVE  /\ SubSeq(y, 1, k) \in Seq(Line)
         /\ \A i \in 1..Len(SubSeq(y, 1, k)) : i \in 1..Len(y) /\ SubSeq(y, 1, k)[i] = y[i]
         /\ Rising(y) => Rising(SubSeq(y, 1, k))
         /\ \A z : Before(y, z) => Before(SubSeq(y, 1, k), z)
         /\ \A z : Before(z, y) => Before(z, SubSeq(y, 1, k))
         /\ \A c : UpTo(y, c) => UpTo(SubSeq(y, 1, k), c)
         /\ k = Len(y) => SubSeq(y, 1, k) = y
<1>1. SubSeq(y, 1, k) \in Seq(Line) /\ Len(SubSeq(y, 1, k)) = k
  OBVIOUS
<1>2. \A i \in 1..k : i \in 1..Len(y) /\ SubSeq(y, 1, k)[i] = y[i]
  OBVIOUS
<1>3. k = Len(y) => SubSeq(y, 1, k) = y
  OBVIOUS
<1> DEFINE p == SubSeq(y, 1, k)
<1>4. \A i \in 1..Len(p) : i \in 1..Len(y) /\ p[i] = y[i]
  BY <1>1, <1>2
<1> HIDE DEF p
<1>5. /\ Rising(y) => Rising(p)
      /\ \A z : Before(y, z) => Before(p, z)
      /\ \A z : Before(z, y) => Before(z, p)
      /\ \A c : UpTo(y, c) => UpTo(p, c)
  BY <1>4, Zenon DEF Rising, Before, UpTo
<1> QED BY <1>1, <1>3, <1>4, <1>5 DEF p

\* The empty sequence is before all and after all.
LEMMA EmptyOrder ==
  /\ <<>> \in Seq(Line) /\ Rising(<<>>) /\ \A c : UpTo(<<>>, c)
  /\ \A z : Before(<<>>, z) /\ Before(z, <<>>)
<1>1. Len(<<>>) = 0 /\ 1..0 = {}
  OBVIOUS
<1>2. <<>> \in Seq(Line)
  OBVIOUS
<1> QED BY <1>1, <1>2 DEF Rising, UpTo, Before

\* The first line of the queue goes to the end of a buffer.
LEMMA MoveOrder ==
  ASSUME NEW b \in Seq(Line), NEW z \in Seq(Line), z # <<>>
  PROVE  /\ Append(b, Head(z)) \in Seq(Line) /\ Tail(z) \in Seq(Line) /\ Head(z) \in Line
         /\ Rising(z) => Rising(Tail(z))
         /\ \A c : UpTo(z, c) => UpTo(Tail(z), c)
         /\ \A x : Before(x, z) => Before(x, Tail(z))
         /\ Rising(b) /\ Rising(z) /\ Before(b, z) =>
              Rising(Append(b, Head(z))) /\ Before(Append(b, Head(z)), Tail(z))
         /\ \A c : UpTo(b, c) /\ UpTo(z, c) => UpTo(Append(b, Head(z)), c)
         /\ \A x : Before(x, b) /\ Before(x, z) => Before(x, Append(b, Head(z)))
<1> DEFINE t == Tail(z)
           a == Append(b, Head(z))
<1>1. /\ Len(z) \in Nat \ {0} /\ Head(z) = z[1] /\ 1 \in 1..Len(z)
      /\ t \in Seq(Line) /\ Len(t) = Len(z) - 1 /\ \A i \in 1..Len(t) : t[i] = z[i + 1]
  OBVIOUS
<1>2. \A i \in 1..Len(t) : i + 1 \in 1..Len(z) /\ 1 < i + 1
  BY <1>1
<1>3. /\ Len(b) \in Nat /\ a \in Seq(Line) /\ Len(a) = Len(b) + 1
      /\ \A i \in 1..Len(b) : a[i] = b[i]
      /\ a[Len(b) + 1] = z[1]
  BY <1>1
<1>4. \A i \in 1..Len(a) : i \in 1..Len(b) \/ i = Len(b) + 1
  BY <1>3
<1> HIDE DEF t, a
<1>5. Rising(z) => Rising(t)
  <2>1. \A i, j \in 1..Len(t) : i < j => i + 1 < j + 1
    BY <1>1
  <2> QED BY <1>1, <1>2, <2>1 DEF Rising
<1>6. (\A c : UpTo(z, c) => UpTo(t, c)) /\ (\A x : Before(x, z) => Before(x, t))
  BY <1>1, <1>2 DEF UpTo, Before
<1>7. ASSUME Rising(b), Rising(z), Before(b, z) PROVE Rising(a) /\ Before(a, t)
  <2>1. Rising(a)
    BY SMTT(30), <1>1, <1>3, <1>4, <1>7 DEF Rising, Before
  <2>2. Before(a, t)
    BY <1>1, <1>2, <1>3, <1>4, <1>7 DEF Rising, Before
  <2> QED BY <2>1, <2>2
<1>8. /\ \A c : UpTo(b, c) /\ UpTo(z, c) => UpTo(a, c)
      /\ \A x : Before(x, b) /\ Before(x, z) => Before(x, a)
  BY <1>1, <1>3, <1>4 DEF UpTo, Before
<1>9. Head(z) \in Line
  BY <1>1
<1> QED BY <1>1, <1>3, <1>5, <1>6, <1>7, <1>8, <1>9 DEF t, a

-----------------------------------------------------------------------------
(* Every variable keeps its type *)

\* A batch moves a first part of a buffer to the open file, all of it on a good
\* disk, and leaves the buffer empty.
LEMMA WriteBatchIs ==
  ASSUME TypeOK, NEW s \in Sinks, WriteBatch(s)
  PROVE  /\ buf' = [buf EXCEPT ![s] = <<>>] /\ buf' \in [Sinks -> Seq(Line)]
         /\ store' \in [Sinks -> [Names -> Seq(Line)]]
         /\ \E k \in 0..Len(buf[s]) :
              /\ Good /\ target[s] # 0 => k = Len(buf[s])
              /\ \A r \in Sinks : \A f \in Names : store'[r][f] =
                   IF r = s /\ f = target[s] THEN store[r][f] \o SubSeq(buf[s], 1, k)
                   ELSE store[r][f]
<1>1. /\ buf \in [Sinks -> Seq(Line)] /\ store \in [Sinks -> [Names -> Seq(Line)]]
      /\ target[s] \in 0..MaxClock /\ buf[s] \in Seq(Line) /\ Len(buf[s]) \in Nat
  BY DEF TypeOK
<1>2. buf' = [buf EXCEPT ![s] = <<>>] /\ buf' \in [Sinks -> Seq(Line)]
  BY <1>1 DEF WriteBatch
<1>3. PICK k \in IF target[s] = 0 THEN {0}
                 ELSE IF Good THEN {Len(buf[s])} ELSE 0..Len(buf[s]) :
       store' = IF k = 0 THEN store
                ELSE [store EXCEPT ![s][target[s]] = @ \o SubSeq(buf[s], 1, k)]
  BY DEF WriteBatch
<1>4. k \in 0..Len(buf[s]) /\ (Good /\ target[s] # 0 => k = Len(buf[s]))
  BY <1>1, <1>3
<1>5. CASE k = 0
  <2>1. SubSeq(buf[s], 1, k) = <<>>
    BY <1>1, <1>5
  <2>2. \A r \in Sinks : \A f \in Names : store[r][f] \o <<>> = store[r][f]
    BY <1>1
  <2> QED BY <1>1, <1>2, <1>3, <1>4, <1>5, <2>1, <2>2
<1>6. CASE k # 0
  <2>1. target[s] # 0 /\ target[s] \in Names
    BY <1>1, <1>3, <1>6 DEF Names
  <2>2. SubSeq(buf[s], 1, k) \in Seq(Line)
    BY <1>1, <1>4, PrefixOrder
  <2>3. store' = [store EXCEPT ![s][target[s]] = @ \o SubSeq(buf[s], 1, k)]
    BY <1>3, <1>6
  <2>4. store[s][target[s]] \o SubSeq(buf[s], 1, k) \in Seq(Line)
    BY <1>1, <2>1, <2>2
  <2>5. store' \in [Sinks -> [Names -> Seq(Line)]]
    BY <1>1, <2>1, <2>3, <2>4
  <2>6. \A r \in Sinks : \A f \in Names : store'[r][f] =
          IF r = s /\ f = target[s] THEN store[r][f] \o SubSeq(buf[s], 1, k)
          ELSE store[r][f]
    BY <1>1, <2>1, <2>3
  <2> QED BY <1>2, <1>4, <2>5, <2>6
<1> QED BY <1>5, <1>6

\* What is in the buffers is added to the open files at the end of the thread.
LEMMA FinishIs ==
  ASSUME TypeOK, Finish
  PROVE  /\ buf' \in [Sinks -> Seq(Line)] /\ \A s \in Sinks : buf'[s] = <<>>
         /\ store' \in [Sinks -> [Names -> Seq(Line)]]
         /\ \A r \in Sinks : \A f \in Names : store'[r][f] =
              IF f = target[r] THEN store[r][f] \o buf[r] ELSE store[r][f]
<1>1. buf \in [Sinks -> Seq(Line)] /\ store \in [Sinks -> [Names -> Seq(Line)]]
  BY DEF TypeOK
<1>2. buf' = [s \in Sinks |-> <<>>] /\ <<>> \in Seq(Line)
  BY DEF Finish
<1>3. store' = [s \in Sinks |-> [f \in Names |->
                 IF f = target[s] THEN store[s][f] \o buf[s] ELSE store[s][f]]]
  BY DEF Finish
<1>4. \A s \in Sinks : \A f \in Names :
        (IF f = target[s] THEN store[s][f] \o buf[s] ELSE store[s][f]) \in Seq(Line)
  BY <1>1
<1> QED BY <1>2, <1>3, <1>4

\* A line of the queue goes to the buffers of the sinks that are open.
LEMMA TakeIs ==
  ASSUME TypeOK, Take
  PROVE  /\ q # <<>> /\ q' = Tail(q) /\ q' \in Seq(Line)
         /\ buf' \in [Sinks -> Seq(Line)]
         /\ \A s \in Sinks : buf'[s] = IF target[s] # 0 THEN Append(buf[s], Head(q))
                                      ELSE buf[s]
<1>1. buf \in [Sinks -> Seq(Line)] /\ q \in Seq(Line) /\ q # <<>>
  BY DEF TypeOK, Take
<1>2. q' = Tail(q) /\ buf' = [s \in Sinks |->
        IF target[s] # 0 THEN Append(buf[s], Head(q)) ELSE buf[s]]
  BY DEF Take
<1>3. Tail(q) \in Seq(Line) /\ Head(q) \in Line
  BY <1>1
<1>4. \A s \in Sinks : (IF target[s] # 0 THEN Append(buf[s], Head(q)) ELSE buf[s]) \in Seq(Line)
  BY <1>1, <1>3
<1> QED BY <1>1, <1>2, <1>3, <1>4

\* A session starts: the file of that second is emptied.
LEMMA StartIs ==
  ASSUME TypeOK, NEW use \in SUBSET Sinks, Start(use)
  PROVE  /\ session + 1 \in 1..MaxSession /\ session' = session + 1 /\ session \in Nat
         /\ nameOf' = [nameOf EXCEPT ![session + 1] = now]
         /\ usedBy' = [usedBy EXCEPT ![session + 1] = use]
         /\ target' \in [Sinks -> 0..MaxClock]
         /\ \A s \in Sinks : target'[s] = IF s \in use THEN now ELSE target[s]
         /\ store' \in [Sinks -> [Names -> Seq(Line)]]
         /\ \A s \in Sinks : \A f \in Names : store'[s][f] =
              IF s = "file" /\ s \in use /\ f = now THEN <<>> ELSE store[s][f]
<1>1. /\ store \in [Sinks -> [Names -> Seq(Line)]] /\ target \in [Sinks -> 0..MaxClock]
      /\ now \in 1..MaxClock /\ session \in 0..MaxSession /\ MaxSession \in Nat
      /\ MaxClock \in Nat
  BY BoundsAssumption DEF TypeOK, Names
<1>2. session + 1 \in 1..MaxSession /\ session' = session + 1 /\ session \in Nat
  BY <1>1 DEF Start
<1>3. /\ nameOf' = [nameOf EXCEPT ![session + 1] = now]
      /\ usedBy' = [usedBy EXCEPT ![session + 1] = use]
      /\ target' = [s \in Sinks |-> IF s \in use THEN now ELSE target[s]]
      /\ store' = IF "file" \in use THEN [store EXCEPT !["file"][now] = <<>>] ELSE store
  BY DEF Start, Opening, FileOpened
<1>4. /\ target' \in [Sinks -> 0..MaxClock]
      /\ \A s \in Sinks : target'[s] = IF s \in use THEN now ELSE target[s]
  <2>1. now \in 0..MaxClock
    BY <1>1
  <2>2. \A s \in Sinks : (IF s \in use THEN now ELSE target[s]) \in 0..MaxClock
    BY <1>1, <2>1
  <2> QED BY <1>3, <2>2
<1>5. /\ store' \in [Sinks -> [Names -> Seq(Line)]]
      /\ \A s \in Sinks : \A f \in Names : store'[s][f] =
           IF s = "file" /\ s \in use /\ f = now THEN <<>> ELSE store[s][f]
  <2>1. "file" \in Sinks /\ now \in Names /\ <<>> \in Seq(Line)
    BY <1>1 DEF Sinks, Names
  <2>2. CASE "file" \in use
    BY <1>1, <1>3, <2>1, <2>2
  <2>3. CASE "file" \notin use
    BY <1>1, <1>3, <2>3
  <2> QED BY <2>2, <2>3
<1> QED BY <1>2, <1>3, <1>4, <1>5

\* A line is accepted: it has the next number and the session's.
LEMMA WriteLineIs ==
  ASSUME TypeOK, WriteLine, active => session > 0
  PROVE  /\ session \in 1..MaxSession /\ count \in Nat /\ count' = count + 1
         /\ count' \in 0..MaxLine /\ q' \in Seq(Line) /\ active
         /\ \E l \in Line : /\ l.sess = session /\ l.n = count + 1 /\ q' = Append(q, l)
                            /\ taken' = [taken EXCEPT ![session] = Append(@, l)]
         /\ taken' \in [1..MaxSession -> Seq(Line)]
<1>1. /\ session \in 1..MaxSession /\ count \in 0..MaxLine /\ count < MaxLine
      /\ q \in Seq(Line) /\ taken \in [1..MaxSession -> Seq(Line)]
      /\ MaxLine \in Nat /\ active
  BY BoundsAssumption DEF TypeOK, WriteLine
<1> DEFINE l == [sess |-> session, n |-> count + 1]
<1>2. l \in Line /\ l.sess = session /\ l.n = count + 1
  BY <1>1 DEF Line
<1>3. /\ q' = Append(q, l) /\ taken' = [taken EXCEPT ![session] = Append(@, l)]
      /\ count' = count + 1
  BY DEF WriteLine
<1> HIDE DEF l
<1>4. q' \in Seq(Line) /\ count \in Nat /\ count' \in 0..MaxLine
  BY <1>1, <1>2, <1>3
<1>5. taken' \in [1..MaxSession -> Seq(Line)]
  <2>1. Append(taken[session], l) \in Seq(Line)
    BY <1>1, <1>2
  <2> QED BY <1>1, <1>3, <2>1
<1> QED BY <1>1, <1>2, <1>3, <1>4, <1>5, Zenon

\* Every step keeps the types.
LEMMA NextTypeOK == TypeOK /\ (active => session > 0) /\ [Next]_vars => TypeOK'
<1> SUFFICES ASSUME TypeOK, active => session > 0, [Next]_vars PROVE TypeOK'
  OBVIOUS
<1> USE DEF gvars, events, history
<1>1. ASSUME NEW use \in SUBSET Sinks, Start(use) PROVE TypeOK'
  <2>1. /\ session + 1 \in 1..MaxSession /\ session' = session + 1 /\ session \in Nat
        /\ nameOf' = [nameOf EXCEPT ![session + 1] = now]
        /\ usedBy' = [usedBy EXCEPT ![session + 1] = use]
        /\ target' \in [Sinks -> 0..MaxClock]
        /\ store' \in [Sinks -> [Names -> Seq(Line)]]
    BY <1>1, StartIs
  <2>2. now \in 0..MaxClock /\ session' \in 0..MaxSession
    BY <2>1, BoundsAssumption DEF TypeOK, Names
  <2>3. nameOf' \in [1..MaxSession -> 0..MaxClock] /\ usedBy' \in [1..MaxSession -> SUBSET Sinks]
    BY <2>1, <2>2 DEF TypeOK
  <2>4. /\ active' = TRUE /\ gui' = gui /\ now' = now /\ count' = count /\ disk' = disk
        /\ q' = q /\ req' = req /\ done' = done /\ stopEv' = stopEv /\ pc' = pc
        /\ buf' = buf /\ taken' = taken
    BY <1>1 DEF Start
  <2> QED BY <2>1, <2>2, <2>3, <2>4, Zenon DEF TypeOK
<1>2. ASSUME WriteLine PROVE TypeOK'
  <2>1. count' \in 0..MaxLine /\ q' \in Seq(Line) /\ taken' \in [1..MaxSession -> Seq(Line)]
    BY <1>2, WriteLineIs
  <2> QED BY <1>2, <2>1, Zenon DEF TypeOK, WriteLine
<1>3. ASSUME NEW call \in {"stopping", "ending"}, BeginStop(call) PROVE TypeOK'
  <2>1. gui' \in Guis /\ active' \in BOOLEAN /\ done' \in BOOLEAN /\ req' \in BOOLEAN
    BY <1>3 DEF BeginStop, RequestFlush, Guis
  <2> QED BY <1>3, <2>1, Zenon DEF TypeOK, BeginStop
<1>4. ASSUME EndStop PROVE TypeOK'
  <2>1. gui' \in Guis /\ stopEv' \in BOOLEAN
    BY <1>4 DEF EndStop, Guis, TypeOK
  <2>2. target' \in [Sinks -> 0..MaxClock]
    BY <1>4, BoundsAssumption DEF EndStop, Closed
  <2> QED BY <1>4, <2>1, <2>2, Zenon DEF TypeOK, EndStop
<1>5. ASSUME Join PROVE TypeOK'
  <2>1. gui' \in Guis
    BY <1>5 DEF Join, Guis
  <2> QED BY <1>5, <2>1, Zenon DEF TypeOK, Join
<1>6. ASSUME Tick PROVE TypeOK'
  <2>1. now' \in Names
    BY <1>6, BoundsAssumption DEF Tick, Names, TypeOK
  <2> QED BY <1>6, <2>1, Zenon DEF TypeOK, Tick
<1>7. ASSUME Take PROVE TypeOK'
  <2>1. q' \in Seq(Line) /\ buf' \in [Sinks -> Seq(Line)]
    BY <1>7, TakeIs
  <2> QED BY <1>7, <2>1, Zenon DEF TypeOK, Take
<1>8. ASSUME Drained \/ Check PROVE TypeOK'
  <2>1. pc' \in Pcs
    BY <1>8 DEF Drained, Check, NextTurn, Pcs
  <2> QED BY <1>8, <2>1, Zenon DEF TypeOK, Drained, Check
<1>9. ASSUME NEW s \in Sinks, Batch(s) PROVE TypeOK'
  <2>1. buf' \in [Sinks -> Seq(Line)] /\ store' \in [Sinks -> [Names -> Seq(Line)]]
    BY <1>9, WriteBatchIs DEF Batch
  <2> QED BY <1>9, <2>1, Zenon DEF TypeOK, Batch
<1>10. ASSUME FlushFile PROVE TypeOK'
  <2>1. buf' \in [Sinks -> Seq(Line)] /\ store' \in [Sinks -> [Names -> Seq(Line)]]
    BY <1>10, WriteBatchIs DEF FlushFile, Sinks
  <2>2. pc' \in Pcs
    BY <1>10 DEF FlushFile, Pcs
  <2> QED BY <1>10, <2>1, <2>2, Zenon DEF TypeOK, FlushFile
<1>11. ASSUME FlushDb PROVE TypeOK'
  <2>1. buf' \in [Sinks -> Seq(Line)] /\ store' \in [Sinks -> [Names -> Seq(Line)]]
    BY <1>11, WriteBatchIs DEF FlushDb, Sinks
  <2>2. pc' \in Pcs /\ req' \in BOOLEAN /\ done' \in BOOLEAN
    BY <1>11 DEF FlushDb, Pcs, NextTurn
  <2> QED BY <1>11, <2>1, <2>2, Zenon DEF TypeOK, FlushDb
<1>12. ASSUME Finish PROVE TypeOK'
  <2>1. buf' \in [Sinks -> Seq(Line)] /\ store' \in [Sinks -> [Names -> Seq(Line)]]
    BY <1>12, FinishIs
  <2>2. pc' \in Pcs /\ target' \in [Sinks -> 0..MaxClock]
    BY <1>12, BoundsAssumption DEF Finish, Pcs, Closed
  <2> QED BY <1>12, <2>1, <2>2, Zenon DEF TypeOK, Finish
<1>13. ASSUME UNCHANGED vars PROVE TypeOK'
  BY <1>13 DEF vars, TypeOK
<1> QED BY <1>1, <1>2, <1>3, <1>4, <1>5, <1>6, <1>7, <1>8, <1>9, <1>10, <1>11, <1>12, <1>13
        DEF Next, Gui, Writer

-----------------------------------------------------------------------------
(* A file, its buffer and the queue stay one rising sequence *)

\* The order is a matter of these four variables.
LEMMA OrderStays ==
  ASSUME Ordered, q' = q, buf' = buf, store' = store, count' = count
  PROVE  Ordered'
BY DEF Ordered, Rising, UpTo, Before

\* Writing a first part of a buffer keeps the order.
LEMMA WriteBatchOrdered ==
  ASSUME TypeOK, Ordered, NEW s \in Sinks, WriteBatch(s), q' = q, count' = count
  PROVE  Ordered'
<1>1. /\ buf' = [buf EXCEPT ![s] = <<>>] /\ buf \in [Sinks -> Seq(Line)]
      /\ store \in [Sinks -> [Names -> Seq(Line)]] /\ q \in Seq(Line) /\ count \in Nat
      /\ buf[s] \in Seq(Line)
  BY WriteBatchIs, BoundsAssumption DEF TypeOK
<1>2. PICK k \in 0..Len(buf[s]) :
        \A r \in Sinks : \A f \in Names : store'[r][f] =
          IF r = s /\ f = target[s] THEN store[r][f] \o SubSeq(buf[s], 1, k) ELSE store[r][f]
  BY WriteBatchIs
<1> DEFINE p == SubSeq(buf[s], 1, k)
<1>3. /\ p \in Seq(Line) /\ Rising(p) /\ UpTo(p, count) /\ Before(p, q)
      /\ \A f \in Names : Before(store[s][f], p)
  BY <1>1, PrefixOrder DEF Ordered
<1> HIDE DEF p
<1>4. \A r \in Sinks : buf'[r] = IF r = s THEN <<>> ELSE buf[r]
  BY <1>1
<1>5. \A r \in Sinks : Rising(buf'[r]) /\ UpTo(buf'[r], count) /\ Before(buf'[r], q)
  BY <1>4, EmptyOrder DEF Ordered
<1>6. ASSUME NEW r \in Sinks, NEW f \in Names
      PROVE  /\ Rising(store'[r][f]) /\ UpTo(store'[r][f], count)
             /\ Before(store'[r][f], buf'[r]) /\ Before(store'[r][f], q)
  <2> DEFINE x == store[r][f]
  <2>1. /\ x \in Seq(Line) /\ Rising(x) /\ UpTo(x, count) /\ Before(x, buf[r])
        /\ Before(x, q)
    BY <1>1 DEF Ordered
  <2>2. CASE r = s /\ f = target[s]
    <3>1. store'[r][f] = x \o p /\ buf'[r] = <<>>
      BY <1>2, <1>4, <2>2 DEF p
    <3>2. Before(x, p)
      BY <1>3, <2>2
    <3> HIDE DEF x
    <3>3. Rising(x \o p) /\ UpTo(x \o p, count) /\ Before(x \o p, q)
      BY <1>1, <1>3, <2>1, <3>2, RisingConcat, ConcatBefore
    <3> QED BY <3>1, <3>3, EmptyOrder
  <2>3. CASE ~(r = s /\ f = target[s])
    <3>1. store'[r][f] = x
      BY <1>2, <2>3
    <3> HIDE DEF x
    <3> QED BY <1>4, <2>1, <3>1, EmptyOrder
  <2> QED BY <2>2, <2>3
<1>7. Rising(q) /\ UpTo(q, count)
  BY DEF Ordered
<1>8. q' = q /\ count' = count
  OBVIOUS
<1> QED BY <1>5, <1>6, <1>7, <1>8 DEF Ordered, Rising, UpTo, Before

\* So does the last write of the thread.
LEMMA FinishOrdered == TypeOK /\ Ordered /\ Finish => Ordered'
<1> SUFFICES ASSUME TypeOK, Ordered, Finish PROVE Ordered'
  OBVIOUS
<1>1. /\ buf \in [Sinks -> Seq(Line)] /\ q \in Seq(Line) /\ count \in Nat
      /\ store \in [Sinks -> [Names -> Seq(Line)]] /\ q' = q /\ count' = count
  BY BoundsAssumption DEF TypeOK, Finish, gvars
<1>2. /\ \A s \in Sinks : buf'[s] = <<>>
      /\ \A r \in Sinks : \A f \in Names : store'[r][f] =
           IF f = target[r] THEN store[r][f] \o buf[r] ELSE store[r][f]
  BY FinishIs
<1>3. ASSUME NEW r \in Sinks, NEW f \in Names
      PROVE  /\ Rising(store'[r][f]) /\ UpTo(store'[r][f], count)
             /\ Before(store'[r][f], buf'[r]) /\ Before(store'[r][f], q)
  <2> DEFINE x == store[r][f]
             y == buf[r]
  <2>1. /\ x \in Seq(Line) /\ Rising(x) /\ UpTo(x, count) /\ Before(x, y) /\ Before(x, q)
        /\ y \in Seq(Line) /\ Rising(y) /\ UpTo(y, count) /\ Before(y, q)
    BY <1>1 DEF Ordered
  <2>2. store'[r][f] = x \o y \/ store'[r][f] = x
    BY <1>2
  <2> HIDE DEF x, y
  <2>3. Rising(x \o y) /\ UpTo(x \o y, count) /\ Before(x \o y, q)
    BY <1>1, <2>1, RisingConcat, ConcatBefore
  <2> QED BY ZenonT(40), <1>2, <2>1, <2>2, <2>3, EmptyOrder
<1>4. \A s \in Sinks : Rising(buf'[s]) /\ UpTo(buf'[s], count) /\ Before(buf'[s], q)
  BY <1>2, EmptyOrder
<1>5. Rising(q) /\ UpTo(q, count)
  BY DEF Ordered
<1> QED BY <1>1, <1>3, <1>4, <1>5 DEF Ordered, Rising, UpTo, Before

\* The line that leaves the queue is before those that stay.
LEMMA TakeOrdered == TypeOK /\ Ordered /\ Take => Ordered'
<1> SUFFICES ASSUME TypeOK, Ordered, Take PROVE Ordered'
  OBVIOUS
<1>1. /\ buf \in [Sinks -> Seq(Line)] /\ q \in Seq(Line) /\ count \in Nat
      /\ store \in [Sinks -> [Names -> Seq(Line)]] /\ count' = count /\ store' = store
  BY BoundsAssumption DEF TypeOK, Take, gvars
<1>2. /\ q # <<>> /\ q' = Tail(q)
      /\ \A s \in Sinks : buf'[s] = IF target[s] # 0 THEN Append(buf[s], Head(q)) ELSE buf[s]
  BY TakeIs
<1> DEFINE t == Tail(q)
<1>3. Rising(t) /\ UpTo(t, count)
  BY <1>1, <1>2, EmptyOrder, MoveOrder DEF Ordered
<1>4. ASSUME NEW s \in Sinks
      PROVE  /\ Rising(buf'[s]) /\ UpTo(buf'[s], count) /\ Before(buf'[s], t)
             /\ \A f \in Names : Before(store[s][f], buf'[s]) /\ Before(store[s][f], t)
  <2> DEFINE b == buf[s]
  <2>1. /\ b \in Seq(Line) /\ Rising(b) /\ UpTo(b, count) /\ Before(b, q) /\ Rising(q)
        /\ UpTo(q, count) /\ \A f \in Names : Before(store[s][f], b) /\ Before(store[s][f], q)
    BY <1>1 DEF Ordered
  <2>2. buf'[s] = Append(b, Head(q)) \/ buf'[s] = b
    BY <1>2
  <2> HIDE DEF b, t
  <2>3. /\ Rising(Append(b, Head(q))) /\ UpTo(Append(b, Head(q)), count)
        /\ Before(Append(b, Head(q)), Tail(q))
        /\ \A x : Before(x, b) /\ Before(x, q) => Before(x, Append(b, Head(q)))
        /\ \A x : Before(x, q) => Before(x, Tail(q))
    BY <1>1, <1>2, <2>1, MoveOrder
  <2> QED BY <2>1, <2>2, <2>3 DEF t
<1>5. \A s \in Sinks : \A f \in Names : Rising(store[s][f]) /\ UpTo(store[s][f], count)
  BY DEF Ordered
<1>6. q' = t
  BY <1>2
<1> HIDE DEF t
<1> QED BY <1>1, <1>3, <1>4, <1>5, <1>6 DEF Ordered, Rising, UpTo, Before

\* An accepted line has a higher number than all before it.
LEMMA WriteLineOrdered ==
  TypeOK /\ (active => session > 0) /\ Ordered /\ WriteLine => Ordered'
<1> SUFFICES ASSUME TypeOK, active => session > 0, Ordered, WriteLine PROVE Ordered'
  OBVIOUS
<1>1. /\ buf \in [Sinks -> Seq(Line)] /\ q \in Seq(Line) /\ count \in Nat
      /\ store \in [Sinks -> [Names -> Seq(Line)]] /\ store' = store /\ buf' = buf
  BY BoundsAssumption DEF TypeOK, WriteLine
<1>2. count' = count + 1
  BY WriteLineIs
<1>3. PICK l \in Line : l.n = count + 1 /\ q' = Append(q, l)
  BY WriteLineIs
<1>4. ASSUME NEW x \in Seq(Line), UpTo(x, count)
      PROVE  UpTo(x, count') /\ (Before(x, q) => Before(x, q'))
  <2>1. \A i \in 1..Len(x) : x[i].n \in Nat /\ x[i].n <= count
    BY <1>4, LineIs DEF UpTo
  <2>2. UpTo(x, count')
    BY <1>1, <1>2, <2>1 DEF UpTo
  <2>3. /\ Len(q) \in Nat /\ Len(q') = Len(q) + 1 /\ q'[Len(q) + 1] = l
        /\ \A i \in 1..Len(q) : q'[i] = q[i]
    BY <1>1, <1>3
  <2>4. \A i \in 1..Len(q') : i \in 1..Len(q) \/ q'[i] = l
    BY <2>3
  <2>5. \A i \in 1..Len(x) : x[i].n < l.n
    BY <1>1, <1>3, <2>1
  <2>6. Before(x, q) => Before(x, q')
    BY <2>3, <2>4, <2>5 DEF Before
  <2> QED BY <2>2, <2>6
<1>5. Rising(q') /\ UpTo(q', count')
  <2>1. \A i \in 1..Len(q) : q[i].n \in Nat /\ q[i].n <= count
    BY <1>1, LineIs DEF UpTo, Ordered
  <2>2. /\ Len(q) \in Nat /\ Len(q') = Len(q) + 1 /\ q'[Len(q) + 1].n = count + 1
        /\ \A i \in 1..Len(q) : q'[i] = q[i]
    BY <1>1, <1>3
  <2>3. \A i \in 1..Len(q') : i \in 1..Len(q) \/ i = Len(q) + 1
    BY <2>2
  <2>4. UpTo(q', count')
    BY <1>1, <1>2, <2>1, <2>2, <2>3 DEF UpTo
  <2>5. \A i, j \in 1..Len(q') : i < j => i \in 1..Len(q)
    BY <2>2
  <2>6. ASSUME NEW i \in 1..Len(q), NEW j \in 1..Len(q'), i < j
        PROVE  q'[i].n < q'[j].n
    <3>1. CASE j \in 1..Len(q)
      BY <2>2, <2>6, <3>1 DEF Ordered, Rising
    <3>2. CASE j = Len(q) + 1
      BY <1>1, <2>1, <2>2, <3>2
    <3> QED BY <2>3, <3>1, <3>2
  <2>7. Rising(q')
    BY <2>5, <2>6 DEF Rising
  <2> QED BY <2>4, <2>7
<1>6. \A s \in Sinks : /\ Rising(buf'[s]) /\ UpTo(buf'[s], count') /\ Before(buf'[s], q')
                     /\ \A f \in Names : /\ UpTo(store'[s][f], count')
                                         /\ Before(store'[s][f], q')
  BY <1>1, <1>4 DEF Ordered
<1>7. \A s \in Sinks : \A f \in Names : Rising(store'[s][f]) /\ Before(store'[s][f], buf'[s])
  BY <1>1 DEF Ordered
<1> QED BY <1>5, <1>6, <1>7 DEF Ordered, Rising, UpTo, Before

\* An emptied file is in order.
LEMMA StartOrdered ==
  ASSUME TypeOK, Ordered, NEW use \in SUBSET Sinks, Start(use)
  PROVE  Ordered'
<1>1. q' = q /\ buf' = buf /\ count' = count
  BY DEF Start
<1>2. \A s \in Sinks : \A f \in Names : store'[s][f] = store[s][f] \/ store'[s][f] = <<>>
  BY StartIs
<1>3. \A s \in Sinks : \A f \in Names :
        /\ Rising(store'[s][f]) /\ UpTo(store'[s][f], count)
        /\ Before(store'[s][f], buf[s]) /\ Before(store'[s][f], q)
  BY <1>2, EmptyOrder DEF Ordered
<1> QED BY <1>1, <1>3 DEF Ordered, Rising, UpTo, Before

\* Every step keeps the order, on any disk.
LEMMA NextOrdered == TypeOK /\ (active => session > 0) /\ Ordered /\ [Next]_vars => Ordered'
<1> SUFFICES ASSUME TypeOK, active => session > 0, Ordered, [Next]_vars PROVE Ordered'
  OBVIOUS
<1>1. ASSUME NEW s \in Sinks, Batch(s) PROVE Ordered'
  BY <1>1, WriteBatchOrdered DEF Batch, gvars
<1>2. ASSUME FlushFile \/ FlushDb PROVE Ordered'
  BY <1>2, WriteBatchOrdered DEF FlushFile, FlushDb, gvars, Sinks
<1>3. ASSUME NEW call, BeginStop(call) PROVE Ordered'
  BY <1>3, OrderStays DEF BeginStop
<1>4. ASSUME EndStop \/ Join \/ Tick \/ Drained \/ Check PROVE Ordered'
  BY <1>4, OrderStays DEF EndStop, Join, Tick, Drained, Check, gvars
<1>5. ASSUME UNCHANGED vars PROVE Ordered'
  BY <1>5, OrderStays DEF vars, gvars
<1> QED BY <1>1, <1>2, <1>3, <1>4, <1>5, StartOrdered, WriteLineOrdered, TakeOrdered,
           FinishOrdered DEF Next, Gui, Writer

-----------------------------------------------------------------------------
(* The calls and the writer's answers *)

\* Every step keeps what the calls leave closed, on any disk.
LEMMA NextClosing == TypeOK /\ Closing /\ [Next]_vars => Closing'
<1> SUFFICES ASSUME TypeOK, Closing, [Next]_vars PROVE Closing'
  OBVIOUS
<1> USE DEF gvars, events, history, Closing, Waiting
<1>1. ASSUME NEW use \in SUBSET Sinks, Start(use) PROVE Closing'
  <2>1. session' > 0
    BY <1>1, StartIs
  <2> QED BY <1>1, <2>1, Zenon DEF Start
<1>2. ASSUME WriteLine PROVE Closing'
  BY <1>2, Zenon DEF WriteLine, Closed
<1>3. ASSUME NEW call \in {"stopping", "ending"}, BeginStop(call) PROVE Closing'
  <2>1. gui = "idle" /\ ~stopEv
    BY <1>3 DEF BeginStop
  <2> QED BY <1>3, <2>1 DEF BeginStop, RequestFlush
<1>4. ASSUME EndStop PROVE Closing'
  BY <1>4 DEF EndStop, Closed
<1>5. ASSUME Join PROVE Closing'
  BY <1>5 DEF Join, Closed
<1>6. ASSUME Tick PROVE Closing'
  BY <1>6, Zenon DEF Tick, Closed
<1>7. ASSUME Take PROVE Closing'
  BY <1>7, Zenon DEF Take, Closed
<1>8. ASSUME Drained \/ Check PROVE Closing'
  BY <1>8 DEF Drained, Check, NextTurn, Closed
<1>9. ASSUME NEW s \in Sinks, Batch(s) PROVE Closing'
  BY <1>9, Zenon DEF Batch, Closed
<1>10. ASSUME FlushFile \/ FlushDb PROVE Closing'
  BY <1>10 DEF FlushFile, FlushDb, NextTurn, Closed
<1>11. ASSUME Finish PROVE Closing'
  <2>1. stopEv /\ gui \in {"joining", "down"}
    BY <1>11 DEF Finish
  <2> QED BY <1>11, <2>1 DEF Finish, Closed
<1>12. ASSUME UNCHANGED vars PROVE Closing'
  BY <1>12 DEF vars, Closed
<1> QED BY <1>1, <1>2, <1>3, <1>4, <1>5, <1>6, <1>7, <1>8, <1>9, <1>10, <1>11, <1>12
        DEF Next, Gui, Writer

\* On a good disk no call ends before its answer, and no answer comes too early.
LEMMA NextHandshake ==
  ASSUME TypeOK, Closing, Handshake, Good, [Next]_vars
  PROVE  Handshake'
<1> USE DEF gvars, events, history, Waiting
<1>1. ASSUME NEW use \in SUBSET Sinks, Start(use) PROVE Handshake'
  BY <1>1, Zenon DEF Start, Handshake, Quiet
<1>2. ASSUME WriteLine PROVE Handshake'
  <2>1. gui = "idle" /\ active /\ ~req
    BY <1>2 DEF WriteLine, Handshake
  <2> QED BY <1>2, <2>1 DEF WriteLine, Handshake, Quiet
<1>3. ASSUME NEW call \in {"stopping", "ending"}, BeginStop(call) PROVE Handshake'
  <2>1. gui = "idle" /\ ~req
    BY <1>3 DEF BeginStop, Handshake
  <2> QED BY <1>3, <2>1 DEF BeginStop, RequestFlush, Handshake, Quiet
<1>4. ASSUME EndStop PROVE Handshake'
  <2>1. done /\ ~req /\ ~active
    BY <1>4 DEF EndStop, Handshake, Closing
  <2> QED BY <1>4, <2>1 DEF EndStop, Handshake, Quiet
<1>5. ASSUME Join \/ Tick PROVE Handshake'
  BY <1>5 DEF Join, Tick, Handshake, Quiet
<1>6. ASSUME Take PROVE Handshake'
  <2>1. q # <<>> /\ pc \in {"drain", "fdrain", "final"}
    BY <1>6 DEF Take
  <2>2. active \/ req
    BY <2>1 DEF Handshake, Quiet
  <2> QED BY <1>6, <2>1, <2>2 DEF Take, Handshake
<1>7. ASSUME Drained \/ Check PROVE Handshake'
  BY <1>7 DEF Drained, Check, NextTurn, Handshake, Quiet
<1>8. ASSUME NEW s \in Sinks, Batch(s) PROVE Handshake'
  <2>1. buf' = [buf EXCEPT ![s] = <<>>] /\ buf \in [Sinks -> Seq(Line)]
    BY <1>8 DEF Batch, WriteBatch, TypeOK
  <2> QED BY <1>8, <2>1 DEF Batch, Handshake, Quiet, Sinks
<1>9. ASSUME FlushFile PROVE Handshake'
  <2>1. /\ buf' = [buf EXCEPT !["file"] = <<>>] /\ buf \in [Sinks -> Seq(Line)]
        /\ pc = "ffile" /\ pc' = "fdb" /\ q' = q /\ active' = active /\ gui' = gui
        /\ req' = req /\ done' = done
    BY <1>9 DEF FlushFile, WriteBatch, TypeOK
  <2> QED BY <2>1 DEF Handshake, Quiet, Sinks
<1>10. ASSUME FlushDb PROVE Handshake'
  <2>1. /\ buf' = [buf EXCEPT !["db"] = <<>>] /\ buf \in [Sinks -> Seq(Line)]
        /\ pc = "fdb" /\ pc' \in {"final", "drain"} /\ q' = q /\ active' = active
        /\ gui' = gui /\ req' = FALSE /\ done' = TRUE
    BY <1>10 DEF FlushDb, WriteBatch, TypeOK, NextTurn
  <2>2. q = <<>> /\ buf["file"] = <<>>
    BY <2>1 DEF Handshake
  <2>3. Quiet'
    BY <2>1, <2>2 DEF Quiet, Sinks
  <2> QED BY <2>1, <2>3 DEF Handshake
<1>11. ASSUME Finish PROVE Handshake'
  <2>1. \A s \in Sinks : buf'[s] = <<>>
    BY <1>11 DEF Finish
  <2> QED BY <1>11, <2>1 DEF Finish, Handshake, Quiet
<1>12. ASSUME UNCHANGED vars PROVE Handshake'
  BY <1>12 DEF vars, Handshake, Quiet
<1> QED BY <1>1, <1>2, <1>3, <1>4, <1>5, <1>6, <1>7, <1>8, <1>9, <1>10, <1>11, <1>12
        DEF Next, Gui, Writer

-----------------------------------------------------------------------------
(* On a good disk: whose lines are where, and that none is missing *)

\* A step that moves no line, opens nothing and closes nothing.
LEMMA SessionStays ==
  ASSUME Current, Owned, Complete, active' => active, q' = q, buf' = buf,
         target' = target, store' = store, session' = session, nameOf' = nameOf,
         usedBy' = usedBy, taken' = taken
  PROVE  Current' /\ Owned' /\ Complete'
<1>1. Current'
  BY DEF Current
<1>2. Owned'
  BY DEF Owned
<1>3. Complete'
  BY DEF Complete, Kept, Emptied
<1> QED BY <1>1, <1>2, <1>3

\* The session counts, its names and its lines are what they should be.
LEMMA SessionIs ==
  ASSUME TypeOK, Owned
  PROVE  /\ session \in Nat /\ session <= MaxSession /\ MaxSession \in Nat
         /\ \A k \in 1..session : k \in 1..MaxSession /\ nameOf[k] \in Names
                                  /\ usedBy[k] \subseteq Sinks /\ taken[k] \in Seq(Line)
         /\ \A s \in Sinks : buf[s] \in Seq(Line)
         /\ \A s \in Sinks : \A f \in Names : store[s][f] \in Seq(Line)
         /\ q \in Seq(Line)
<1>1. session \in 0..MaxSession /\ MaxSession \in Nat
  BY BoundsAssumption DEF TypeOK
<1>2. \A k \in 1..session : k \in 1..MaxSession
  BY <1>1
<1> QED BY <1>1, <1>2 DEF TypeOK, Owned

\* All of a buffer goes to the file of the session whose lines it has.
LEMMA WriteBatchGood ==
  ASSUME TypeOK, Current, Good, NEW s \in Sinks, WriteBatch(s)
  PROVE  /\ \A r \in Sinks : buf'[r] = IF r = s THEN <<>> ELSE buf[r]
         /\ \A r \in Sinks : \A f \in Names : store'[r][f] =
              IF r = s /\ f = target[s] THEN store[r][f] \o buf[s] ELSE store[r][f]
         /\ target[s] = 0 => buf[s] = <<>>
<1>1. buf' = [buf EXCEPT ![s] = <<>>] /\ buf \in [Sinks -> Seq(Line)]
      /\ store \in [Sinks -> [Names -> Seq(Line)]]
  BY WriteBatchIs DEF TypeOK
<1>2. PICK k \in 0..Len(buf[s]) :
        /\ Good /\ target[s] # 0 => k = Len(buf[s])
        /\ \A r \in Sinks : \A f \in Names : store'[r][f] =
             IF r = s /\ f = target[s] THEN store[r][f] \o SubSeq(buf[s], 1, k)
             ELSE store[r][f]
  BY WriteBatchIs
<1>3. target[s] = 0 => buf[s] = <<>>
  BY DEF Current
<1>4. CASE target[s] # 0
  <2>1. SubSeq(buf[s], 1, k) = buf[s]
    BY <1>1, <1>2, <1>4, PrefixOrder
  <2> QED BY <1>1, <1>2, <1>3, <2>1
<1>5. CASE target[s] = 0
  <2>1. 0 \notin Names
    BY DEF Names
  <2> QED BY <1>1, <1>2, <1>3, <1>5, <2>1
<1> QED BY <1>4, <1>5

\* Lines of the last session, added to a file it opened, keep the file its owners'.
LEMMA WriteBatchOwned ==
  ASSUME TypeOK, Current, Owned, Good, NEW s \in Sinks, WriteBatch(s),
         session' = session, nameOf' = nameOf, usedBy' = usedBy
  PROVE  Owned'
<1>1. /\ \A r \in Sinks : \A f \in Names : store'[r][f] =
           IF r = s /\ f = target[s] THEN store[r][f] \o buf[s] ELSE store[r][f]
      /\ target[s] = 0 => buf[s] = <<>>
  BY WriteBatchGood
<1> DEFINE Mine(r, f, x) == \A i \in 1..Len(x) :
             LET k == x[i].sess IN k <= session /\ nameOf[k] = f /\ r \in usedBy[k]
           Older(x) == \A i, j \in 1..Len(x) : i <= j => x[i].sess <= x[j].sess
<1>2. \A r \in Sinks : \A f \in Names : Mine(r, f, store[r][f]) /\ Older(store[r][f])
  BY DEF Owned
<1>3. ASSUME NEW f \in Names, f = target[s]
      PROVE  Mine(s, f, store[s][f] \o buf[s]) /\ Older(store[s][f] \o buf[s])
  <2> DEFINE x == store[s][f]
             y == buf[s]
  <2>1. x \in Seq(Line) /\ y \in Seq(Line)
    BY SessionIs
  <2> DEFINE z == x \o y
  <2> HIDE DEF x, y
  <2>2. /\ Len(z) = Len(x) + Len(y) /\ Len(x) \in Nat /\ Len(y) \in Nat
        /\ \A i \in 1..Len(x) : z[i] = x[i]
        /\ \A i \in 1..Len(z) : i > Len(x) => i - Len(x) \in 1..Len(y) /\ z[i] = y[i - Len(x)]
    BY <2>1, ConcatIs
  <2>3. \A i \in 1..Len(y) : y[i].sess = session
    BY DEF Current, y
  <2>4. target[s] # 0 /\ session > 0 /\ s \in usedBy[session] /\ f = nameOf[session]
    BY <1>3 DEF Names, Current
  <2>5. /\ Mine(s, f, x) /\ Older(x) /\ session \in Nat
        /\ \A i \in 1..Len(x) : x[i].sess \in Nat
    <3>1. Mine(s, f, x) /\ Older(x)
      <4> HIDE DEF Mine, Older
      <4> QED BY <1>2 DEF x
    <3>2. session \in Nat
      BY SessionIs
    <3>3. ASSUME NEW i \in 1..Len(x)  PROVE x[i].sess \in Nat
      <4> HIDE DEF Mine, Older
      <4>1. x[i].sess \in 1..MaxSession
        BY <2>1, LineIs
      <4> QED BY <4>1
    <3> QED BY <3>1, <3>2, <3>3
  <2> HIDE DEF z
  <2>6. \A i \in 1..Len(z) : \/ i \in 1..Len(x) /\ z[i] = x[i]
                             \/ i > Len(x) /\ z[i].sess = session
    <3> TAKE i \in 1..Len(z)
    <3>1. CASE i \in 1..Len(x)
      BY <2>2, <3>1
    <3>2. CASE i > Len(x)
      <4>1. i - Len(x) \in 1..Len(y) /\ z[i] = y[i - Len(x)]
        BY <2>2, <3>2
      <4>2. z[i].sess = session
        BY <2>3, <4>1
      <4> QED BY <3>2, <4>2
    <3> QED BY <2>2, <3>1, <3>2
  <2>7. Mine(s, f, z)
    BY <2>4, <2>5, <2>6
  <2>8. ASSUME NEW i \in 1..Len(z), NEW j \in 1..Len(z), i <= j
        PROVE  z[i].sess <= z[j].sess
    <3>1. CASE j \in 1..Len(x)
      <4>1. i \in 1..Len(x)
        BY <2>2, <2>8, <3>1
      <4> QED BY <2>2, <2>5, <2>8, <3>1, <4>1
    <3>2. CASE j > Len(x)
      <4>1. z[j].sess = session
        BY <2>2, <2>6, <3>2
      <4>2. z[i].sess <= session
        BY <2>5, <2>6
      <4> QED BY <4>1, <4>2
    <3> QED BY <2>2, <3>1, <3>2
  <2>9. Older(z)
    BY <2>8
  <2> QED BY <2>7, <2>9 DEF x, y, z
<1> HIDE DEF Mine, Older
<1>4. \A r \in Sinks : \A f \in Names : Mine(r, f, store'[r][f]) /\ Older(store'[r][f])
  BY <1>1, <1>2, <1>3
<1>5. \A k \in 1..session : nameOf[k] \in Names
  BY DEF Owned
<1> QED BY <1>4, <1>5 DEF Owned, Mine, Older

\* A batch lengthens the part of the last session by what was in the buffer, and
\* changes no other part.
LEMMA WriteBatchKept ==
  ASSUME TypeOK, Current, Owned, Good, NEW s \in Sinks, WriteBatch(s), nameOf' = nameOf,
         NEW k \in 1..session, NEW r \in usedBy[k]
  PROVE  Kept(r, k)' = IF r = s /\ k = session THEN Kept(r, k) \o buf[s] ELSE Kept(r, k)
<1>1. /\ \A t \in Sinks : \A f \in Names : store'[t][f] =
           IF t = s /\ f = target[s] THEN store[t][f] \o buf[s] ELSE store[t][f]
      /\ target[s] = 0 => buf[s] = <<>>
  BY WriteBatchGood
<1> DEFINE f == nameOf[k]
           x == store[r][f]
           y == buf[s]
<1>2. /\ r \in Sinks /\ f \in Names /\ x \in Seq(Line) /\ y \in Seq(Line)
      /\ session \in Nat /\ k \in Nat /\ k <= session
      /\ \A i \in 1..Len(x) : x[i].sess \in Nat
  BY SessionIs, LineIs
<1>3. Kept(r, k) = Part(x, k) /\ Kept(r, k)' = Part(store'[r][f], k)
  BY DEF Kept
<1>4. \A i \in 1..Len(y) : y[i].sess = session
  BY DEF Current
<1>5. /\ \A i \in 1..Len(x) : x[i].sess <= session
      /\ \A i, j \in 1..Len(x) : i <= j => x[i].sess <= x[j].sess
  BY <1>2 DEF Owned
<1>6. CASE r = s /\ f = target[s]
  <2>1. store'[r][f] = x \o y
    BY <1>1, <1>2, <1>6
  <2> HIDE DEF f, x, y
  <2>2. k < session => Part(x \o y, k) = Part(x, k)
    <3>1. k < session => \A i \in 1..Len(y) : y[i].sess # k
      BY <1>2, <1>4
    <3> QED BY <1>2, <3>1, PartOther
  <2>3. k = session => Part(x \o y, k) = Part(x, k) \o y
    <3>1. \A i, j \in 1..Len(x) : x[i].sess = session /\ i <= j => x[j].sess = session
      BY <1>2, <1>5
    <3> QED BY <1>2, <1>4, <3>1, PartSame
  <2>4. Kept(r, k)' = IF k = session THEN Kept(r, k) \o y ELSE Kept(r, k)
    BY <1>2, <1>3, <2>1, <2>2, <2>3
  <2> QED BY <1>6, <2>4 DEF y
<1>7. CASE ~(r = s /\ f = target[s])
  <2>1. store'[r][f] = x
    BY <1>1, <1>2, <1>7
  <2>2. r = s /\ k = session => buf[s] = <<>>
    <3>1. target[s] # 0 => target[s] = nameOf[session]
      BY DEF Current
    <3> QED BY <1>1, <1>7, <3>1
  <2>3. Kept(r, k) \o <<>> = Kept(r, k)
    <3>1. Kept(r, k) \in Seq(Line)
      BY <1>2, <1>3, PartSeq
    <3> QED BY <3>1
  <2> QED BY <1>3, <2>1, <2>2, <2>3
<1> QED BY <1>6, <1>7

\* What a batch adds to the part of the session leaves its buffer.
LEMMA WriteBatchComplete ==
  ASSUME TypeOK, Current, Owned, Complete, Good, NEW s \in Sinks, WriteBatch(s), q' = q,
         session' = session, nameOf' = nameOf, usedBy' = usedBy, taken' = taken
  PROVE  Complete'
<1>1. \A r \in Sinks : buf'[r] = IF r = s THEN <<>> ELSE buf[r]
  BY WriteBatchGood
<1>2. session \in Nat /\ (session > 0 => session \in 1..session)
  BY SessionIs
<1>3. \A k \in 1..session : \A r \in usedBy[k] : k < session => Kept(r, k)' = Kept(r, k)
  BY <1>2, WriteBatchKept
<1>4. ASSUME session > 0, NEW r \in usedBy[session]
      PROVE  Kept(r, session)' \o buf'[r] = Kept(r, session) \o buf[r]
  <2>1. r \in Sinks /\ nameOf[session] \in Names /\ session \in 1..session
    BY <1>2, <1>4, SessionIs
  <2>2. Kept(r, session) \in Seq(Line) /\ buf[r] \in Seq(Line)
    BY <2>1, SessionIs, PartSeq DEF Kept
  <2>3. (Kept(r, session) \o buf[r]) \o <<>> = Kept(r, session) \o buf[r]
    BY <2>2
  <2>4. Kept(r, session)' =
          IF r = s THEN Kept(r, session) \o buf[s] ELSE Kept(r, session)
    BY <2>1, WriteBatchKept
  <2> QED BY <1>1, <2>1, <2>3, <2>4
<1>5. \A k \in 1..session : \A r \in usedBy[k] : Emptied(r, k)' <=> Emptied(r, k)
  BY DEF Emptied
<1> QED BY <1>2, <1>3, <1>4, <1>5 DEF Complete

\* What a batch leaves in the buffers is of the last session as before.
LEMMA WriteBatchCurrent ==
  ASSUME TypeOK, Current, Good, NEW s \in Sinks, WriteBatch(s), q' = q, active' = active,
         target' = target, session' = session, nameOf' = nameOf, usedBy' = usedBy
  PROVE  Current'
<1>1. \A r \in Sinks : buf'[r] = IF r = s THEN <<>> ELSE buf[r]
  BY WriteBatchGood
<1>2. \A r \in Sinks : buf'[r] # <<>> => target[r] # 0
  BY <1>1 DEF Current
<1>3. \A r \in Sinks : \A i \in 1..Len(buf'[r]) : buf'[r][i].sess = session
  <2>1. Len(<<>>) = 0 /\ 1..0 = {}
    OBVIOUS
  <2> QED BY <1>1, <2>1 DEF Current
<1> QED BY <1>2, <1>3 DEF Current

\* The line at the head of the queue is of the session, and so its buffer's.
LEMMA TakeGood ==
  ASSUME TypeOK, Current, Owned, Complete, Good, Take
  PROVE  Current' /\ Owned' /\ Complete'
<1>1. /\ q # <<>> /\ q' = Tail(q)
      /\ \A s \in Sinks : buf'[s] = IF target[s] # 0 THEN Append(buf[s], Head(q)) ELSE buf[s]
  BY TakeIs
<1>2. /\ active' = active /\ target' = target /\ store' = store /\ session' = session
      /\ nameOf' = nameOf /\ usedBy' = usedBy /\ taken' = taken
  BY DEF Take, gvars, history
<1>3. /\ q \in Seq(Line) /\ session \in Nat /\ \A s \in Sinks : buf[s] \in Seq(Line)
      /\ \A k \in 1..session : usedBy[k] \subseteq Sinks
  BY SessionIs
<1>4. session > 0 /\ \A s \in usedBy[session] : target[s] # 0
  BY <1>1 DEF Current
<1>5. /\ Head(q) = q[1] /\ 1 \in 1..Len(q) /\ Tail(q) \in Seq(Line)
      /\ \A i \in 1..Len(Tail(q)) : i + 1 \in 1..Len(q) /\ Tail(q)[i] = q[i + 1]
  <2>1. Head(q) = q[1] /\ Len(q) \in Nat \ {0} /\ Tail(q) \in Seq(Line)
        /\ Len(Tail(q)) = Len(q) - 1
    BY <1>1, <1>3
  <2>2. \A i \in 1..Len(q) - 1 : i + 1 \in 1..Len(q) /\ Tail(q)[i] = q[i + 1]
    BY <1>1, <1>3, <2>1
  <2> QED BY <2>1, <2>2
<1>6. Head(q).sess = session /\ \A i \in 1..Len(Tail(q)) : Tail(q)[i].sess = session
  BY <1>5 DEF Current
<1>7. ASSUME NEW s \in Sinks
      PROVE  /\ buf'[s] # <<>> => target[s] # 0
             /\ \A i \in 1..Len(buf'[s]) : buf'[s][i].sess = session
             /\ (s \in usedBy[session] => buf'[s] \o q' = buf[s] \o q)
  <2> DEFINE b == buf[s]
             a == Append(b, Head(q))
  <2>1. b \in Seq(Line) /\ (b # <<>> => target[s] # 0)
        /\ \A i \in 1..Len(b) : b[i].sess = session
    BY <1>3 DEF Current
  <2>2. CASE target[s] # 0
    <3>1. buf'[s] = a
      BY <1>1, <2>2
    <3> HIDE DEF b
    <3>2. /\ Len(a) = Len(b) + 1 /\ Len(b) \in Nat /\ a[Len(b) + 1] = Head(q)
          /\ \A i \in 1..Len(b) : a[i] = b[i]
      BY <2>1
    <3>3. a \o Tail(q) = b \o q
      BY SMTT(30), <1>1, <1>3, <2>1
    <3>4. \A i \in 1..Len(a) : i \in 1..Len(b) \/ i = Len(b) + 1
      BY <3>2
    <3> HIDE DEF a
    <3>5. \A i \in 1..Len(a) : a[i].sess = session
      BY <1>6, <2>1, <3>2, <3>4
    <3>6. b \o q = buf[s] \o q
      BY DEF b
    <3> QED BY <1>1, <2>2, <3>1, <3>3, <3>5, <3>6
  <2>3. CASE target[s] = 0
    <3>1. buf'[s] = b /\ s \notin usedBy[session]
      BY <1>1, <1>4, <2>3
    <3> QED BY <2>1, <3>1
  <2> QED BY <2>2, <2>3
<1>8. Current'
  BY <1>1, <1>2, <1>4, <1>6, <1>7 DEF Current
<1>9. Owned'
  BY <1>2 DEF Owned
<1>10. Complete'
  <2>1. ASSUME NEW s \in usedBy[session]
        PROVE  (Kept(s, session)' \o buf'[s]) \o q' = taken[session]
    <3> DEFINE x == Kept(s, session)
    <3>1. session \in 1..session /\ s \in Sinks /\ nameOf[session] \in Names
      BY <1>3, <1>4, SessionIs
    <3>2. x \in Seq(Line) /\ x' = x
      BY <1>2, <3>1, SessionIs, PartSeq DEF Kept
    <3>3. buf[s] \in Seq(Line) /\ buf'[s] \in Seq(Line) /\ q' \in Seq(Line) /\ q \in Seq(Line)
      BY <1>3, <3>1, TakeIs
    <3>4. (x \o buf[s]) \o q = taken[session]
      BY <1>4 DEF Complete
    <3>5. buf'[s] \o q' = buf[s] \o q
      BY <1>7, <3>1
    <3> HIDE DEF x
    <3>6. \A b \in Seq(Line), z \in Seq(Line) : (x \o b) \o z = x \o (b \o z)
      BY <3>2
    <3>7. (x \o buf'[s]) \o q' = taken[session]
      <4>1. (x \o buf'[s]) \o q' = x \o (buf'[s] \o q')
        BY <3>3, <3>6, Zenon
      <4>2. x \o (buf[s] \o q) = taken[session]
        BY <3>3, <3>4, <3>6, Zenon
      <4> QED BY <3>5, <4>1, <4>2, Zenon
    <3>8. Kept(s, session)' = x
      BY <3>2 DEF x
    <3> QED BY <3>7, <3>8
  <2>2. \A k \in 1..session : \A s \in usedBy[k] : Kept(s, k)' = Kept(s, k)
    BY <1>2 DEF Kept
  <2>3. \A k \in 1..session : \A s \in usedBy[k] : Emptied(s, k)' <=> Emptied(s, k)
    BY <1>2 DEF Emptied
  <2> QED BY <1>2, <2>1, <2>2, <2>3 DEF Complete
<1> QED BY <1>8, <1>9, <1>10

\* An accepted line is added to what is on the way and to what is to be there.
LEMMA WriteLineGood ==
  ASSUME TypeOK, Closing, Current, Owned, Complete, Good, WriteLine
  PROVE  Current' /\ Owned' /\ Complete'
<1>1. /\ target' = target /\ store' = store /\ session' = session /\ buf' = buf
      /\ nameOf' = nameOf /\ usedBy' = usedBy /\ active' = active
  BY DEF WriteLine
<1>2. session \in 1..MaxSession /\ active
  BY WriteLineIs DEF Closing
<1>3. PICK l \in Line : /\ l.sess = session /\ q' = Append(q, l)
                        /\ taken' = [taken EXCEPT ![session] = Append(@, l)]
  BY WriteLineIs DEF Closing
<1>4. /\ q \in Seq(Line) /\ session \in Nat /\ taken \in [1..MaxSession -> Seq(Line)]
      /\ MaxSession \in Nat
  BY SessionIs DEF TypeOK
<1>5. \A i \in 1..Len(q') : q'[i].sess = session
  <2>1. /\ Len(q) \in Nat /\ Len(q') = Len(q) + 1 /\ q'[Len(q) + 1] = l
        /\ \A i \in 1..Len(q) : q'[i] = q[i]
    BY <1>3, <1>4
  <2>2. \A i \in 1..Len(q') : i \in 1..Len(q) \/ i = Len(q) + 1
    BY <2>1
  <2> QED BY <1>3, <2>1, <2>2 DEF Current
<1>6. Current'
  BY <1>1, <1>2, <1>5 DEF Current
<1>7. Owned'
  BY <1>1 DEF Owned
<1>8. Complete'
  <2>1. ASSUME NEW s \in usedBy[session]
        PROVE  (Kept(s, session)' \o buf'[s]) \o q' = taken'[session]
    <3> DEFINE x == Kept(s, session) \o buf[s]
    <3>1. session \in 1..session /\ s \in Sinks /\ nameOf[session] \in Names
      BY <1>2, <1>4, SessionIs
    <3>2. Kept(s, session) \in Seq(Line) /\ Kept(s, session)' = Kept(s, session)
          /\ buf[s] \in Seq(Line)
      BY <1>1, <3>1, SessionIs, PartSeq DEF Kept
    <3>3. x \in Seq(Line)
      BY <3>2
    <3>4. x \o q = taken[session]
      BY <1>2, <1>4 DEF Complete
    <3>5. Kept(s, session)' \o buf'[s] = x
      BY <1>1, <3>2
    <3> HIDE DEF x
    <3>6. x \o Append(q, l) = Append(x \o q, l)
      BY <1>3, <1>4, <3>3
    <3> QED BY <1>2, <1>3, <1>4, <3>4, <3>5, <3>6
  <2>2. \A k \in 1..session : \A s \in usedBy[k] : Kept(s, k)' = Kept(s, k)
    BY <1>1 DEF Kept
  <2>3. \A k \in 1..session : \A s \in usedBy[k] : Emptied(s, k)' <=> Emptied(s, k)
    BY <1>1 DEF Emptied
  <2>4. \A k \in 1..MaxSession : k # session => taken'[k] = taken[k]
    BY <1>3, <1>4
  <2>5. /\ \A k \in 1..session : k < session => k \in 1..MaxSession /\ k # session
        /\ \A k \in (session + 1)..MaxSession : k \in 1..MaxSession /\ k # session
    BY <1>2, <1>4
  <2> QED BY <1>1, <2>1, <2>2, <2>3, <2>4, <2>5 DEF Complete
<1> QED BY <1>6, <1>7, <1>8

\* A new session opens its sinks; the one before it is over, with all its lines kept.
LEMMA StartGood ==
  ASSUME TypeOK, Closing, Handshake, Current, Owned, Complete, Good,
         NEW use \in SUBSET Sinks, Start(use)
  PROVE  Current' /\ Owned' /\ Complete'
<1>1. /\ session + 1 \in 1..MaxSession /\ session' = session + 1 /\ session \in Nat
      /\ nameOf' = [nameOf EXCEPT ![session + 1] = now]
      /\ usedBy' = [usedBy EXCEPT ![session + 1] = use]
      /\ \A s \in Sinks : target'[s] = IF s \in use THEN now ELSE target[s]
      /\ \A s \in Sinks : \A f \in Names : store'[s][f] =
           IF s = "file" /\ s \in use /\ f = now THEN <<>> ELSE store[s][f]
  BY StartIs
<1>2. /\ active' = TRUE /\ q' = q /\ buf' = buf /\ taken' = taken
      /\ gui = "idle" /\ ~active
  BY DEF Start
<1>3. q = <<>> /\ (\A s \in Sinks : buf[s] = <<>>) /\ \A s \in Sinks : target[s] = 0
  BY <1>2 DEF Handshake, Closing, Waiting, Quiet, Closed
<1>4. /\ now \in Names /\ now # 0 /\ MaxSession \in Nat
      /\ nameOf \in [1..MaxSession -> 0..MaxClock] /\ usedBy \in [1..MaxSession -> SUBSET Sinks]
  BY BoundsAssumption DEF TypeOK, Names
<1>5. /\ nameOf'[session + 1] = now /\ usedBy'[session + 1] = use
      /\ \A k \in 1..session : /\ k \in 1..MaxSession /\ k # session + 1
                              /\ nameOf'[k] = nameOf[k] /\ usedBy'[k] = usedBy[k]
  <2>1. \A k \in 1..session : k \in 1..MaxSession /\ k # session + 1
    BY <1>1, <1>4
  <2> QED BY <1>1, <1>4, <2>1
<1>6. /\ \A k \in 1..session + 1 : k \in 1..session \/ k = session + 1
      /\ \A k \in 1..session : k < session + 1 /\ k <= session
  BY <1>1
<1>7. Current'
  <2>1. Len(<<>>) = 0 /\ 1..0 = {}
    OBVIOUS
  <2>2. session' > 0 /\ usedBy'[session'] = use /\ nameOf'[session'] = now
    BY <1>1, <1>5
  <2>3. \A s \in Sinks : target'[s] # 0 => s \in use /\ target'[s] = now
    BY <1>1, <1>3
  <2>4. \A s \in use : target'[s] # 0
    BY <1>1, <1>4
  <2>5. q' = <<>> /\ \A s \in Sinks : buf'[s] = <<>>
    BY <1>2, <1>3
  <2> QED BY <2>1, <2>2, <2>3, <2>4, <2>5 DEF Current
<1>8. Owned'
  <2>1. \A k \in 1..session' : nameOf'[k] \in Names
    BY <1>1, <1>4, <1>5, <1>6 DEF Owned
  <2>2. ASSUME NEW s \in Sinks, NEW f \in Names, NEW i \in 1..Len(store'[s][f])
        PROVE  /\ store'[s][f][i].sess <= session'
               /\ nameOf'[store'[s][f][i].sess] = f
               /\ s \in usedBy'[store'[s][f][i].sess]
    <3>1. store'[s][f] = store[s][f]
      <4>1. Len(<<>>) = 0 /\ 1..0 = {}
        OBVIOUS
      <4> QED BY <1>1, <2>2, <4>1
    <3>2. store[s][f] \in Seq(Line)
      BY SessionIs
    <3> DEFINE k == store[s][f][i].sess
    <3>3. k \in 1..MaxSession /\ k <= session /\ nameOf[k] = f /\ s \in usedBy[k]
      BY <2>2, <3>1, <3>2, LineIs DEF Owned
    <3> HIDE DEF k
    <3>4. k \in 1..session /\ k <= session + 1
      BY <1>1, <3>3
    <3> QED BY <1>1, <1>5, <3>1, <3>3, <3>4 DEF k
  <2>3. \A s \in Sinks : \A f \in Names : \A i, j \in 1..Len(store'[s][f]) :
          i <= j => store'[s][f][i].sess <= store'[s][f][j].sess
    <3>1. Len(<<>>) = 0 /\ 1..0 = {}
      OBVIOUS
    <3>2. \A s \in Sinks : \A f \in Names : store'[s][f] = store[s][f] \/ store'[s][f] = <<>>
      BY <1>1
    <3> QED BY <3>1, <3>2 DEF Owned
  <2> QED BY <2>1, <2>2, <2>3 DEF Owned
<1>9. Complete'
  <2>1. ASSUME NEW k \in 1..session, NEW s \in usedBy[k], ~Emptied(s, k)'
        PROVE  Kept(s, k)' = taken[k]
    <3>1. s \in Sinks /\ nameOf[k] \in Names /\ nameOf'[k] = nameOf[k] /\ taken[k] \in Seq(Line)
      BY <1>5, SessionIs
    <3>2. ~Emptied(s, k)
      <4>1. \A j \in (k + 1)..session : j \in (k + 1)..session + 1 /\ j \in 1..session
        BY <1>1
      <4> QED BY <1>1, <1>5, <2>1, <4>1 DEF Emptied
    <3>3. store'[s][nameOf[k]] = store[s][nameOf[k]]
      <4>1. session + 1 \in (k + 1)..session + 1
        BY <1>1
      <4>2. ~(s = "file" /\ s \in use /\ nameOf[k] = now)
        BY <1>1, <1>5, <2>1, <4>1 DEF Emptied
      <4> QED BY <1>1, <3>1, <4>2
    <3>4. Kept(s, k)' = Kept(s, k)
      BY <3>1, <3>3 DEF Kept
    <3>5. CASE k < session
      BY <3>2, <3>4, <3>5 DEF Complete
    <3>6. CASE k = session
      <4>1. (Kept(s, k) \o buf[s]) \o q = taken[k]
        BY <1>1, <3>6 DEF Complete
      <4>2. Kept(s, k) \in Seq(Line)
        BY <3>1, SessionIs, PartSeq DEF Kept
      <4>3. (Kept(s, k) \o <<>>) \o <<>> = Kept(s, k)
        BY <4>2
      <4> QED BY <1>3, <3>1, <3>4, <4>1, <4>3
    <3> QED BY <1>1, <3>5, <3>6
  <2>2. ASSUME NEW s \in use, NEW n, n = session + 1
        PROVE  (Kept(s, n)' \o buf'[s]) \o q' = taken'[n]
    <3>1. s \in Sinks /\ store[s][now] \in Seq(Line)
      BY <1>4, SessionIs
    <3> DEFINE x == store'[s][now]
    <3>2. x = <<>> \/ x = store[s][now]
      BY <1>1, <1>4, <3>1
    <3>3. x \in Seq(Line)
      BY <3>1, <3>2, EmptyOrder
    <3>4. Has(x, n) = {}
      <4>1. \A i \in 1..Len(store[s][now]) : store[s][now][i].sess <= session
        BY <1>4, <3>1 DEF Owned
      <4>2. \A i \in 1..Len(store[s][now]) : store[s][now][i].sess # session + 1
        BY <1>1, <3>1, <4>1, LineIs
      <4>3. Len(<<>>) = 0 /\ 1..0 = {}
        OBVIOUS
      <4> QED BY <2>2, <3>2, <4>2, <4>3 DEF Has
    <3>5. Kept(s, n)' = Part(x, n)
      BY <1>5, <2>2 DEF Kept
    <3> HIDE DEF x
    <3>6. Kept(s, n)' = <<>>
      BY <3>3, <3>4, <3>5, PartIs
    <3>7. taken[n] = <<>>
      BY <1>1, <1>4, <2>2 DEF Complete
    <3>8. (<<>> \o <<>>) \o <<>> = <<>>
      OBVIOUS
    <3> QED BY <1>2, <1>3, <3>1, <3>6, <3>7, <3>8
  <2>3. \A k \in (session + 2)..MaxSession : taken[k] = <<>>
    BY <1>1, <1>4 DEF Complete
  <2>4. /\ \A k \in 1..session' : k < session' => k \in 1..session
        /\ \A k \in (session' + 1)..MaxSession : k \in (session + 2)..MaxSession
    BY <1>1, <1>4
  <2>5. \A s \in usedBy'[session'] :
          (Kept(s, session)' \o buf'[s]) \o q' = taken'[session']
    BY ZenonT(40), <1>1, <1>5, <2>2
  <2>6. \A k \in 1..session' : \A s \in usedBy'[k] :
          k < session' /\ ~Emptied(s, k)' => Kept(s, k)' = taken'[k]
    BY <1>2, <1>5, <2>1, <2>4
  <2> QED BY <1>2, <2>3, <2>4, <2>5, <2>6 DEF Complete
<1> QED BY <1>7, <1>8, <1>9

\* The wait of stop() is over: nothing is on the way any more.
LEMMA EndStopGood ==
  ASSUME TypeOK, Closing, Handshake, Current, Owned, Complete, Good, EndStop
  PROVE  Current' /\ Owned' /\ Complete'
<1>1. /\ active' = active /\ q' = q /\ buf' = buf /\ store' = store /\ session' = session
      /\ nameOf' = nameOf /\ usedBy' = usedBy /\ taken' = taken
      /\ \A s \in Sinks : target'[s] = 0
  BY DEF EndStop, Closed, history
<1>2. ~active /\ q = <<>> /\ \A s \in Sinks : buf[s] = <<>>
  BY DEF EndStop, Closing, Handshake, Waiting, Quiet
<1>3. Current'
  <2>1. Len(<<>>) = 0 /\ 1..0 = {}
    OBVIOUS
  <2> QED BY <1>1, <1>2, <2>1 DEF Current
<1>4. Owned'
  BY <1>1 DEF Owned
<1>5. Complete'
  BY <1>1 DEF Complete, Kept, Emptied
<1> QED BY <1>3, <1>4, <1>5

\* The thread that ends has nothing left to write.
LEMMA FinishGood ==
  ASSUME TypeOK, Closing, Handshake, Current, Owned, Complete, Good, Finish
  PROVE  Current' /\ Owned' /\ Complete' /\ store' = store
<1>1. pc = "final" /\ gui \in {"joining", "down"} /\ ~active
  BY DEF Finish, Closing
<1>2. q = <<>> /\ \A s \in Sinks : buf[s] = <<>>
  BY <1>1 DEF Handshake, Waiting, Quiet
<1>3. \A s \in Sinks : target[s] = 0
  BY <1>1 DEF Closing, Waiting, Closed
<1>4. /\ active' = active /\ q' = q /\ session' = session /\ nameOf' = nameOf
      /\ usedBy' = usedBy /\ taken' = taken /\ \A s \in Sinks : target'[s] = 0
      /\ store \in [Sinks -> [Names -> Seq(Line)]]
      /\ buf \in [Sinks -> Seq(Line)] /\ target \in [Sinks -> 0..MaxClock]
  BY DEF Finish, Closed, history, gvars, TypeOK
<1>5. /\ buf' \in [Sinks -> Seq(Line)] /\ \A s \in Sinks : buf'[s] = <<>>
      /\ store' \in [Sinks -> [Names -> Seq(Line)]]
      /\ \A s \in Sinks : \A f \in Names : store'[s][f] =
           IF f = target[s] THEN store[s][f] \o buf[s] ELSE store[s][f]
  BY FinishIs
<1>6. \A f \in Names : f # 0
  BY DEF Names
<1>7. \A s \in Sinks : \A f \in Names : store'[s][f] = store[s][f]
  BY <1>3, <1>5, <1>6
<1>8. store' = store /\ buf' = buf
  BY <1>2, <1>4, <1>5, <1>7
<1>9. Current'
  <2>1. Len(<<>>) = 0 /\ 1..0 = {}
    OBVIOUS
  <2> QED BY <1>1, <1>2, <1>4, <1>8, <2>1 DEF Current
<1>10. Owned'
  BY <1>4, <1>8 DEF Owned
<1>11. Complete'
  BY <1>4, <1>8 DEF Complete, Kept, Emptied
<1> QED BY <1>8, <1>9, <1>10, <1>11

\* Every step on a good disk keeps the lines where they belong, and all of them.
LEMMA NextGood ==
  ASSUME TypeOK, Closing, Handshake, Current, Owned, Complete, Good, [Next]_vars
  PROVE  Current' /\ Owned' /\ Complete'
<1> USE DEF gvars, events, history
<1>1. ASSUME NEW s \in Sinks, Batch(s) PROVE Current' /\ Owned' /\ Complete'
  BY <1>1, WriteBatchCurrent, WriteBatchOwned, WriteBatchComplete DEF Batch
<1>2. ASSUME FlushFile \/ FlushDb PROVE Current' /\ Owned' /\ Complete'
  BY <1>2, WriteBatchCurrent, WriteBatchOwned, WriteBatchComplete
     DEF FlushFile, FlushDb, Sinks
<1>3. ASSUME NEW call \in {"stopping", "ending"}, BeginStop(call)
      PROVE  Current' /\ Owned' /\ Complete'
  <2>1. /\ ~active' /\ q' = q /\ buf' = buf /\ target' = target /\ store' = store
        /\ session' = session /\ nameOf' = nameOf /\ usedBy' = usedBy /\ taken' = taken
    BY <1>3 DEF BeginStop
  <2> QED BY <2>1, SessionStays
<1>4. ASSUME Join \/ Tick \/ Drained \/ Check \/ UNCHANGED vars
      PROVE  Current' /\ Owned' /\ Complete'
  <2>1. /\ active' = active /\ q' = q /\ buf' = buf /\ target' = target /\ store' = store
        /\ session' = session /\ nameOf' = nameOf /\ usedBy' = usedBy /\ taken' = taken
    BY <1>4, Zenon DEF Join, Tick, Drained, Check, vars
  <2> QED BY <2>1, SessionStays
<1> QED BY <1>1, <1>2, <1>3, <1>4, StartGood, WriteLineGood, EndStopGood, TakeGood, FinishGood
        DEF Next, Gui, Writer

-----------------------------------------------------------------------------
(* The theorems *)

\* The logger starts with nothing open, queued or stored.
LEMMA InitIInv == Init => IInv
<1> SUFFICES ASSUME Init PROVE IInv
  OBVIOUS
<1>1. /\ Len(<<>>) = 0 /\ 1..0 = {} /\ 1 \in Names /\ <<>> \in Seq(Line)
      /\ MaxSession \in Nat /\ MaxLine \in Nat /\ MaxClock \in Nat /\ 1 \in Nat
  BY BoundsAssumption DEF Names
<1>2. /\ active = FALSE /\ gui = "idle" /\ q = <<>> /\ req = FALSE /\ done = FALSE
      /\ stopEv = FALSE /\ pc = "drain" /\ buf = [s \in Sinks |-> <<>>]
      /\ target = [s \in Sinks |-> 0]
      /\ store = [s \in Sinks |-> [f \in Names |-> <<>>]]
      /\ now = 1 /\ count = 0 /\ disk \in Disks /\ session = 0
      /\ taken = [k \in 1..MaxSession |-> <<>>] /\ nameOf = [k \in 1..MaxSession |-> 0]
      /\ usedBy = [k \in 1..MaxSession |-> {}]
  BY Zenon DEF Init
<1>3. TypeOK
  <2>1. /\ active \in BOOLEAN /\ req \in BOOLEAN /\ done \in BOOLEAN /\ stopEv \in BOOLEAN
    BY <1>2
  <2>2. gui \in Guis /\ pc \in Pcs /\ q \in Seq(Line) /\ buf \in [Sinks -> Seq(Line)]
    BY <1>1, <1>2 DEF Guis, Pcs
  <2>3. target \in [Sinks -> 0..MaxClock] /\ nameOf \in [1..MaxSession -> 0..MaxClock]
    BY <1>1, <1>2
  <2>4. /\ store \in [Sinks -> [Names -> Seq(Line)]] /\ taken \in [1..MaxSession -> Seq(Line)]
        /\ usedBy \in [1..MaxSession -> SUBSET Sinks]
    BY <1>1, <1>2
  <2>5. now \in Names /\ count \in 0..MaxLine /\ session \in 0..MaxSession
    BY <1>1, <1>2
  <2> QED BY <1>2, <2>1, <2>2, <2>3, <2>4, <2>5, Zenon DEF TypeOK
<1>4. Ordered
  BY <1>2, EmptyOrder DEF Ordered
<1>5. Closing
  BY <1>2 DEF Closing, Waiting, Closed
<1>6. Handshake
  BY <1>2 DEF Handshake, Waiting, Quiet
<1>7. Current
  BY <1>1, <1>2 DEF Current
<1>8. Owned
  BY <1>1, <1>2 DEF Owned
<1>9. Complete
  <2>1. \A k \in (session + 1)..MaxSession : k \in 1..MaxSession
    BY <1>2
  <2> QED BY <1>1, <1>2, <2>1 DEF Complete
<1> QED BY <1>3, <1>4, <1>5, <1>6, <1>7, <1>8, <1>9 DEF IInv

\* The disk stays what it is.
LEMMA DiskStays == [Next]_vars => disk' = disk
BY DEF Next, Gui, Writer, Start, WriteLine, BeginStop, EndStop, Join, Take, Drained, Batch,
       Check, FlushFile, FlushDb, Finish, Tick, vars, gvars

\* Every step keeps the invariant.
LEMMA NextIInv == IInv /\ [Next]_vars => IInv'
<1> SUFFICES ASSUME IInv, [Next]_vars PROVE IInv'
  OBVIOUS
<1>1. TypeOK /\ Ordered /\ Closing /\ (active => session > 0)
  BY DEF IInv, Closing
<1>2. TypeOK' /\ Ordered' /\ Closing'
  BY <1>1, NextTypeOK, NextOrdered, NextClosing
<1>3. ASSUME Good' PROVE Handshake' /\ Current' /\ Owned' /\ Complete'
  <2>1. Good /\ Handshake /\ Current /\ Owned /\ Complete
    BY <1>3, DiskStays DEF Good, IInv
  <2> QED BY <1>1, <2>1, NextHandshake, NextGood
<1> QED BY <1>2, <1>3 DEF IInv

\* The inductive invariant holds in every state of the logger.
THEOREM Invariance == Spec => []IInv
BY InitIInv, NextIInv, PTL DEF Spec

\* Every variable keeps its type.
THEOREM TypeCorrect == Spec => []TypeOK
<1>1. IInv => TypeOK
  BY DEF IInv
<1> QED BY <1>1, Invariance, PTL

\* A sink holds its lines in arrival order and none twice, whatever the disk does
\* to a write and however long it takes.
THEOREM LinesInOrder == Spec => []InOrder
<1>1. IInv => InOrder
  BY DEF IInv, Ordered, Rising, InOrder
<1> QED BY <1>1, Invariance, PTL

\* On a good disk no line lands in the file of a session that did not accept it.
THEOREM LinesInOwnFile == Spec => []OwnSession
<1>1. IInv => OwnSession
  BY DEF IInv, Owned, OwnSession
<1> QED BY <1>1, Invariance, PTL

\* Between two sessions nothing is on the way: what was taken is kept.
LEMMA OverIsComplete ==
  ASSUME IInv, Good, NEW k \in 1..session, NEW s \in usedBy[k], Over(k), ~Emptied(s, k)
  PROVE  Kept(s, k) = taken[k]
<1>1. TypeOK /\ Closing /\ Handshake /\ Owned /\ Complete
  BY DEF IInv
<1>2. CASE k < session
  BY <1>1, <1>2 DEF Complete
<1>3. CASE k = session /\ ~active /\ gui \in {"idle", "joining", "down"}
  <2>1. q = <<>> /\ \A r \in Sinks : buf[r] = <<>>
    BY <1>1, <1>3 DEF Handshake, Waiting, Quiet
  <2>2. s \in Sinks /\ nameOf[k] \in Names /\ session > 0
    BY <1>1, <1>3, SessionIs
  <2>3. Kept(s, k) \in Seq(Line)
    BY <1>1, <2>2, SessionIs, PartSeq DEF Kept
  <2>4. (Kept(s, k) \o <<>>) \o <<>> = Kept(s, k)
    BY <2>3
  <2> QED BY <1>1, <1>3, <2>1, <2>2, <2>4 DEF Complete
<1> QED BY <1>2, <1>3 DEF Over

\* When stop() has returned, every sink of the session holds every line it accepted,
\* in order, on a disk that does not keep the writer for longer than stop() waits.
THEOREM StopLosesNothing == Spec => []StopIsComplete
<1>1. IInv => StopIsComplete
  BY OverIsComplete DEF StopIsComplete
<1> QED BY <1>1, Invariance, PTL

-----------------------------------------------------------------------------
(* Each sink implements the contract of a session *)

\* A step of a sink, in the terms of LogContract.
Opens(s) == /\ ~(active /\ Good) /\ KeptBy(s) = TakenBy(s)
            /\ active' /\ Good' /\ TakenBy(s)' = <<>> /\ KeptBy(s)' = <<>>
Takes(s) == /\ active /\ Good /\ active' /\ Good' /\ KeptBy(s)' = KeptBy(s)
            /\ \E l \in Line : TakenBy(s)' = Append(TakenBy(s), l)
Keeps(s) == /\ (active' /\ Good') <=> (active /\ Good)
            /\ TakenBy(s)' = TakenBy(s)
            /\ \E k \in (Len(KeptBy(s)) + 1)..Len(TakenBy(s)) :
                 KeptBy(s)' = SubSeq(TakenBy(s), 1, k)
Closes(s) == /\ active /\ Good /\ ~(active' /\ Good')
             /\ TakenBy(s)' = TakenBy(s) /\ KeptBy(s)' = KeptBy(s)
Stays(s) == /\ (active' /\ Good') <=> (active /\ Good)
            /\ TakenBy(s)' = TakenBy(s) /\ KeptBy(s)' = KeptBy(s)

\* A step that changes neither the sinks nor the sessions changes nothing there.
LEMMA NothingMoves ==
  ASSUME NEW s \in Sinks, Good, Good', store' = store, session' = session,
         nameOf' = nameOf, usedBy' = usedBy, taken' = taken
  PROVE  TakenBy(s)' = TakenBy(s) /\ KeptBy(s)' = KeptBy(s)
BY DEF TakenBy, KeptBy, Opened, Kept

\* The session that starts has taken and kept nothing; the last one kept all.
LEMMA StartOpens ==
  ASSUME IInv, IInv', Good, Good', NEW use \in SUBSET Sinks, Start(use), NEW s \in Sinks
  PROVE  Opens(s)
<1>1. /\ TypeOK /\ Closing /\ Handshake /\ Owned /\ Complete /\ ~active /\ gui = "idle"
      /\ session \in Nat
  BY SessionIs DEF IInv, Start
<1>2. KeptBy(s) = TakenBy(s)
  <2>1. CASE Opened(s)
    <3>1. session \in 1..session /\ s \in usedBy[session]
      BY <1>1, <2>1 DEF Opened
    <3>2. Over(session)
      BY <1>1 DEF Over
    <3>3. ~Emptied(s, session)
      <4>1. (session + 1)..session = {}
        BY <1>1
      <4> QED BY <4>1 DEF Emptied
    <3> QED BY <2>1, <3>1, <3>2, <3>3, OverIsComplete DEF KeptBy, TakenBy
  <2>2. CASE ~Opened(s)
    BY <2>2 DEF KeptBy, TakenBy
  <2> QED BY <2>1, <2>2
<1>3. active' /\ q' = <<>> /\ buf' = buf /\ \A r \in Sinks : buf[r] = <<>>
  BY <1>1 DEF Start, Handshake, Waiting, Quiet
<1>4. TakenBy(s)' = <<>> /\ KeptBy(s)' = <<>>
  <2>1. CASE Opened(s)'
    <3>1. session' > 0 /\ s \in usedBy'[session'] /\ TypeOK' /\ Owned' /\ Complete'
      BY <2>1 DEF Opened, IInv
    <3>2. session' = session + 1 /\ taken' = taken /\ session + 1 \in (session + 1)..MaxSession
      <4>1. session + 1 \in 1..MaxSession /\ session' = session + 1
        BY <1>1, StartIs
      <4> QED BY <1>1, <4>1, BoundsAssumption DEF Start
    <3>3. taken'[session'] = <<>>
      BY <1>1, <3>2 DEF Complete
    <3> DEFINE x == Kept(s, session)'
    <3>4. (x \o buf'[s]) \o q' = <<>>
      BY <3>1, <3>3 DEF Complete
    <3>5. x \in Seq(Line)
      <4>1. store'[s][nameOf'[session']] \in Seq(Line)
        <5>1. session' \in 1..session' /\ MaxSession \in Nat
          BY <1>1, <3>1, <3>2, BoundsAssumption
        <5>2. nameOf'[session'] \in Names
          BY <3>1, <5>1 DEF Owned
        <5> QED BY <3>1, <5>2 DEF TypeOK
      <4> QED BY <4>1, PartSeq DEF Kept
    <3> HIDE DEF x
    <3>6. (x \o <<>>) \o <<>> = x
      BY <3>5
    <3>7. x = <<>>
      BY <1>3, <3>4, <3>6
    <3> QED BY <2>1, <3>3, <3>7 DEF x, KeptBy, TakenBy
  <2>2. CASE ~Opened(s)'
    BY <2>2 DEF KeptBy, TakenBy
  <2> QED BY <2>1, <2>2
<1> QED BY <1>1, <1>2, <1>3, <1>4 DEF Opens

\* A batch keeps some more of what was taken, or nothing that is of this sink.
LEMMA BatchKeeps ==
  ASSUME IInv, Good, Good', NEW r \in Sinks, WriteBatch(r), active' = active,
         session' = session, nameOf' = nameOf, usedBy' = usedBy, taken' = taken,
         NEW s \in Sinks
  PROVE  Keeps(s) \/ Stays(s)
<1>1. TypeOK /\ Current /\ Owned /\ Complete
  BY DEF IInv
<1>2. Opened(s)' <=> Opened(s)
  BY DEF Opened
<1>3. CASE ~Opened(s)
  BY <1>2, <1>3 DEF Stays, KeptBy, TakenBy
<1>4. CASE Opened(s)
  <2> DEFINE x == Kept(s, session)
             y == buf[s]
             t == taken[session]
  <2>1. session \in 1..session /\ s \in usedBy[session] /\ session > 0
    BY <1>1, <1>4, SessionIs DEF Opened
  <2>2. KeptBy(s) = x /\ TakenBy(s) = t /\ KeptBy(s)' = x' /\ TakenBy(s)' = t
    BY <1>2, <1>4 DEF KeptBy, TakenBy
  <2>3. x' = IF s = r THEN x \o y ELSE x
    BY <1>1, <2>1, WriteBatchKept
  <2>4. (x \o y) \o q = t
    BY <1>1, <2>1 DEF Complete
  <2>5. x \in Seq(Line) /\ y \in Seq(Line) /\ q \in Seq(Line)
    BY <1>1, <2>1, SessionIs, PartSeq DEF Kept
  <2> DEFINE z == x'
  <2>6. z = x \/ z = x \o y
    BY <2>3
  <2> HIDE DEF x, y, t, z
  <2>7. CASE y = <<>>
    <3>1. x \o y = x
      BY <2>5, <2>7
    <3> QED BY <2>2, <2>6, <3>1 DEF Stays, z
  <2>8. CASE z = x
    BY <2>2, <2>8 DEF Stays, z
  <2>9. CASE y # <<>> /\ z = x \o y
    <3> DEFINE k == Len(x) + Len(y)
    <3>1. k \in (Len(x) + 1)..Len(t)
      <4>1. Len(t) = k + Len(q) /\ Len(x) \in Nat /\ Len(y) \in Nat \ {0} /\ Len(q) \in Nat
        BY <2>4, <2>5, <2>9
      <4> QED BY <4>1
    <3>2. z = SubSeq(t, 1, k)
      <4>1. x \o y \in Seq(Line) /\ Len(x \o y) = k
        BY <2>5
      <4>2. \A u, v \in Seq(Line) : SubSeq(u \o v, 1, Len(u)) = u
        OBVIOUS
      <4> QED BY <2>4, <2>5, <2>9, <4>1, <4>2
    <3> HIDE DEF k
    <3> QED BY <2>2, <3>1, <3>2 DEF Keeps, z
  <2> QED BY <2>6, <2>7, <2>8, <2>9
<1> QED BY <1>3, <1>4

\* Every step of the logger is, for each sink, a step of the contract or none.
LEMMA SinkStep ==
  ASSUME IInv, [Next]_vars, NEW s \in Sinks
  PROVE  Opens(s) \/ Takes(s) \/ Keeps(s) \/ Closes(s) \/ Stays(s)
<1>1. IInv' /\ disk' = disk
  BY NextIInv, DiskStays
<1>2. CASE ~Good
  BY <1>1, <1>2 DEF Good, Stays, TakenBy, KeptBy, Opened
<1>3. CASE Good
  <2>1. Good' /\ TypeOK /\ Closing /\ Handshake /\ Current /\ Owned /\ Complete
    BY <1>1, <1>3 DEF Good, IInv
  <2> USE DEF gvars, events, history
  <2>2. ASSUME NEW use \in SUBSET Sinks, Start(use) PROVE Opens(s)
    BY <1>1, <1>3, <2>1, <2>2, StartOpens
  <2>3. ASSUME WriteLine PROVE Takes(s) \/ Stays(s)
    <3>1. /\ active' = active /\ active /\ store' = store /\ session' = session
          /\ nameOf' = nameOf /\ usedBy' = usedBy
      BY <2>3 DEF WriteLine
    <3>2. PICK l \in Line : taken' = [taken EXCEPT ![session] = Append(@, l)]
      BY <2>1, <2>3, WriteLineIs DEF Closing
    <3>3. (Opened(s)' <=> Opened(s)) /\ KeptBy(s)' = KeptBy(s)
      BY <1>3, <2>1, <3>1 DEF Opened, KeptBy, Kept
    <3>4. session \in 1..MaxSession /\ taken \in [1..MaxSession -> Seq(Line)]
      BY <2>1, <2>3, WriteLineIs DEF Closing, TypeOK
    <3>5. CASE Opened(s)
      <4>1. TakenBy(s)' = Append(TakenBy(s), l)
        BY <3>1, <3>2, <3>3, <3>4, <3>5 DEF TakenBy
      <4> QED BY <1>3, <2>1, <3>1, <3>3, <4>1 DEF Takes
    <3>6. CASE ~Opened(s)
      BY <1>3, <2>1, <3>1, <3>3, <3>6 DEF Stays, TakenBy
    <3> QED BY <3>5, <3>6
  <2>4. ASSUME NEW call \in {"stopping", "ending"}, BeginStop(call)
        PROVE  Closes(s) \/ Stays(s)
    <3>1. /\ active' = FALSE /\ store' = store /\ session' = session
          /\ nameOf' = nameOf /\ usedBy' = usedBy /\ taken' = taken
      BY <2>4 DEF BeginStop
    <3>2. TakenBy(s)' = TakenBy(s) /\ KeptBy(s)' = KeptBy(s)
      BY <1>3, <2>1, <3>1, NothingMoves
    <3> QED BY <1>3, <3>1, <3>2 DEF Closes, Stays
  <2>5. ASSUME EndStop \/ Join \/ Tick \/ Take \/ Drained \/ Check \/ Finish
                 \/ UNCHANGED vars
        PROVE  Stays(s)
    <3>1. /\ active' = active /\ session' = session /\ nameOf' = nameOf
          /\ usedBy' = usedBy /\ taken' = taken
      BY <2>5, Zenon DEF EndStop, Join, Tick, Take, Drained, Check, Finish, vars
    <3>2. store' = store
      <4>1. CASE Finish
        BY <1>3, <2>1, <4>1, FinishGood
      <4> QED BY <2>5, <4>1, Zenon DEF EndStop, Join, Tick, Take, Drained, Check, vars
    <3>3. TakenBy(s)' = TakenBy(s) /\ KeptBy(s)' = KeptBy(s)
      BY <1>3, <2>1, <3>1, <3>2, NothingMoves
    <3> QED BY <1>3, <2>1, <3>1, <3>3 DEF Stays
  <2>6. ASSUME NEW r \in Sinks, Batch(r) PROVE Keeps(s) \/ Stays(s)
    BY <1>3, <2>1, <2>6, BatchKeeps DEF Batch
  <2>7. ASSUME FlushFile \/ FlushDb PROVE Keeps(s) \/ Stays(s)
    BY <1>3, <2>1, <2>7, BatchKeeps DEF FlushFile, FlushDb, Sinks
  <2> QED BY <2>2, <2>3, <2>4, <2>5, <2>6, <2>7 DEF Next, Gui, Writer
<1> QED BY <1>2, <1>3

\* The file and the table of a session each implement the contract of a logging
\* session, but for its promise that what was taken is kept in the end.
THEOREM SinksKeepContract == Spec => File!Safety /\ Db!Safety
<1>1. Init => File!Init /\ Db!Init
  <2> SUFFICES ASSUME Init PROVE File!Init /\ Db!Init
    OBVIOUS
  <2>1. active = FALSE /\ session = 0
    BY DEF Init
  <2>2. \A s \in Sinks : TakenBy(s) = <<>> /\ KeptBy(s) = <<>>
    BY <2>1 DEF TakenBy, KeptBy, Opened
  <2> QED BY <2>1, <2>2 DEF File!Init, Db!Init, Sinks
<1>2. IInv /\ [Next]_vars => [File!Next]_(File!cvars) /\ [Db!Next]_(Db!cvars)
  <2> SUFFICES ASSUME IInv, [Next]_vars
               PROVE  [File!Next]_(File!cvars) /\ [Db!Next]_(Db!cvars)
    OBVIOUS
  <2>1. [File!Next]_(File!cvars)
    <3>1. \/ Opens("file") \/ Takes("file") \/ Keeps("file") \/ Closes("file")
          \/ Stays("file")
      BY SinkStep DEF Sinks
    <3> QED BY <3>1 DEF Opens, Takes, Keeps, Closes, Stays, File!Next, File!Open,
                        File!Take, File!Keep, File!Close, File!cvars
  <2>2. [Db!Next]_(Db!cvars)
    <3>1. Opens("db") \/ Takes("db") \/ Keeps("db") \/ Closes("db") \/ Stays("db")
      BY SinkStep DEF Sinks
    <3> QED BY <3>1 DEF Opens, Takes, Keeps, Closes, Stays, Db!Next, Db!Open,
                        Db!Take, Db!Keep, Db!Close, Db!cvars
  <2> QED BY <2>1, <2>2
<1> QED BY <1>1, <1>2, Invariance, PTL DEF Spec, File!Safety, Db!Safety
=============================================================================
