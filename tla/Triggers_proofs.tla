--------------------------- MODULE Triggers_proofs ---------------------------
(***************************************************************************)
(* That code the user never accepted is never evaluated (BlockedNeverRuns) *)
(* and that the button of the log panel tells the truth (ButtonHonest):    *)
(* theorems about Triggers, for all rules and bounds.  First that the      *)
(* objects in use can be renumbered without any of them being lost.        *)
(***************************************************************************)
EXTENDS Triggers, SequenceTheorems, FiniteSetTheorems, WellFoundedInduction, TLAPS

-----------------------------------------------------------------------------
(* Ascending *)

\* A set of naturals that is not empty has a least element.
LEMMA LeastNat ==
  ASSUME NEW T, T \subseteq Nat, T # {}
  PROVE  \E x \in T : \A y \in T : x <= y
<1> DEFINE R == {r \in Nat \X Nat : r[1] < r[2]}
<1>1. IsWellFoundedOn(R, Nat)
  BY NatLessThanWellFounded, Zenon DEF OpToRel
<1>2. PICK x \in T : \A y \in T : ~(<<y, x>> \in R)
  BY <1>1, WFMin, Zenon
<1>3. ASSUME NEW y \in T, y < x PROVE <<y, x>> \in R
  BY <1>3
<1> HIDE DEF R
<1>4. \A y \in T : ~(y < x)
  BY <1>2, <1>3
<1> QED BY <1>4

\* A function from 1..n is a sequence.
LEMMA FunctionIsSeq ==
  ASSUME NEW D, NEW n \in Nat, NEW f \in [1..n -> D]
  PROVE  f \in Seq(D) /\ Len(f) = n
OBVIOUS

\* s has the elements of S from the least up.
Lists(s, S) ==
  /\ s \in [1..Cardinality(S) -> S]
  /\ Range(s) = S /\ \A i, j \in 1..Cardinality(S) : i < j => s[i] < s[j]

\* A list of what is left gives one of the whole, with the least element first.
LEMMA LeastFirst ==
  ASSUME NEW S \in SUBSET Nat, IsFiniteSet(S), NEW m \in S, \A x \in S : m <= x,
         NEW f, Lists(f, S \ {m})
  PROVE  \E s : Lists(s, S)
<1> DEFINE n == Cardinality(S)
           g == [k \in 1..n |-> IF k = 1 THEN m ELSE f[k - 1]]
<1>1. n \in Nat /\ n # 0
  BY FS_CardinalityType, FS_EmptySet
<1>2. Cardinality(S \ {m}) = n - 1
  BY FS_RemoveElement
<1>3. f \in [1..(n - 1) -> S \ {m}] /\ Range(f) = S \ {m}
  BY <1>2 DEF Lists
<1>4. \A i, j \in 1..(n - 1) : i < j => f[i] < f[j]
  BY <1>2 DEF Lists
<1> HIDE DEF n
<1>5. g[1] = m /\ \A k \in 2..n : k - 1 \in 1..(n - 1) /\ g[k] = f[k - 1] /\ g[k] \in S \ {m}
  BY <1>1, <1>3
<1>6. g \in [1..n -> S]
  BY <1>1, <1>3
<1> HIDE DEF g
<1>7. S \subseteq Range(g)
  <2>1. ASSUME NEW x \in S \ {m} PROVE x \in Range(g)
    <3>1. PICK k \in 1..(n - 1) : f[k] = x
      BY <1>3 DEF Range
    <3>2. k + 1 \in 2..n /\ (k + 1) - 1 = k
      BY <1>1
    <3>3. g[k + 1] = x
      BY <1>5, <3>1, <3>2
    <3>4. k + 1 \in DOMAIN g
      BY <1>6, <3>2
    <3> QED BY <3>3, <3>4 DEF Range
  <2>2. m \in Range(g)
    <3>1. 1 \in DOMAIN g
      BY <1>1, <1>6
    <3> QED BY <3>1, <1>5 DEF Range
  <2> QED BY <2>1, <2>2
<1>8. Range(g) = S
  BY <1>6, <1>7 DEF Range
<1>9. ASSUME NEW i \in 1..n, NEW j \in 1..n, i < j PROVE g[i] < g[j]
  <2>0. \A x \in S \ {m} : x \in Nat /\ m < x
    OBVIOUS
  <2>4. j \in 2..n
    BY <1>9, <1>1
  <2>5. g[j] \in S \ {m}
    BY <2>4, <1>5
  <2>1. j \in 2..n /\ g[j] \in Nat /\ m < g[j]
    BY <2>4, <2>5, <2>0
  <2>2. CASE i = 1
    BY <2>1, <2>2, <1>5
  <2>3. CASE i # 1
    <3>1. i \in 2..n /\ i - 1 < j - 1
      BY <2>3, <1>9, <2>1, <1>1
    <3> QED BY <3>1, <2>1, <1>4, <1>5
  <2> QED BY <2>2, <2>3
<1>10. Lists(g, S)
  BY <1>6, <1>8, <1>9 DEF Lists, n
<1> QED BY <1>10

\* A finite set of naturals can be listed: or else take a smallest one that
\* cannot.
LEMMA CanList ==
  ASSUME NEW S \in SUBSET Nat, IsFiniteSet(S)
  PROVE  \E s : Lists(s, S)
<1> DEFINE Bad(n) == \E B \in SUBSET Nat : IsFiniteSet(B) /\ Cardinality(B) = n /\ ~ \E s : Lists(s, B)
           T == {n \in Nat : Bad(n)}
<1>1. SUFFICES ASSUME ~ \E s : Lists(s, S) PROVE FALSE
  OBVIOUS
<1>2. Cardinality(S) \in T
  BY <1>1, FS_CardinalityType
<1>3. PICK n \in T : \A k \in T : n <= k
  BY <1>2, LeastNat
<1>4. PICK B \in SUBSET Nat : IsFiniteSet(B) /\ Cardinality(B) = n /\ ~ \E s : Lists(s, B)
  BY <1>3
<1>5. CASE B = {}
  <2>1. Cardinality(B) = 0
    BY <1>5, FS_EmptySet
  <2>2. Lists(<<>>, B)
    BY <1>5, <2>1 DEF Lists, Range
  <2> QED BY <2>2, <1>4
<1>6. CASE B # {}
  <2>1. PICK m \in B : \A x \in B : m <= x
    BY <1>6, LeastNat
  <2>2. IsFiniteSet(B \ {m}) /\ Cardinality(B \ {m}) = n - 1
    BY <1>4, FS_RemoveElement
  <2>3. n - 1 \in Nat
    BY <2>2, FS_CardinalityType
  <2>4. ~(n - 1 \in T)
    BY <1>3, <2>3
  <2>5. PICK f : Lists(f, B \ {m})
    BY <2>2, <2>3, <2>4
  <2> QED BY <2>1, <2>5, <1>4, LeastFirst
<1> QED BY <1>5, <1>6

\* Ascending lists the elements of the set, each once.
LEMMA AscendingLists ==
  ASSUME NEW S \in SUBSET Nat, IsFiniteSet(S)
  PROVE  /\ Ascending(S) \in Seq(S) /\ Len(Ascending(S)) = Cardinality(S)
         /\ Range(Ascending(S)) = S
<1>1. \E s \in [1..Cardinality(S) -> S] :
        Range(s) = S /\ \A i, j \in 1..Cardinality(S) : i < j => s[i] < s[j]
  BY CanList DEF Lists
<1> DEFINE a == Ascending(S)
<1>2. a \in [1..Cardinality(S) -> S] /\ Range(a) = S
  BY <1>1 DEF Ascending
<1>3. Cardinality(S) \in Nat
  BY FS_CardinalityType
<1> HIDE DEF a
<1>4. a \in Seq(S) /\ Len(a) = Cardinality(S)
  BY <1>2, <1>3
<1> QED BY <1>2, <1>4 DEF a

-----------------------------------------------------------------------------
(* The invariant *)

Object == [rule : Rule, enabled : BOOLEAN, blocked : BOOLEAN, since : 0..Interval,
           mine : BOOLEAN]

\* Code that the user never accepted is blocked, in the engine's list and in
\* the queue.
Honest == {t \in Object : t.rule.python /\ ~t.mine => t.blocked}
Consent == obj \in Seq(Honest)

IInv == TypeOK /\ Consent /\ ButtonHonest /\ BlockedNeverRuns

Echo == [text : Text, age : 0..delay]

\* The type invariant, part by part.
LEMMA Types ==
  ASSUME IInv
  PROVE  /\ obj \in Seq(Object) /\ size \in 0..MaxTrigger /\ size <= Len(obj)
         /\ gone \in 0..Synced /\ matches \in Seq(1..Len(obj)) /\ Len(matches) <= MaxMatch
         /\ waits \in Seq(0..delay) /\ Len(waits) = Len(matches)
         /\ active \in BOOLEAN /\ button \in {"Start", "Stop"}
         /\ air \in Seq(Echo) /\ Len(air) <= MaxAir /\ delay \in Delays /\ ran \in BOOLEAN
BY Zenon DEF IInv, TypeOK, Object, Echo

\* And put together again.
LEMMA Assembled ==
  ASSUME obj' \in Seq(Object), size' \in 0..MaxTrigger, size' <= Len(obj'),
         gone' \in 0..Synced, matches' \in Seq(1..Len(obj')), Len(matches') <= MaxMatch,
         waits' \in Seq(0..delay), Len(waits') = Len(matches'),
         active' \in BOOLEAN, button' \in {"Start", "Stop"},
         air' \in Seq(Echo), Len(air') <= MaxAir, delay' = delay, delay \in Delays,
         ran' \in BOOLEAN
  PROVE  TypeOK'
<1>1. waits' \in Seq(0..delay') /\ air' \in Seq([text : Text, age : 0..delay']) /\ delay' \in Delays
  BY Zenon DEF Echo
<1> QED BY <1>1, Zenon DEF TypeOK, Object

\* An echo's delay is a number.
LEMMA DelayNat == ASSUME IInv PROVE delay \in Nat
<1>1. delay \in Delays
  BY Types, Zenon
<1> QED BY <1>1, ClockAssumption

-----------------------------------------------------------------------------
(* The objects in use are renumbered *)

\* What a step does to the objects: each was in o, the list is as long as es,
\* and as many matches wait as ms has.
Renumbers(o, es, ms, U) ==
  /\ obj' \in Seq(U)
  /\ size' = Len(es) /\ size' <= Len(obj')
  /\ matches' \in Seq(1..Len(obj')) /\ Len(matches') = Len(ms)

LEMMA BecomeRenumbers ==
  ASSUME NEW U, NEW o \in Seq(U), NEW es \in Seq(1..Len(o)), NEW ms \in Seq(1..Len(o)),
         Become(o, es, ms), \A t \in U : Left(t) \in U
  PROVE  Renumbers(o, es, ms, U)
<1> DEFINE S == Range(ms) \ Range(es)
           rest == Ascending(S)
           all == es \o rest
<1>1. Range(ms) \subseteq 1..Len(o)
  BY DEF Range
<1>2. S \in SUBSET Nat /\ S \in SUBSET (1..Len(o)) /\ IsFiniteSet(S)
  <2>1. S \in SUBSET (1..Len(o)) /\ S \in SUBSET Nat
    BY <1>1
  <2>2. IsFiniteSet(1..Len(o))
    BY FS_Interval
  <2> HIDE DEF S
  <2> QED BY <2>1, <2>2, FS_Subset
<1> HIDE DEF S
<1>3. rest \in Seq(S) /\ Range(rest) = S
  BY <1>2, AscendingLists
<1> HIDE DEF rest
<1>4. rest \in Seq(1..Len(o))
  <2> DEFINE D == 1..Len(o)
  <2>1. S \subseteq D
    BY <1>2
  <2> HIDE DEF D
  <2>2. \A k \in 1..Len(rest) : rest[k] \in D
    BY <2>1, <1>3
  <2>3. rest \in [1..Len(rest) -> D] /\ Len(rest) \in Nat
    BY <2>2, <1>3
  <2>4. rest \in Seq(D)
    BY <2>3, FunctionIsSeq
  <2> QED BY <2>4 DEF D
<1>5. all \in Seq(1..Len(o)) /\ Len(all) = Len(es) + Len(rest)
  BY <1>4
<1>6. ASSUME NEW k \in 1..Len(ms) PROVE \E i \in 1..Len(all) : all[i] = ms[k]
  <2>1. ms[k] \in Range(ms)
    BY DEF Range
  <2>2. CASE ms[k] \in Range(es)
    <3>1. PICK i \in 1..Len(es) : es[i] = ms[k]
      BY <2>2 DEF Range
    <3>2. i \in 1..Len(all) /\ all[i] = es[i]
      BY <1>4, <1>5
    <3> QED BY <3>1, <3>2
  <2>3. CASE ~(ms[k] \in Range(es))
    <3>1. ms[k] \in Range(rest)
      BY <2>1, <2>3, <1>3 DEF S
    <3>2. PICK i \in 1..Len(rest) : rest[i] = ms[k]
      BY SMTT(30), <3>1, <1>4 DEF Range
    <3>3. i + Len(es) \in 1..Len(all) /\ all[i + Len(es)] = rest[i]
      BY <1>4, <1>5
    <3> QED BY <3>2, <3>3
  <2> QED BY <2>2, <2>3
<1> DEFINE Place(k) == SelectInSeq(all, LAMBDA i : i = ms[k])
<1> DEFINE At(k) == IF k <= Len(es) THEN o[all[k]] ELSE Left(o[all[k]])
<1>7. /\ obj' = [k \in 1..Len(all) |-> At(k)] /\ size' = Len(es)
      /\ matches' = [k \in 1..Len(ms) |-> Place(k)]
  BY DEF Become, all, rest, S
<1> HIDE DEF all
<1>8. ASSUME NEW k \in 1..Len(ms) PROVE Place(k) \in 1..Len(all)
  <2> DEFINE I == {i \in 1..Len(all) : all[i] = ms[k]}
  <2>1. Place(k) = IF I # {} THEN Min(I) ELSE 0
    BY DEF SelectInSeq
  <2>2. I # {} /\ I \subseteq 1..Len(all)
    BY <1>6
  <2>3. I \subseteq Nat
    BY <2>2
  <2> HIDE DEF I
  <2>4. \E x \in I : \A y \in I : x <= y
    BY <2>2, <2>3, LeastNat
  <2>5. Min(I) \in I
    BY <2>4 DEF Min
  <2> QED BY <2>1, <2>2, <2>5
<1>9. obj' \in Seq(U) /\ Len(obj') = Len(all)
  <2>1. ASSUME NEW k \in 1..Len(all) PROVE At(k) \in U
    <3>1. o[all[k]] \in U
      BY <1>5
    <3> QED BY <3>1, Zenon
  <2>2. Len(all) \in Nat
    BY <1>5
  <2> HIDE DEF At
  <2>3. obj' \in [1..Len(all) -> U]
    BY <1>7, <2>1
  <2> QED BY <2>2, <2>3, FunctionIsSeq
<1>10. matches' \in Seq(1..Len(obj')) /\ Len(matches') = Len(ms)
  <2> HIDE DEF Place
  <2>1. Len(ms) \in Nat
    OBVIOUS
  <2>2. matches' \in [1..Len(ms) -> 1..Len(all)]
    BY <1>7, <1>8
  <2>3. matches' \in Seq(1..Len(all)) /\ Len(matches') = Len(ms)
    BY <2>1, <2>2, FunctionIsSeq
  <2>4. Len(obj') = Len(all)
    BY <1>9
  <2> QED BY <2>3, <2>4, Zenon
<1>11. size' = Len(es) /\ size' <= Len(obj')
  <2>1. Len(es) \in Nat /\ Len(rest) \in Nat
    BY <1>4
  <2>2. size' = Len(es) /\ Len(obj') = Len(es) + Len(rest)
    BY <1>5, <1>7, <1>9, Zenon
  <2> HIDE DEF Place
  <2> QED BY <2>1, <2>2
<1> QED BY <1>9, <1>10, <1>11, Zenon DEF Renumbers

\* An honest object stays one when it has left the list.
LEMMA LeftHonest == \A t \in Honest : Left(t) \in Honest
<1> SUFFICES ASSUME NEW t \in Honest PROVE Left(t) \in Honest
  OBVIOUS
<1>1. t \in Object /\ (t.rule.python /\ ~t.mine => t.blocked)
  BY DEF Honest
<1>2. /\ Left(t) \in Object /\ Left(t).rule = t.rule
      /\ Left(t).mine = t.mine /\ Left(t).blocked = t.blocked
  BY <1>1 DEF Object, Left
<1> QED BY <1>1, <1>2 DEF Honest

-----------------------------------------------------------------------------
(* Every action keeps the invariant *)

\* What the type invariant says of the engine's list and of the queue.
LEMMA Places ==
  ASSUME IInv
  PROVE  /\ MaxTrigger \in Nat \ {0} /\ MaxMatch \in Nat \ {0} /\ MaxAir \in Nat \ {0}
         /\ Len(obj) \in Nat /\ size \in Nat
         /\ Engine \in Seq(1..Len(obj)) /\ Len(Engine) = size
         /\ Rows \in 0..MaxTrigger
<1>1. MaxTrigger \in Nat \ {0} /\ MaxMatch \in Nat \ {0} /\ MaxAir \in Nat \ {0}
  BY BoundsAssumption
<1>2. size \in Nat /\ size <= Len(obj) /\ Len(obj) \in Nat
  <2>1. obj \in Seq(Object) /\ size \in 0..MaxTrigger /\ size <= Len(obj)
    BY Types, Zenon
  <2> QED BY <1>1, <2>1
<1>3. Engine \in [1..size -> 1..Len(obj)]
  BY <1>2 DEF Engine
<1>4. Engine \in Seq(1..Len(obj)) /\ Len(Engine) = size
  BY <1>2, <1>3, FunctionIsSeq
<1>5. Rows \in 0..MaxTrigger
  <2>1. size \in 0..MaxTrigger /\ gone \in 0..Synced
    BY Types, Zenon
  <2> QED BY <1>1, <2>1 DEF Rows, Synced
<1> QED BY <1>1, <1>2, <1>4, <1>5

\* A step that renumbers the objects keeps what is said of them.
LEMMA RenumbersKeeps ==
  ASSUME IInv, NEW o, NEW es, NEW ms, Renumbers(o, es, ms, Honest),
         Len(es) <= MaxTrigger, Len(es) \in Nat, Len(ms) <= MaxMatch
  PROVE  /\ Consent' /\ obj' \in Seq(Object)
         /\ size' \in 0..MaxTrigger /\ size' <= Len(obj')
         /\ matches' \in Seq(1..Len(obj')) /\ Len(matches') = Len(ms)
         /\ Len(matches') <= MaxMatch
<1>1. Honest \subseteq Object
  BY DEF Honest
<1>2. obj' \in Seq(Honest)
  BY DEF Renumbers
<1>3. obj' \in Seq(Object)
  <2>1. Len(obj') \in Nat /\ obj' \in [1..Len(obj') -> Honest]
    BY <1>2
  <2>2. obj' \in [1..Len(obj') -> Object]
    BY <2>1, <1>1
  <2> QED BY <2>1, <2>2, FunctionIsSeq
<1> QED BY <1>2, <1>3, Places DEF Renumbers, Consent

\* The objects of the invariant are honest, and those it speaks of are objects.
LEMMA ObjectsHonest ==
  ASSUME IInv
  PROVE  /\ obj \in Seq(Honest) /\ obj \in Seq(Object)
         /\ matches \in Seq(1..Len(obj)) /\ Len(matches) <= MaxMatch /\ Len(matches) \in Nat
         /\ \A i \in 1..Len(obj) : obj[i] \in Honest /\ obj[i] \in Object
<1>1. obj \in Seq(Honest)
  BY Zenon DEF IInv, Consent
<1>2. obj \in Seq(Object) /\ matches \in Seq(1..Len(obj)) /\ Len(matches) <= MaxMatch
  BY Types, Zenon
<1>3. \A i \in 1..Len(obj) : obj[i] \in Honest /\ obj[i] \in Object
  BY <1>1, <1>2
<1> HIDE DEF Honest, Object
<1> QED BY <1>1, <1>2, <1>3

\* The panel's operations: the queue keeps its matches, and they their rows.
LEMMA RenumbersKept ==
  ASSUME IInv, NEW o, NEW es, Renumbers(o, es, matches, Honest), Len(es) \in 0..MaxTrigger,
         gone' \in 0..Synced, UNCHANGED <<waits, log, air, delay, ran>>
  PROVE  IInv'
<1>1. /\ Consent' /\ obj' \in Seq(Object)
      /\ size' \in 0..MaxTrigger /\ size' <= Len(obj')
      /\ matches' \in Seq(1..Len(obj')) /\ Len(matches') = Len(matches)
      /\ Len(matches') <= MaxMatch
  BY RenumbersKeeps, ObjectsHonest, Places
<1>2. TypeOK'
  BY <1>1, Types, Assembled DEF log
<1>3. ButtonHonest' /\ BlockedNeverRuns'
  BY DEF IInv, ButtonHonest, BlockedNeverRuns, log
<1> QED BY <1>1, <1>2, <1>3 DEF IInv

\* A new object that the user wrote, or that is blocked, is honest.
LEMMA NewHonest ==
  ASSUME IInv, NEW t \in Honest
  PROVE  /\ Append(obj, t) \in Seq(Honest) /\ Len(Append(obj, t)) = Len(obj) + 1
         /\ matches \in Seq(1..Len(Append(obj, t)))
         /\ Engine \in Seq(1..Len(Append(obj, t)))
<1>1. Append(obj, t) \in Seq(Honest) /\ Len(Append(obj, t)) = Len(obj) + 1
  BY ObjectsHonest
<1> DEFINE n == Len(obj)
           D == 1..(n + 1)
<1>2. 1..n \subseteq D /\ n \in Nat
  BY Places
<1>3. matches \in Seq(1..n) /\ Engine \in Seq(1..n)
  BY ObjectsHonest, Places
<1> HIDE DEF n, D
<1>4. matches \in Seq(D) /\ Engine \in Seq(D)
  BY <1>2, <1>3, SeqMonotonic
<1> QED BY <1>1, <1>4, Zenon DEF n, D

LEMMA SaveKeeps ==
  ASSUME IInv, NEW r \in Rule, NEW k \in 0..Rows, Save(r, k)
  PROVE  IInv'
<1> DEFINE t == Trigger(r, TRUE, FALSE, TRUE)
           o == Append(obj, t)
<1>1. t \in Honest
  BY ClockAssumption DEF Trigger, Honest, Object
<1>2. o \in Seq(Honest) /\ Len(o) = Len(obj) + 1 /\ matches \in Seq(1..Len(o)) /\ Engine \in Seq(1..Len(o))
  BY <1>1, NewHonest
<1>3. UNCHANGED <<waits, log, air, delay, ran>> /\ gone' = Synced
  BY DEF Save, Rebuilt
<1> DEFINE Longer == Append(Engine, Len(o))
           Changed == IF k <= size THEN [Engine EXCEPT ![k] = Len(o)] ELSE Engine
<1>4. \/ size < MaxTrigger /\ Become(o, Longer, matches)
      \/ k \in 1..Rows /\ Become(o, Changed, matches)
  BY DEF Save, Rebuilt
<1> HIDE DEF t
<1>5. Len(o) \in 1..Len(o)
  BY <1>2, ObjectsHonest
<1> HIDE DEF o
<1>6. PICK es \in Seq(1..Len(o)) : Len(es) \in 0..MaxTrigger /\ Become(o, es, matches)
  <2>1. CASE size < MaxTrigger /\ Become(o, Longer, matches)
    <3> DEFINE D == 1..Len(o)
    <3>1. Len(o) \in D /\ Engine \in Seq(D) /\ Len(Engine) = size
      BY <1>2, <1>5, Places
    <3> HIDE DEF D
    <3>2. Longer \in Seq(D) /\ Len(Longer) = size + 1
      BY <3>1
    <3>3. size + 1 \in 0..MaxTrigger
      BY <2>1, Places
    <3> HIDE DEF Longer
    <3> QED BY <3>2, <3>3, <2>1 DEF D
  <2>2. CASE k \in 1..Rows /\ Become(o, Changed, matches)
    <3>1. Changed \in Seq(1..Len(o)) /\ Len(Changed) = size
      <4>1. CASE k <= size
        <5>1. k \in 1..Len(Engine)
          BY <4>1, <2>2, Places
        <5> QED BY <4>1, <5>1, <1>2, <1>5, ExceptSeq, Places
      <4>2. CASE ~(k <= size)
        BY <4>2, <1>2, Places
      <4> QED BY <4>1, <4>2
    <3>2. size \in 0..MaxTrigger
      BY Types, Zenon
    <3> QED BY <3>1, <3>2, <2>2
  <2> QED BY <1>4, <2>1, <2>2
<1>7. Renumbers(o, es, matches, Honest)
  BY <1>2, <1>6, BecomeRenumbers, LeftHonest
<1>8. gone' \in 0..Synced
  BY <1>3, Places DEF Synced
<1> QED BY <1>3, <1>6, <1>7, <1>8, RenumbersKept

LEMMA DelRowKeeps ==
  ASSUME IInv, NEW k \in 1..Rows, DelRow(k)
  PROVE  IInv'
<1> DEFINE Fewer == IF k <= size THEN RemoveAt(Engine, k) ELSE Engine
<1>1. Become(obj, Fewer, matches) /\ gone' = Synced /\ UNCHANGED <<waits, log, air, delay, ran>>
  BY DEF DelRow, Rebuilt
<1>2. Fewer \in Seq(1..Len(obj)) /\ Len(Fewer) \in 0..MaxTrigger
  <2>1. size \in 0..MaxTrigger
    BY Types, Zenon
  <2>2. CASE k <= size
    <3>1. k \in 1..size /\ size \in Nat /\ Engine \in Seq(1..Len(obj)) /\ Len(Engine) = size
      BY <2>2, Places
    <3>2. RemoveAt(Engine, k) = SubSeq(Engine, 1, k - 1) \o SubSeq(Engine, k + 1, size)
      BY <3>1 DEF RemoveAt
    <3>3. /\ SubSeq(Engine, 1, k - 1) \in Seq(1..Len(obj)) /\ Len(SubSeq(Engine, 1, k - 1)) = k - 1
          /\ SubSeq(Engine, k + 1, size) \in Seq(1..Len(obj))
          /\ Len(SubSeq(Engine, k + 1, size)) = size - k
      BY <3>1, SubSeqProperties
    <3>4. Fewer \in Seq(1..Len(obj)) /\ Len(Fewer) = size - 1
      BY <2>2, <3>1, <3>2, <3>3
    <3> QED BY <3>4, <2>1, <3>1, Places
  <2>3. CASE ~(k <= size)
    BY <2>3, <2>1, Places
  <2> QED BY <2>2, <2>3
<1> HIDE DEF Fewer
<1>3. Renumbers(obj, Fewer, matches, Honest)
  BY <1>1, <1>2, ObjectsHonest, BecomeRenumbers, LeftHonest
<1>4. gone' \in 0..Synced
  BY <1>1, Places DEF Synced
<1> QED BY <1>1, <1>2, <1>3, <1>4, RenumbersKept

LEMMA LoadKeeps ==
  ASSUME IInv, NEW r \in Rule, NEW allow \in BOOLEAN, Load(r, allow)
  PROVE  IInv'
<1> DEFINE t == Loaded(r, allow)
           o == Append(obj, t)
           es == <<Len(obj) + 1>>
<1>1. t \in Honest /\ (Evaluates(t) => t.mine)
  BY ClockAssumption DEF Loaded, Trigger, Evaluates, Honest, Object
<1>2. o \in Seq(Honest) /\ Len(o) = Len(obj) + 1 /\ matches \in Seq(1..Len(o))
  BY <1>1, NewHonest
<1>3. /\ Become(o, es, matches) /\ gone' = Rows /\ UNCHANGED <<waits, log, air, delay>>
      /\ ran' = (ran \/ (Evaluates(t) /\ ~t.mine))
  BY DEF Load
<1>4. ran' = ran
  <2>1. ran = FALSE
    BY DEF IInv, TypeOK, BlockedNeverRuns
  <2>2. ~(Evaluates(t) /\ ~t.mine)
    BY <1>1, Zenon
  <2> QED BY <1>3, <2>1, <2>2, Zenon
<1> HIDE DEF t
<1>5. es \in Seq(1..Len(o)) /\ Len(es) = 1 /\ Len(es) \in 0..MaxTrigger
  BY <1>2, Places
<1> HIDE DEF o, es
<1>6. Renumbers(o, es, matches, Honest)
  BY <1>2, <1>3, <1>5, BecomeRenumbers, LeftHonest
<1>7. gone' \in 0..Synced
  BY <1>3, Places DEF Synced
<1> QED BY <1>3, <1>4, <1>5, <1>6, <1>7, RenumbersKept

\* Other steps on the panel's objects: each of them is replaced by one that is
\* honest as well, and all else stays.
LEMMA ObjectsKept ==
  ASSUME IInv, NEW o \in Seq(Honest), obj' = o, Len(o) = Len(obj),
         UNCHANGED <<size, gone, matches, waits, log, air, delay, ran>>
  PROVE  IInv'
<1>1. o \in Seq(Object)
  BY SeqMonotonic DEF Honest
<1>2. obj' \in Seq(Object) /\ Len(obj') = Len(obj) /\ Consent'
  BY <1>1 DEF Consent
<1>3. matches \in Seq(1..Len(obj'))
  BY <1>2, ObjectsHonest, Zenon
<1>4. TypeOK'
  <2>1. size' <= Len(obj')
    BY <1>2, Types, Zenon
  <2> QED BY <1>2, <1>3, <2>1, Types, Assembled DEF log
<1>5. ButtonHonest' /\ BlockedNeverRuns'
  BY DEF IInv, ButtonHonest, BlockedNeverRuns, log
<1> QED BY <1>2, <1>4, <1>5 DEF IInv

LEMMA ToggleRowKeeps ==
  ASSUME IInv, NEW k \in 1..Rows, ToggleRow(k)
  PROVE  IInv'
<1> DEFINE t == [obj[k] EXCEPT !.enabled = ~@]
           o == [obj EXCEPT ![k] = t]
<1>1. k \in 1..Len(obj)
  <2>1. k \in 1..size
    BY DEF ToggleRow, Rows
  <2>2. size <= Len(obj) /\ size \in Nat /\ Len(obj) \in Nat
    BY Types, Places, Zenon
  <2> QED BY <2>1, <2>2
<1>2. t \in Honest
  <2>1. obj[k] \in Object /\ (obj[k].rule.python /\ ~obj[k].mine => obj[k].blocked)
    BY <1>1, ObjectsHonest DEF Honest
  <2>2. t \in Object /\ t.rule = obj[k].rule /\ t.mine = obj[k].mine /\ t.blocked = obj[k].blocked
    BY <2>1 DEF Object
  <2> QED BY <2>1, <2>2 DEF Honest
<1>3. obj' = o /\ UNCHANGED <<size, gone, matches, waits, log, air, delay, ran>>
  BY DEF ToggleRow
<1> HIDE DEF t
<1>4. o \in Seq(Honest) /\ Len(o) = Len(obj)
  BY <1>1, <1>2, ObjectsHonest, ExceptSeq
<1> QED BY <1>3, <1>4, ObjectsKept

LEMMA TickKeeps ==
  ASSUME IInv, Tick
  PROVE  IInv'
<1> DEFINE t(i) == [obj[i] EXCEPT !.since = IF @ < Interval THEN @ + 1 ELSE @]
           o == [i \in 1..Len(obj) |-> t(i)]
<1>1. ASSUME NEW i \in 1..Len(obj) PROVE t(i) \in Honest
  <2>1. obj[i] \in Object /\ (obj[i].rule.python /\ ~obj[i].mine => obj[i].blocked)
    BY ObjectsHonest DEF Honest
  <2>2. (IF obj[i].since < Interval THEN obj[i].since + 1 ELSE obj[i].since) \in 0..Interval
    BY <2>1, ClockAssumption DEF Object
  <2>3. /\ t(i) \in Object /\ t(i).rule = obj[i].rule /\ t(i).mine = obj[i].mine
        /\ t(i).blocked = obj[i].blocked
    BY <2>1, <2>2 DEF Object
  <2> QED BY <2>1, <2>3 DEF Honest
<1>2. obj' = o /\ UNCHANGED <<size, gone, matches, log, delay, ran>>
  BY DEF Tick
<1> HIDE DEF t
<1>3. o \in [1..Len(obj) -> Honest] /\ Len(obj) \in Nat
  BY <1>1, Places
<1> HIDE DEF o
<1>4. o \in Seq(Honest) /\ Len(o) = Len(obj)
  BY <1>3, FunctionIsSeq
<1>5. o \in Seq(Object)
  BY <1>4, SeqMonotonic DEF Honest
<1>6. delay \in Nat
  BY DelayNat
<1>7. waits' \in Seq(0..delay) /\ Len(waits') = Len(waits)
  <2> DEFINE D == 0..delay
  <2>0. waits \in Seq(D)
    BY Types, Zenon
  <2> HIDE DEF D
  <2>1. waits \in Seq(D) /\ Len(waits) \in Nat /\ \A k \in 1..Len(waits) : waits[k] \in D
    BY <2>0
  <2> USE DEF D
  <2>2. ASSUME NEW k \in 1..Len(waits) PROVE waits[k] + 1 \in 0..delay
    <3>1. waits[k] \in 0..delay
      BY <2>1, Zenon
    <3>2. waits[k] < delay
      BY DEF Tick
    <3> QED BY <3>1, <3>2, <1>6
  <2>3. waits' \in [1..Len(waits) -> 0..delay]
    BY <2>2 DEF Tick
  <2> QED BY <2>1, <2>3, FunctionIsSeq
<1>8. air' \in Seq(Echo) /\ Len(air') = Len(air)
  <2> DEFINE older(k) == [air[k] EXCEPT !.age = @ + 1]
  <2>0. air \in Seq(Echo)
    BY Types, Zenon
  <2>1. air \in Seq(Echo) /\ Len(air) \in Nat /\ \A k \in 1..Len(air) : air[k] \in Echo
    BY <2>0
  <2>2. ASSUME NEW k \in 1..Len(air) PROVE older(k) \in Echo
    <3>1. air[k] \in [text : Text, age : 0..delay]
      BY <2>1, Zenon DEF Echo
    <3>2. air[k].age < delay
      BY DEF Tick
    <3>3. air[k].age + 1 \in 0..delay
      BY <3>1, <3>2, <1>6
    <3> QED BY <3>1, <3>3 DEF Echo
  <2>3. air' = [k \in 1..Len(air) |-> older(k)]
    BY DEF Tick
  <2> HIDE DEF older
  <2>4. air' \in [1..Len(air) -> Echo]
    BY <2>2, <2>3
  <2> QED BY <2>1, <2>4, FunctionIsSeq
<1>9. obj' \in Seq(Object) /\ Len(obj') = Len(obj) /\ Consent'
  BY <1>2, <1>4, <1>5 DEF Consent
<1>10. matches' \in Seq(1..Len(obj')) /\ size' <= Len(obj')
  BY <1>2, <1>9, Types, Zenon
<1>11. TypeOK'
  <2>1. Len(air') <= MaxAir /\ Len(waits') = Len(matches')
    BY <1>2, <1>7, <1>8, Types, Zenon
  <2>2. /\ matches' = matches /\ size' = size /\ gone' = gone /\ active' = active
        /\ button' = button /\ delay' = delay /\ ran' = ran
    BY <1>2 DEF log
  <2>3. /\ Len(matches') <= MaxMatch /\ size' \in 0..MaxTrigger /\ gone' \in 0..Synced
        /\ active' \in BOOLEAN /\ button' \in {"Start", "Stop"} /\ delay \in Delays
        /\ ran' \in BOOLEAN
    BY <2>2, Types, Zenon
  <2> QED BY <1>7, <1>8, <1>9, <1>10, <2>1, <2>2, <2>3, Assembled, Zenon
<1>12. ButtonHonest' /\ BlockedNeverRuns'
  BY <1>2 DEF IInv, ButtonHonest, BlockedNeverRuns, log
<1> QED BY <1>9, <1>11, <1>12 DEF IInv

LEMMA CheckKeeps ==
  ASSUME IInv, NEW l, NEW n \in 0..delay, Check(l, n), UNCHANGED <<log, delay>>,
         air' \in Seq(Echo), Len(air') <= MaxAir
  PROVE  IInv'
<1> DEFINE H == {i \in 1..size : Matches(obj[i], l)}
           hit == Ascending(H)
<1>1. /\ Len(matches) + Len(hit) <= MaxMatch /\ matches' = matches \o hit
      /\ waits' = waits \o [k \in 1..Len(hit) |-> n]
      /\ ran' = (ran \/ \E i \in 1..size : obj[i].rule.python /\ Runs(obj[i]) /\ ~obj[i].mine)
      /\ UNCHANGED <<obj, size, gone>>
  BY DEF Check
<1>2. size \in Nat /\ 1..size \subseteq 1..Len(obj)
  <2>1. size \in Nat /\ size <= Len(obj) /\ Len(obj) \in Nat
    BY Places, Types, Zenon
  <2> QED BY <2>1
<1>3. H \in SUBSET (1..size) /\ H \in SUBSET Nat /\ IsFiniteSet(H)
  <2>1. H \in SUBSET (1..size) /\ H \in SUBSET Nat
    OBVIOUS
  <2>2. IsFiniteSet(1..size)
    BY <1>2, FS_Interval
  <2> HIDE DEF H
  <2> QED BY <2>1, <2>2, FS_Subset
<1> HIDE DEF H
<1>4. hit \in Seq(1..Len(obj)) /\ Len(hit) \in Nat
  <2>1. hit \in Seq(H)
    BY <1>3, AscendingLists
  <2>2. H \subseteq 1..Len(obj)
    BY <1>2, <1>3, Zenon
  <2> HIDE DEF hit
  <2>3. hit \in Seq(1..Len(obj))
    BY <2>1, <2>2, SeqMonotonic
  <2> QED BY <2>1, <2>3
<1> HIDE DEF hit
<1>5. /\ matches' \in Seq(1..Len(obj)) /\ Len(matches') = Len(matches) + Len(hit)
      /\ Len(matches') <= MaxMatch
  <2> DEFINE D == 1..Len(obj)
  <2>1. matches \in Seq(D) /\ hit \in Seq(D)
    BY <1>4, ObjectsHonest
  <2> HIDE DEF D
  <2>2. matches \o hit \in Seq(D) /\ Len(matches \o hit) = Len(matches) + Len(hit)
    BY <2>1
  <2> QED BY <2>2, <1>1, Zenon DEF D
<1>6. waits' \in Seq(0..delay) /\ Len(waits') = Len(matches')
  <2> DEFINE W == [k \in 1..Len(hit) |-> n]
             D == 0..delay
  <2>1. W \in Seq(D) /\ Len(W) = Len(hit)
    <3> HIDE DEF D
    <3>1. n \in D
      BY DEF D
    <3>2. W \in [1..Len(hit) -> D]
      BY <3>1
    <3> QED BY <3>2, <1>4, FunctionIsSeq
  <2>2. waits \in Seq(D) /\ Len(waits) = Len(matches)
    BY Types, Zenon
  <2>3. waits' = waits \o W
    BY <1>1
  <2> HIDE DEF W, D
  <2>4. waits' \in Seq(D) /\ Len(waits') = Len(waits) + Len(W)
    BY <2>1, <2>2, <2>3, ConcatProperties
  <2> QED BY <2>1, <2>2, <2>4, <1>5 DEF D
<1>7. ran' = FALSE
  <2>1. ran = FALSE
    BY DEF IInv, TypeOK, BlockedNeverRuns
  <2>2. ASSUME NEW i \in 1..size, obj[i].rule.python, Runs(obj[i]), ~obj[i].mine PROVE FALSE
    <3>1. obj[i].blocked
      BY <2>2, <1>2, ObjectsHonest DEF Honest
    <3> QED BY <3>1, <2>2 DEF Runs
  <2> QED BY <1>1, <2>1, <2>2, Zenon
<1>8. TypeOK'
  BY <1>1, <1>5, <1>6, <1>7, Types, Assembled DEF log
<1>9. Consent' /\ ButtonHonest' /\ BlockedNeverRuns'
  BY <1>1, <1>7 DEF IInv, Consent, ButtonHonest, BlockedNeverRuns, log
<1> QED BY <1>8, <1>9 DEF IInv

LEMMA HearKeeps ==
  ASSUME IInv, NEW l \in Text, Hear(l)
  PROVE  IInv'
<1>1. Check(l, 0) /\ UNCHANGED <<log, air, delay>>
  BY DEF Hear
<1>2. 0 \in 0..delay
  BY DelayNat
<1>3. air' \in Seq(Echo) /\ Len(air') <= MaxAir
  BY <1>1, Types, Zenon
<1> QED BY <1>1, <1>2, <1>3, CheckKeeps

LEMMA HearEchoKeeps ==
  ASSUME IInv, HearEcho
  PROVE  IInv'
<1>1. /\ Check(Head(air).text, Head(air).age) /\ air # <<>> /\ air' = Tail(air)
      /\ UNCHANGED <<log, delay>>
  BY DEF HearEcho
<1>2. air \in Seq(Echo) /\ Len(air) <= MaxAir
  BY Types, Zenon
<1>3. Head(air) \in Echo /\ Tail(air) \in Seq(Echo) /\ Len(Tail(air)) = Len(air) - 1
      /\ Len(air) \in Nat
  BY <1>1, <1>2
<1>4. Head(air).age \in 0..delay
  BY <1>3, Zenon DEF Echo
<1>5. air' \in Seq(Echo) /\ Len(air') <= MaxAir
  BY <1>1, <1>2, <1>3, Places
<1> QED BY <1>1, <1>4, <1>5, CheckKeeps

LEMMA DeliverKeeps ==
  ASSUME IInv, Deliver
  PROVE  IInv'
<1> DEFINE i == Head(matches)
           t == obj[i]
           ms == Tail(matches)
           o2 == [obj EXCEPT ![i] = GuardAfter(t)]
<1>1. /\ matches # <<>> /\ waits' = Tail(waits) /\ UNCHANGED <<gone, delay, ran>>
      /\ \/ Resumes(t) /\ LogStops(t) /\ UNCHANGED air /\ Become(obj, Engine, ms)
         \/ /\ LogGoesOn(t)
            /\ \/ Replies(t) /\ Echoed(t) /\ Become(o2, Engine, ms)
               \/ UNCHANGED air /\ Become(obj, Engine, ms)
  BY DEF Deliver
<1>2. i \in 1..Len(obj) /\ ms \in Seq(1..Len(obj)) /\ Len(ms) = Len(matches) - 1
  <2> DEFINE D == 1..Len(obj)
  <2>1. matches \in Seq(D)
    BY ObjectsHonest
  <2> HIDE DEF D
  <2>2. i \in D /\ ms \in Seq(D) /\ Len(ms) = Len(matches) - 1
    BY <2>1, <1>1
  <2> QED BY <2>2 DEF D
<1> HIDE DEF i, ms
<1>3. t \in Object /\ t \in Honest
  BY <1>2, ObjectsHonest
<1>4. t.rule \in Rule
  BY <1>3 DEF Object
<1>5. GuardAfter(t) \in Honest
  <2>1. t \in Object /\ (t.rule.python /\ ~t.mine => t.blocked)
    BY <1>3 DEF Honest
  <2> HIDE DEF t
  <2>2. /\ GuardAfter(t) \in Object /\ GuardAfter(t).rule = t.rule
        /\ GuardAfter(t).mine = t.mine /\ GuardAfter(t).blocked = t.blocked
    BY <2>1, ClockAssumption DEF Object, GuardAfter
  <2> QED BY <2>1, <2>2 DEF Honest
<1> HIDE DEF t
<1>6. o2 \in Seq(Honest) /\ Len(o2) = Len(obj)
  BY <1>2, <1>5, ObjectsHonest, ExceptSeq
<1> HIDE DEF o2
<1>7. PICK o \in {obj, o2} : Become(o, Engine, ms)
  BY <1>1, Zenon
<1>8. o \in Seq(Honest) /\ Len(o) = Len(obj)
  BY <1>6, <1>7, ObjectsHonest
<1>9. Engine \in Seq(1..Len(o)) /\ ms \in Seq(1..Len(o))
  BY <1>2, <1>8, Places, Zenon
<1>10. Renumbers(o, Engine, ms, Honest)
  BY <1>7, <1>8, <1>9, BecomeRenumbers, LeftHonest
<1>11. /\ Consent' /\ obj' \in Seq(Object)
       /\ size' \in 0..MaxTrigger /\ size' <= Len(obj')
       /\ matches' \in Seq(1..Len(obj')) /\ Len(matches') = Len(matches) - 1
       /\ Len(matches') <= MaxMatch
  <2>1. Len(Engine) \in Nat /\ Len(Engine) <= MaxTrigger
    <3>1. size \in 0..MaxTrigger /\ Len(Engine) = size
      BY Types, Places, Zenon
    <3> QED BY <3>1, Places
  <2>2. Len(ms) <= MaxMatch
    BY <1>2, ObjectsHonest, Places
  <2> QED BY <1>2, <1>10, <2>1, <2>2, RenumbersKeeps
<1>12. air' \in Seq(Echo) /\ Len(air') <= MaxAir
  <2> DEFINE e == [text |-> t.rule.reply, age |-> 0]
  <2>0. air \in Seq(Echo) /\ Len(air) <= MaxAir /\ delay \in Nat
    BY Types, DelayNat, Zenon
  <2>1. CASE UNCHANGED air
    BY <2>0, <2>1, Zenon
  <2>2. CASE Replies(t) /\ Len(air) < MaxAir /\ air' = Append(air, e)
    <3>1. t.rule.reply \in Text
      BY <2>2, <1>4, RuleAssumption DEF Replies
    <3>2. e \in Echo
      BY <2>0, <3>1 DEF Echo
    <3> HIDE DEF e
    <3>3. Append(air, e) \in Seq(Echo) /\ Len(Append(air, e)) = Len(air) + 1 /\ Len(air) \in Nat
      BY <2>0, <3>2
    <3>4. Len(air) + 1 <= MaxAir
      BY <2>2, <3>3, Places
    <3> QED BY <2>2, <3>3, <3>4
  <2> QED BY <1>1, <2>1, <2>2 DEF Echoed
<1>13. active' \in BOOLEAN /\ button' \in {"Start", "Stop"} /\ ButtonHonest'
  <2>1. t.rule.resumes \in BOOLEAN /\ t.rule.pauses \in BOOLEAN
    BY <1>4, RuleAssumption
  <2>2. active \in BOOLEAN /\ button = IF active THEN "Stop" ELSE "Start"
    <3>1. button \in {"Start", "Stop"} /\ active \in BOOLEAN
      BY Types, Zenon
    <3> QED BY <3>1 DEF IInv, ButtonHonest
  <2>3. ButtonMidway(t) = IF Paused(t) THEN "Stop" ELSE "Start"
    BY <2>1, <2>2 DEF ButtonMidway, Paused
  <2>4. CASE LogStops(t)
    BY <2>1, <2>2, <2>3, <2>4 DEF LogStops, ButtonHonest, Paused
  <2>5. CASE LogGoesOn(t)
    BY <2>1, <2>2, <2>3, <2>5 DEF LogGoesOn, Resumes, ButtonHonest, Paused
  <2> QED BY <1>1, <2>4, <2>5
<1>14. waits' \in Seq(0..delay) /\ Len(waits') = Len(matches')
  <2> DEFINE D == 0..delay
  <2>0. waits \in Seq(D) /\ Len(waits) = Len(matches)
    BY Types, Zenon
  <2>1. Len(matches) \in Nat \ {0}
    <3>1. matches \in Seq(1..Len(obj))
      BY ObjectsHonest, Zenon
    <3> QED BY <3>1, <1>1
  <2> HIDE DEF D
  <2>2. waits' \in Seq(D) /\ Len(waits') = Len(waits) - 1
    BY <1>1, <2>0, <2>1
  <2> QED BY <2>0, <2>1, <2>2, <1>11 DEF D
<1>15. TypeOK'
  <2>1. delay' = delay /\ gone' = gone /\ ran' = ran
    BY <1>1
  <2> QED BY <1>11, <1>12, <1>13, <1>14, <2>1, Types, Assembled
<1> QED BY <1>1, <1>11, <1>13, <1>15 DEF IInv, BlockedNeverRuns

LEMMA LogAndLinkKeep ==
  ASSUME IInv, ToggleLog \/ LinkDown
  PROVE  IInv'
<1>1. UNCHANGED <<lists, delay, ran>>
  BY DEF ToggleLog, LinkDown
<1>2. active' \in BOOLEAN /\ button' \in {"Start", "Stop"} /\ ButtonHonest'
  <2>1. active \in BOOLEAN /\ button \in {"Start", "Stop"}
    BY Types, Zenon
  <2>2. CASE ToggleLog
    BY <2>1, <2>2 DEF ToggleLog, IInv, ButtonHonest
  <2>3. CASE LinkDown
    BY <2>1, <2>3 DEF LinkDown, log, IInv, ButtonHonest
  <2> QED BY <2>2, <2>3
<1>3. air' \in Seq(Echo) /\ Len(air') <= MaxAir
  <2>1. CASE UNCHANGED air
    BY <2>1, Types, Zenon
  <2>2. CASE air' = <<>>
    BY <2>2, Places
  <2> QED BY <2>1, <2>2 DEF ToggleLog, LinkDown
<1>4. TypeOK'
  <2>1. UNCHANGED <<obj, size, gone, matches, waits, delay, ran>>
    BY <1>1 DEF lists
  <2>2. /\ size' <= Len(obj') /\ matches' \in Seq(1..Len(obj')) /\ Len(matches') <= MaxMatch
        /\ Len(waits') = Len(matches')
    BY <2>1, Types, Zenon
  <2> QED BY <1>2, <1>3, <2>1, <2>2, Types, Assembled
<1> QED BY <1>1, <1>2, <1>4 DEF lists, IInv, Consent, BlockedNeverRuns

-----------------------------------------------------------------------------
(* The theorems *)

LEMMA InitHolds == Init => IInv
<1> SUFFICES ASSUME Init PROVE IInv
  OBVIOUS
<1>1. Default \in Seq(Rule) /\ Len(Default) \in Nat /\ Len(Default) <= MaxTrigger
  BY DefaultAssumption
<1>2. MaxTrigger \in Nat \ {0} /\ MaxMatch \in Nat \ {0} /\ MaxAir \in Nat \ {0}
  BY BoundsAssumption
<1>3. obj = [j \in 1..Len(Default) |-> Trigger(Default[j], TRUE, FALSE, TRUE)]
  BY DEF Init
<1>4. ASSUME NEW j \in 1..Len(Default) PROVE Trigger(Default[j], TRUE, FALSE, TRUE) \in Honest
  <2>1. Default[j] \in Rule
    BY <1>1
  <2> QED BY <2>1, ClockAssumption DEF Trigger, Honest, Object
<1>5. obj \in [1..Len(Default) -> Honest]
  BY <1>3, <1>4
<1>6. obj \in Seq(Honest) /\ Len(obj) = Len(Default)
  BY <1>1, <1>5, FunctionIsSeq
<1>7. obj \in Seq(Object)
  BY <1>6, SeqMonotonic DEF Honest
<1>8. /\ size = Len(Default) /\ gone = Synced /\ matches = <<>> /\ waits = <<>> /\ air = <<>>
      /\ active = FALSE /\ button = "Start" /\ delay \in Delays /\ ran = FALSE
  BY DEF Init
<1>9. /\ matches \in Seq(1..Len(obj)) /\ Len(matches) = 0
      /\ waits \in Seq(0..delay) /\ Len(waits) = 0
      /\ air \in Seq(Echo) /\ Len(air) = 0 /\ gone \in 0..Synced
  <2> DEFINE D == 0..delay
  <2>1. gone \in 0..Synced /\ matches \in Seq(1..Len(obj)) /\ Len(matches) = 0
    BY <1>2, <1>8 DEF Synced
  <2> HIDE DEF D
  <2>2. waits \in Seq(D) /\ Len(waits) = 0 /\ air \in Seq(Echo) /\ Len(air) = 0
    BY <1>8
  <2> QED BY <2>1, <2>2 DEF D
<1>10. TypeOK
  <2>1. Len(matches) <= MaxMatch /\ Len(air) <= MaxAir
    BY <1>2, <1>8, <1>9
  <2>2. size \in 0..MaxTrigger /\ size <= Len(obj)
    BY <1>1, <1>2, <1>6, <1>8
  <2>3. /\ active \in BOOLEAN /\ button \in {"Start", "Stop"}
        /\ ran \in BOOLEAN /\ delay \in Delays
    BY <1>8
  <2> QED BY <1>7, <1>8, <1>9, <2>1, <2>2, <2>3, Zenon DEF TypeOK, Object, Echo
<1> QED BY <1>6, <1>8, <1>9, <1>10 DEF IInv, Consent, ButtonHonest, BlockedNeverRuns

LEMMA NextKeeps == IInv /\ [Next]_vars => IInv'
<1> SUFFICES ASSUME IInv, [Next]_vars PROVE IInv'
  OBVIOUS
<1>1. CASE User
  <2>1. CASE ToggleLog
    BY <2>1, LogAndLinkKeep
  <2>2. ASSUME NEW r \in Rule, NEW k \in 0..Rows, Save(r, k) PROVE IInv'
    BY <2>2, SaveKeeps
  <2>3. ASSUME NEW k \in 1..Rows, DelRow(k) \/ ToggleRow(k) PROVE IInv'
    BY <2>3, DelRowKeeps, ToggleRowKeeps
  <2>4. ASSUME NEW r \in Rule, NEW allow \in BOOLEAN, Load(r, allow) PROVE IInv'
    BY <2>4, LoadKeeps
  <2> QED BY <1>1, <2>1, <2>2, <2>3, <2>4 DEF User
<1>2. CASE Machine
  BY <1>2, HearEchoKeeps, DeliverKeeps, TickKeeps DEF Machine
<1>3. CASE LinkDown
  BY <1>3, LogAndLinkKeep
<1>4. ASSUME NEW l \in Text, Hear(l) PROVE IInv'
  BY <1>4, HearKeeps
<1>5. CASE UNCHANGED vars
  BY <1>5 DEF vars, lists, log, IInv, TypeOK, Consent, ButtonHonest, BlockedNeverRuns
<1> QED BY <1>1, <1>2, <1>3, <1>4, <1>5 DEF Next

LEMMA Invariant == Spec => []IInv
BY InitHolds, NextKeeps, PTL DEF Spec

\* Every variable keeps its type, and the engine's list stays within its bound,
\* whatever is edited while matches wait (TypeOK).
THEOREM TypeCorrect == Spec => []TypeOK
<1>1. IInv => TypeOK
  BY DEF IInv
<1> QED BY <1>1, Invariant, PTL

\* Python code of a file that was loaded without consent is never evaluated: it
\* is blocked wherever it is, and the check box does not unblock it (Runs).
THEOREM ConsentHolds == Spec => []BlockedNeverRuns
<1>1. IInv => BlockedNeverRuns
  BY DEF IInv
<1> QED BY <1>1, Invariant, PTL

\* The button of the log panel agrees with the session through clicks, pauses,
\* resumes and resumes that fail (_on_trigger_match_gui, LoggerPanel._toggle).
THEOREM ButtonAgrees == Spec => []ButtonHonest
<1>1. IInv => ButtonHonest
  BY DEF IInv
<1> QED BY <1>1, Invariant, PTL
=============================================================================
