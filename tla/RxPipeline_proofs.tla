------------------------- MODULE RxPipeline_proofs --------------------------
(***************************************************************************)
(* That the way of the bytes loses none (EveryByte), that the offsets of   *)
(* the HEX view are true (OffsetTrue), and that an event points at its own *)
(* line (EventTrue): theorems about RxPipeline, for every MaxLine and      *)
(* every Scrollback.  First what flattening and the two loops of the       *)
(* reader compute: each is a recursion over a sequence, and what it keeps  *)
(* is shown step by step.                                                  *)
(***************************************************************************)
EXTENDS RxPipeline, SequenceTheorems, FiniteSetTheorems, WellFoundedInduction, TLAPS

-----------------------------------------------------------------------------
(* Recursion over a sequence *)

\* A set of naturals that is not empty has a least element.
LEMMA LeastNat ==
  ASSUME NEW T, T \subseteq Nat, T # {}
  PROVE  \E x \in T : \A y \in T : x <= y
<1> DEFINE R == {r \in Nat \X Nat : r[1] < r[2]}
<1>1. IsWellFoundedOn(R, Nat)
  BY NatLessThanWellFounded, Zenon DEF OpToRel
<1>2. PICK x \in T : \A y \in T : ~(<<y, x>> \in R)
  BY <1>1, WFMin, Zenon
<1>3. ASSUME NEW y \in T, y < x PROVE <<y, x>> \in R
  BY <1>3
<1> HIDE DEF R
<1>4. \A y \in T : ~(y < x)
  BY <1>2, <1>3
<1> QED BY <1>4

\* A set with 0 that is closed under successor has every natural.
LEMMA NatSet ==
  ASSUME NEW T, 0 \in T, \A n \in Nat : n \in T => n + 1 \in T
  PROVE  Nat \subseteq T
<1>1. SUFFICES ASSUME Nat \ T # {} PROVE FALSE
  OBVIOUS
<1>2. PICK x \in Nat \ T : \A y \in Nat \ T : x <= y
  BY <1>1, LeastNat
<1> QED BY <1>2

\* The same below a bound.
LEMMA Steps ==
  ASSUME NEW N \in Nat, NEW T, 0 \in T, \A n \in 0..(N - 1) : n \in T => n + 1 \in T
  PROVE  0..N \subseteq T
<1> DEFINE U == {n \in Nat : n <= N => n \in T}
<1>1. 0 \in U
  OBVIOUS
<1>2. \A n \in Nat : n \in U => n + 1 \in U
  OBVIOUS
<1> HIDE DEF U
<1>3. Nat \subseteq U
  BY <1>1, <1>2, NatSet
<1> QED BY <1>3 DEF U

\* f is what the function G makes of base and the elements of a, one by one.
Solves(f, S, base, G, a) ==
  /\ f \in [0..Len(a) -> S] /\ f[0] = base
  /\ \A n \in 1..Len(a) : f[n] = G[<<f[n - 1], a[n]>>]

\* A recursion over a sequence has a solution.
LEMMA Recursion ==
  ASSUME NEW A, NEW S, NEW base \in S, NEW G \in [S \X A -> S], NEW a \in Seq(A)
  PROVE  \E f : Solves(f, S, base, G, a)
<1> DEFINE Good(f, n) == f \in [0..n -> S] /\ f[0] = base /\ \A k \in 1..n : f[k] = G[<<f[k - 1], a[k]>>]
           T == {n \in 0..Len(a) : \E f : Good(f, n)}
<1>1. 0 \in T
  <2>1. Good([n \in 0..0 |-> base], 0)
    OBVIOUS
  <2>2. \E f : Good(f, 0)
    BY <2>1, Zenon
  <2>3. 0 \in 0..Len(a)
    OBVIOUS
  <2> QED BY <2>2, <2>3, Zenon
<1>2. ASSUME NEW n \in 0..(Len(a) - 1), n \in T PROVE n + 1 \in T
  <2>1. PICK f : Good(f, n)
    BY <1>2
  <2>2. a[n + 1] \in A
    OBVIOUS
  <2> DEFINE g == [k \in 0..(n + 1) |-> IF k = n + 1 THEN G[<<f[n], a[n + 1]>>] ELSE f[k]]
  <2>3. G[<<f[n], a[n + 1]>>] \in S
    BY <2>1, <2>2
  <2>4. g \in [0..(n + 1) -> S] /\ g[0] = base
    BY <2>1, <2>3
  <2>6. g[n + 1] = G[<<f[n], a[n + 1]>>] /\ \A k \in 0..n : g[k] = f[k]
    OBVIOUS
  <2> HIDE DEF g
  <2>5. ASSUME NEW k \in 1..(n + 1) PROVE g[k] = G[<<g[k - 1], a[k]>>]
    <3>1. CASE k = n + 1
      <4>1. g[n] = f[n]
        BY <2>6
      <4> QED BY <3>1, <2>6, <4>1
    <3>2. CASE k # n + 1
      <4>1. k \in 1..n /\ k - 1 \in 0..n /\ k \in 0..n
        BY <3>2
      <4>2. g[k] = f[k] /\ g[k - 1] = f[k - 1]
        BY <4>1, <2>6
      <4> QED BY <4>1, <4>2, <2>1
    <3> QED BY <3>1, <3>2
  <2>7. \E h : Good(h, n + 1)
    BY <2>4, <2>5
  <2> QED BY <2>7
<1> HIDE DEF T
<1>3. Len(a) \in T
  <2>1. Len(a) \in Nat /\ Len(a) \in 0..Len(a)
    OBVIOUS
  <2>2. 0..Len(a) \subseteq T
    BY <1>1, <1>2, <2>1, Steps, Zenon
  <2> QED BY <2>1, <2>2
<1>4. PICK f : Good(f, Len(a))
  BY <1>3 DEF T
<1> QED BY <1>4 DEF Solves

\* f is the recursion of FlattenSeq for s.
Flattens(f, s, A) ==
  /\ f \in [1..Len(s) -> Seq(A)]
  /\ f[1] = s[1] /\ \A n \in 2..Len(s) : f[n] = f[n - 1] \o s[n]
  /\ FlattenSeq(s) = f[Len(s)]

\* Flattening is a recursion over the sequences: one more adds its elements.
LEMMA FlattenSteps ==
  ASSUME NEW A, NEW s \in Seq(Seq(A)), s # <<>>
  PROVE  Len(s) > 0 /\ \E f : Flattens(f, s, A)
<1> DEFINE B == Seq(A)
           G == [x \in B \X B |-> x[1] \o x[2]]
           f == CHOOSE g : g = [i \in 1..Len(s) |-> IF i = 1 THEN s[i] ELSE g[i - 1] \o s[i]]
<1>0. Len(s) > 0 /\ Len(s) \in Nat
  OBVIOUS
<1>1. FlattenSeq(s) = f[Len(s)]
  BY <1>0 DEF FlattenSeq
<1> HIDE DEF f
<1>2. G \in [B \X B -> B] /\ s \in Seq(B) /\ <<>> \in B
  OBVIOUS
<1>3. PICK d : Solves(d, B, <<>>, G, s)
  <2> HIDE DEF G, B
  <2> QED BY <1>2, Recursion, Zenon
<1> DEFINE e == [n \in 1..Len(s) |-> d[n]]
<1>5. /\ d[0] = <<>> /\ \A n \in 1..Len(s) : d[n] = G[<<d[n - 1], s[n]>>]
      /\ \A n \in 0..Len(s) : d[n] \in B
  <2> HIDE DEF G, B
  <2> QED BY <1>3 DEF Solves
<1>6. \A n \in 1..Len(s) : s[n] \in B
  OBVIOUS
<1>61. \A x, y \in B : G[<<x, y>>] = x \o y
  OBVIOUS
<1>62. <<>> \in B /\ \A x \in B : <<>> \o x = x
  OBVIOUS
<1>63. \A x, y \in B : x \o y \in B
  OBVIOUS
<1> HIDE DEF G, B
<1>4. e \in [1..Len(s) -> B]
  BY <1>5
<1>7. e[1] = s[1]
  <2>1. 1 \in 1..Len(s) /\ 1 - 1 = 0
    BY <1>0
  <2>2. d[1] = G[<<d[0], s[1]>>]
    BY <2>1, <1>5
  <2>3. d[1] = s[1]
    BY <2>1, <2>2, <1>5, <1>6, <1>61, <1>62
  <2> QED BY <2>1, <2>3
<1>8. ASSUME NEW n \in 2..Len(s) PROVE e[n] = e[n - 1] \o s[n]
  <2>1. n - 1 \in 1..Len(s) /\ n \in 1..Len(s) /\ n - 1 \in 0..Len(s)
    OBVIOUS
  <2>2. d[n] = d[n - 1] \o s[n]
    BY <2>1, <1>5, <1>6, <1>61
  <2> QED BY <2>1, <2>2
<1>9. e = [i \in 1..Len(s) |-> IF i = 1 THEN s[i] ELSE e[i - 1] \o s[i]]
  <2>1. DOMAIN e = 1..Len(s) /\ e = [i \in 1..Len(s) |-> e[i]]
    BY <1>4
  <2> HIDE DEF e
  <2>2. \A i \in 1..Len(s) : i # 1 => i \in 2..Len(s)
    OBVIOUS
  <2>3. \A i \in 1..Len(s) : e[i] = IF i = 1 THEN s[i] ELSE e[i - 1] \o s[i]
    BY <2>2, <1>7, <1>8
  <2> QED BY <2>1, <2>3
<1>10. f = [i \in 1..Len(s) |-> IF i = 1 THEN s[i] ELSE f[i - 1] \o s[i]]
  <2> HIDE DEF e
  <2> QED BY <1>9, Zenon DEF f
<1>11. DOMAIN f = 1..Len(s) /\ f[1] = s[1] /\ \A n \in 2..Len(s) : f[n] = f[n - 1] \o s[n]
  <2>1. 1 \in 1..Len(s) /\ \A n \in 2..Len(s) : n \in 1..Len(s) /\ n # 1
    BY <1>0
  <2> QED BY <1>10, <2>1, Zenon
<1> DEFINE T == {n \in 0..Len(s) : n > 0 => f[n] \in B}
<1>12. 0..Len(s) \subseteq T
  <2>1. 0 \in T
    BY <1>0
  <2>2. ASSUME NEW n \in 0..(Len(s) - 1), n \in T PROVE n + 1 \in T
    <3>1. CASE n = 0
      BY <3>1, <1>11, <1>6, <1>0
    <3>2. CASE n # 0
      <4>1. n + 1 \in 2..Len(s) /\ n + 1 \in 1..Len(s) /\ n + 1 - 1 = n /\ n > 0 /\ n + 1 \in 0..Len(s)
        BY <3>2
      <4>2. f[n] \in B
        BY <2>2, <4>1
      <4> HIDE DEF T
      <4> DEFINE m == n + 1
      <4>21. m \in 2..Len(s) /\ m \in 1..Len(s) /\ m - 1 = n
        BY <4>1
      <4> HIDE DEF m
      <4>22. f[m] = f[n] \o s[m] /\ s[m] \in B
        BY <4>21, <1>11, <1>6
      <4>3. f[n + 1] = f[n] \o s[n + 1] /\ s[n + 1] \in B
        BY <4>22 DEF m
      <4>4. f[n + 1] \in B
        BY <4>2, <4>3, <1>63
      <4> QED BY <4>1, <4>4 DEF T
    <3> QED BY <3>1, <3>2
  <2> HIDE DEF T
  <2> QED BY <2>1, <2>2, <1>0, Steps, Zenon
<1>13. f \in [1..Len(s) -> B]
  <2>1. \A n \in 1..Len(s) : n \in 0..Len(s) /\ n > 0
    BY <1>0
  <2>2. \A n \in 1..Len(s) : f[n] \in B
    BY <1>12, <2>1
  <2>3. f = [i \in 1..Len(s) |-> f[i]]
    BY <1>10
  <2> HIDE DEF T
  <2> QED BY <2>2, <2>3
<1> QED BY <1>0, <1>1, <1>11, <1>13 DEF Flattens, B

\* A flattened sequence of sequences has the elements of these.
LEMMA FlattenType ==
  ASSUME NEW A, NEW s \in Seq(Seq(A))
  PROVE  FlattenSeq(s) \in Seq(A) /\ (s = <<>> => FlattenSeq(s) = <<>>)
<1>1. CASE s = <<>>
  BY <1>1 DEF FlattenSeq
<1>2. CASE s # <<>>
  <2>1. PICK f : Len(s) > 0 /\ Flattens(f, s, A)
    BY <1>2, FlattenSteps, Zenon
  <2>2. Len(s) \in 1..Len(s)
    BY <2>1
  <2> QED BY <1>2, <2>1, <2>2 DEF Flattens
<1> QED BY <1>1, <1>2

\* One more sequence at the end adds its elements at the end.
LEMMA FlattenAppend ==
  ASSUME NEW A, NEW s \in Seq(Seq(A)), NEW x \in Seq(A)
  PROVE  FlattenSeq(Append(s, x)) = FlattenSeq(s) \o x
<1> DEFINE B == Seq(A)
           t == Append(s, x)
<1>0. s \in Seq(B) /\ x \in B /\ Len(s) \in Nat /\ <<>> \in B /\ \A y \in B : <<>> \o y = y
  OBVIOUS
<1> HIDE DEF B
<1>1. /\ t \in Seq(B) /\ Len(t) = Len(s) + 1 /\ t[Len(s) + 1] = x /\ t # <<>>
      /\ \A n \in 1..Len(s) : t[n] = s[n] /\ s[n] \in B
  BY <1>0
<1> HIDE DEF t
<1>2. PICK f : Flattens(f, t, A)
  BY <1>1, FlattenSteps, Zenon DEF B
<1>21. /\ f[1] = t[1] /\ \A n \in 2..Len(t) : f[n] = f[n - 1] \o t[n]
       /\ FlattenSeq(t) = f[Len(t)] /\ \A n \in 1..Len(t) : f[n] \in B
  BY <1>2 DEF Flattens, B
<1>3. CASE s = <<>>
  <2>1. FlattenSeq(s) = <<>>
    BY <1>3, FlattenType
  <2>2. FlattenSeq(t) = x
    BY <1>1, <1>21, <1>3
  <2> QED BY <2>1, <2>2, <1>0 DEF t
<1>4. CASE s # <<>>
  <2>1. PICK g : Len(s) > 0 /\ Flattens(g, s, A)
    BY <1>4, FlattenSteps, Zenon
  <2>2. /\ g[1] = s[1] /\ \A n \in 2..Len(s) : g[n] = g[n - 1] \o s[n]
        /\ FlattenSeq(s) = g[Len(s)]
    BY <2>1 DEF Flattens
  <2> DEFINE T == {n \in 0..Len(s) : n > 0 => f[n] = g[n]}
  <2>3. 0 \in T
    BY <1>0
  <2>4. ASSUME NEW n \in 0..(Len(s) - 1), n \in T PROVE n + 1 \in T
    <3>1. CASE n = 0
      BY <3>1, <1>1, <1>21, <2>1, <2>2
    <3>2. CASE n # 0
      <4>1. n + 1 \in 2..Len(s) /\ n + 1 \in 2..Len(t) /\ n + 1 - 1 = n /\ n + 1 \in 1..Len(s) /\ n + 1 \in 0..Len(s)
        BY <3>2, <1>1
      <4>2. f[n] = g[n]
        BY <2>4, <3>2
      <4> HIDE DEF T
      <4> DEFINE m == n + 1
      <4>21. m \in 2..Len(s) /\ m \in 2..Len(t) /\ m \in 1..Len(s) /\ m - 1 = n
        BY <4>1
      <4> HIDE DEF m
      <4>22. f[m] = f[n] \o t[m] /\ g[m] = g[n] \o s[m] /\ t[m] = s[m]
        BY <4>21, <1>1, <1>21, <2>2
      <4>3. f[n + 1] = f[n] \o t[n + 1] /\ g[n + 1] = g[n] \o s[n + 1] /\ t[n + 1] = s[n + 1]
        BY <4>22 DEF m
      <4>4. f[n + 1] = g[n + 1]
        BY <4>2, <4>3, Zenon
      <4> QED BY <4>1, <4>4 DEF T
    <3> QED BY <3>1, <3>2
  <2> HIDE DEF T
  <2>5. 0..Len(s) \subseteq T
    BY <2>3, <2>4, <1>0, Steps, Zenon
  <2>51. Len(s) \in 0..Len(s) /\ Len(s) > 0 /\ Len(t) \in 2..Len(t) /\ Len(t) - 1 = Len(s)
    BY <1>0, <1>1, <2>1
  <2>6. f[Len(s)] = g[Len(s)]
    BY <2>51, <2>5 DEF T
  <2>7. f[Len(t)] = f[Len(s)] \o x
    <3>1. f[Len(t)] = f[Len(t) - 1] \o t[Len(t)] /\ t[Len(t)] = x
      BY <1>1, <1>21, <2>51
    <3> QED BY <3>1, <2>51
  <2> QED BY <1>21, <2>2, <2>6, <2>7, Zenon DEF t
<1> QED BY <1>3, <1>4

\* Appending after concatenating.
LEMMA ConcatAppend ==
  ASSUME NEW B, NEW s \in Seq(B), NEW p \in Seq(B), NEW x \in B
  PROVE  s \o Append(p, x) = Append(s \o p, x)
OBVIOUS

\* Flattening goes part by part.
LEMMA FlattenConcat ==
  ASSUME NEW A, NEW s \in Seq(Seq(A)), NEW t \in Seq(Seq(A))
  PROVE  FlattenSeq(s \o t) = FlattenSeq(s) \o FlattenSeq(t)
<1> DEFINE B == Seq(A)
           part(n) == SubSeq(t, 1, n)
           T == {n \in 0..Len(t) : FlattenSeq(s \o part(n)) = FlattenSeq(s) \o FlattenSeq(part(n))}
<1>0. s \in Seq(B) /\ t \in Seq(B) /\ Len(t) \in Nat
  OBVIOUS
<1>01. \A r \in Seq(B) : FlattenSeq(r) \in B
  BY FlattenType
<1>02. \A r \in Seq(B), x \in B : FlattenSeq(Append(r, x)) = FlattenSeq(r) \o x
  BY FlattenAppend
<1>03. \A x \in B : x \o <<>> = x
  OBVIOUS
<1>04. \A x, y, z \in B : (x \o y) \o z = x \o (y \o z)
  BY SMTT(30)
<1>05. FlattenSeq(<<>>) = <<>>
  BY DEF FlattenSeq
<1> HIDE DEF B
<1>1. 0 \in T
  <2>1. part(0) = <<>> /\ s \o <<>> = s
    BY <1>0
  <2>2. FlattenSeq(s) \o <<>> = FlattenSeq(s)
    BY <1>0, <1>01, <1>03
  <2>3. FlattenSeq(s \o part(0)) = FlattenSeq(s) \o FlattenSeq(part(0))
    BY <2>1, <2>2, <1>05, Zenon
  <2>4. 0 \in 0..Len(t)
    BY <1>0
  <2> QED BY <2>3, <2>4, Zenon
<1>2. ASSUME NEW n \in 0..(Len(t) - 1), n \in T PROVE n + 1 \in T
  <2>1. part(n + 1) = Append(part(n), t[n + 1]) /\ part(n) \in Seq(B) /\ t[n + 1] \in B
    BY <1>0
  <2>11. FlattenSeq(s \o part(n)) = FlattenSeq(s) \o FlattenSeq(part(n))
    BY <1>2
  <2> HIDE DEF T
  <2>2. s \o part(n + 1) = Append(s \o part(n), t[n + 1]) /\ s \o part(n) \in Seq(B)
    <3> HIDE DEF part
    <3>1. s \o part(n) \in Seq(B)
      BY <1>0, <2>1
    <3>2. s \o Append(part(n), t[n + 1]) = Append(s \o part(n), t[n + 1])
      BY SMTT(30), <1>0, <2>1, ConcatAppend
    <3> QED BY <2>1, <3>1, <3>2
  <2> HIDE DEF part
  <2>3. FlattenSeq(s \o part(n + 1)) = FlattenSeq(s \o part(n)) \o t[n + 1]
    BY <2>1, <2>2, <1>02
  <2>4. FlattenSeq(part(n + 1)) = FlattenSeq(part(n)) \o t[n + 1]
    BY <2>1, <1>02
  <2>5. FlattenSeq(s) \in B /\ FlattenSeq(part(n)) \in B
    BY <1>0, <2>1, <1>01
  <2>6. (FlattenSeq(s) \o FlattenSeq(part(n))) \o t[n + 1] = FlattenSeq(s) \o (FlattenSeq(part(n)) \o t[n + 1])
    BY <2>1, <2>5, <1>04
  <2>7. FlattenSeq(s \o part(n + 1)) = FlattenSeq(s) \o FlattenSeq(part(n + 1))
    BY <2>11, <2>3, <2>4, <2>6, Zenon
  <2>8. n + 1 \in 0..Len(t)
    BY <1>0
  <2> QED BY <2>7, <2>8 DEF T
<1>3. part(Len(t)) = t
  BY <1>0
<1> HIDE DEF T
<1>4. 0..Len(t) \subseteq T
  BY <1>0, <1>1, <1>2, Steps, Zenon
<1>5. Len(t) \in T
  BY <1>0, <1>4
<1> HIDE DEF part
<1> QED BY <1>3, <1>5 DEF T

-----------------------------------------------------------------------------
(* The reader *)

\* One byte more: the lines and the rest are still all there is.
LEMMA SplitAtIs ==
  ASSUME NEW part \in [lines : Seq(Line), rest : Line], NEW b \in Bytes, NEW w
  PROVE  /\ SplitAt(part, b, w) \in [lines : Seq(Line), rest : Line]
         /\ FlattenSeq(SplitAt(part, b, w).lines) \o SplitAt(part, b, w).rest
              = Append(FlattenSeq(part.lines) \o part.rest, b)
<1> DEFINE ls == part.lines
           r  == part.rest
           rb == Append(r, b)
<1>1. ls \in Seq(Line) /\ r \in Line /\ rb \in Line
  BY DEF Line
<1>2. FlattenSeq(ls) \in Line
  BY <1>1, FlattenType DEF Line
<1>3. FlattenSeq(Append(ls, rb)) = FlattenSeq(ls) \o rb
  BY <1>1, FlattenAppend DEF Line
<1>4. FlattenSeq(ls) \o rb = Append(FlattenSeq(ls) \o r, b)
  BY <1>1, <1>2, ConcatAppend DEF Line
<1>5. CASE w[b] = "lf"
  <2>1. SplitAt(part, b, w) = [lines |-> Append(ls, rb), rest |-> <<>>]
    BY <1>5 DEF SplitAt
  <2> HIDE DEF ls, r, rb
  <2>2. Append(ls, rb) \in Seq(Line) /\ <<>> \in Line
    BY <1>1 DEF Line
  <2>3. (FlattenSeq(ls) \o rb) \o <<>> = FlattenSeq(ls) \o rb
    BY <1>1, <1>2 DEF Line
  <2>4. /\ SplitAt(part, b, w).lines = Append(ls, rb) /\ SplitAt(part, b, w).rest = <<>>
        /\ SplitAt(part, b, w) \in [lines : Seq(Line), rest : Line]
    BY <2>1, <2>2
  <2>5. FlattenSeq(SplitAt(part, b, w).lines) \o SplitAt(part, b, w).rest = Append(FlattenSeq(ls) \o r, b)
    BY <2>3, <2>4, <1>3, <1>4
  <2> QED BY <2>4, <2>5 DEF ls, r
<1>6. CASE w[b] # "lf"
  <2>1. SplitAt(part, b, w) = [lines |-> ls, rest |-> rb]
    BY <1>6 DEF SplitAt
  <2> HIDE DEF ls, r, rb
  <2>2. /\ SplitAt(part, b, w).lines = ls /\ SplitAt(part, b, w).rest = rb
        /\ SplitAt(part, b, w) \in [lines : Seq(Line), rest : Line]
    BY <2>1, <1>1
  <2>3. FlattenSeq(SplitAt(part, b, w).lines) \o SplitAt(part, b, w).rest = Append(FlattenSeq(ls) \o r, b)
    BY <2>2, <1>4
  <2> QED BY <2>2, <2>3 DEF ls, r
<1> QED BY <1>5, <1>6

\* The lines and the rest of a buffer are the buffer.
LEMMA SplitIs ==
  ASSUME NEW s \in Line, NEW w
  PROVE  /\ Split(s, w) \in [lines : Seq(Line), rest : Line]
         /\ FlattenSeq(Split(s, w).lines) \o Split(s, w).rest = s
<1> DEFINE S    == [lines : Seq(Line), rest : Line]
           base == [lines |-> <<>>, rest |-> <<>>]
           G    == [x \in S \X Bytes |-> SplitAt(x[1], x[2], w)]
           f    == CHOOSE p : p = [n \in 0..Len(s) |->
                     IF n = 0 THEN [lines |-> <<>>, rest |-> <<>>] ELSE SplitAt(p[n - 1], s[n], w)]
<1>1. base \in S /\ s \in Seq(Bytes) /\ Len(s) \in Nat
  BY DEF Line
<1>2. Split(s, w) = f[Len(s)]
  BY DEF Split
<1>3. ASSUME NEW p \in S, NEW b \in Bytes
      PROVE  /\ SplitAt(p, b, w) \in S
             /\ FlattenSeq(SplitAt(p, b, w).lines) \o SplitAt(p, b, w).rest
                  = Append(FlattenSeq(p.lines) \o p.rest, b)
  BY SplitAtIs
<1>4. G \in [S \X Bytes -> S]
  <2> HIDE DEF S
  <2> QED BY <1>3
<1>5. FlattenSeq(base.lines) \o base.rest = <<>>
  <2>1. FlattenSeq(<<>>) = <<>> /\ base.lines = <<>> /\ base.rest = <<>>
    BY DEF FlattenSeq
  <2> QED BY <2>1
<1> HIDE DEF S, f
<1>6. PICK d : Solves(d, S, base, G, s)
  <2> HIDE DEF G, base
  <2> QED BY <1>1, <1>4, Recursion, Zenon
<1>7. ASSUME NEW n \in 1..Len(s) PROVE d[n] = SplitAt(d[n - 1], s[n], w)
  <2>1. d[n - 1] \in S /\ s[n] \in Bytes /\ d[n] = G[<<d[n - 1], s[n]>>]
    <3> HIDE DEF G, base
    <3> QED BY <1>1, <1>6 DEF Solves
  <2> QED BY <2>1
<1> HIDE DEF G
<1>8. d = [n \in 0..Len(s) |-> IF n = 0 THEN [lines |-> <<>>, rest |-> <<>>] ELSE SplitAt(d[n - 1], s[n], w)]
  <2>1. d \in [0..Len(s) -> S] /\ d[0] = [lines |-> <<>>, rest |-> <<>>]
    BY <1>6 DEF Solves
  <2> QED BY <1>1, <1>7, <2>1
<1>9. f = [n \in 0..Len(s) |-> IF n = 0 THEN [lines |-> <<>>, rest |-> <<>>] ELSE SplitAt(f[n - 1], s[n], w)]
  BY <1>8, Zenon DEF f
<1>10. f[0] = base /\ \A n \in 1..Len(s) : f[n] = SplitAt(f[n - 1], s[n], w)
  <2>1. 0 \in 0..Len(s) /\ \A n \in 1..Len(s) : n \in 0..Len(s) /\ n # 0
    BY <1>1
  <2> QED BY <1>9, <2>1, Zenon
<1> HIDE DEF base
<1> DEFINE T == {n \in 0..Len(s) :
                   f[n] \in S /\ FlattenSeq(f[n].lines) \o f[n].rest = SubSeq(s, 1, n)}
<1>11. 0 \in T
  <2>1. 0 \in 0..Len(s) /\ SubSeq(s, 1, 0) = <<>>
    BY <1>1
  <2> QED BY <2>1, <1>1, <1>5, <1>10, Zenon
<1>12. ASSUME NEW n \in 0..(Len(s) - 1), n \in T PROVE n + 1 \in T
  <2> DEFINE m == n + 1
  <2>1. m \in 1..Len(s) /\ m - 1 = n /\ s[m] \in Bytes /\ SubSeq(s, 1, m) = Append(SubSeq(s, 1, n), s[m])
    BY <1>1
  <2>2. f[n] \in S /\ FlattenSeq(f[n].lines) \o f[n].rest = SubSeq(s, 1, n)
    BY <1>12
  <2> HIDE DEF T, m
  <2>3. f[m] = SplitAt(f[n], s[m], w)
    BY <1>10, <2>1
  <2>4. f[m] \in S /\ FlattenSeq(f[m].lines) \o f[m].rest = Append(FlattenSeq(f[n].lines) \o f[n].rest, s[m])
    BY <1>3, <2>1, <2>2, <2>3, Zenon
  <2>5. /\ m \in 0..Len(s) /\ f[m] \in S
        /\ FlattenSeq(f[m].lines) \o f[m].rest = SubSeq(s, 1, m)
    <3>1. m \in 0..Len(s)
      BY <1>1, <2>1
    <3> QED BY <3>1, <2>1, <2>2, <2>4, Zenon
  <2>6. m \in T
    BY <2>5, Zenon DEF T
  <2> QED BY <2>6 DEF m
<1> HIDE DEF T
<1>13. Len(s) \in T
  <2>1. 0..Len(s) \subseteq T
    BY <1>1, <1>11, <1>12, Steps, Zenon
  <2> QED BY <1>1, <2>1
<1>14. SubSeq(s, 1, Len(s)) = s
  BY <1>1
<1> QED BY <1>2, <1>13, <1>14 DEF T, S

\* Whole pieces fit into a length.
LEMMA PieceBounds ==
  ASSUME NEW n \in Nat, NEW m \in Nat \ {0}
  PROVE  /\ n \div m \in Nat /\ (n \div m) * m \in 0..n
         /\ \A k \in 0..(n \div m) : k * m \in 0..n
         /\ \A k \in 0..(n \div m - 1) : k * m + m = (k + 1) * m
<1>1. n \div m \in Nat
  OBVIOUS
<1>2. (n \div m) * m \in 0..n
  OBVIOUS
<1> DEFINE q == n \div m
<1> HIDE DEF q
<1>3. ASSUME NEW k \in 0..q PROVE k * m \in 0..n
  <2>1. q \in Nat /\ q * m \in 0..n
    BY <1>1, <1>2 DEF q
  <2>2. q - k \in Nat /\ k \in Nat
    BY <2>1
  <2>3. (q - k) * m \in Nat /\ k * m \in Nat
    BY <2>2
  <2>4. q * m = (q - k) * m + k * m
    BY <2>1, <2>2
  <2> QED BY <2>1, <2>3, <2>4
<1>4. ASSUME NEW k \in 0..(q - 1) PROVE k * m + m = (k + 1) * m
  BY <1>1 DEF q
<1> QED BY <1>1, <1>2, <1>3, <1>4 DEF q

\* The pieces and what is left of a rest are the rest.
LEMMA PiecesIs ==
  ASSUME NEW s \in Line
  PROVE  /\ Pieces(s) \in Seq(Line) /\ Left(s) \in Line
         /\ FlattenSeq(Pieces(s)) \o Left(s) = s
<1> DEFINE M == MaxLine
           q == Len(s) \div M
           P == Pieces(s)
<1>1. s \in Seq(Bytes) /\ Len(s) \in Nat /\ M \in Nat \ {0}
  BY BoundsAssumption DEF Line
<1>2. /\ q \in Nat /\ q * M \in 0..Len(s) /\ \A k \in 0..q : k * M \in 0..Len(s)
      /\ \A k \in 0..(q - 1) : k * M + M = (k + 1) * M
  <2> HIDE DEF M
  <2> QED BY <1>1, PieceBounds
<1>3. P = [k \in 1..q |-> SubSeq(s, (k - 1) * M + 1, k * M)] /\ Left(s) = SubSeq(s, q * M + 1, Len(s))
  BY DEF Pieces, Left
<1> HIDE DEF M, q, P
<1>4. ASSUME NEW k \in 0..(q - 1)
      PROVE  /\ P[k + 1] = SubSeq(s, k * M + 1, (k + 1) * M) /\ P[k + 1] \in Line
             /\ SubSeq(s, 1, k * M) \o P[k + 1] = SubSeq(s, 1, (k + 1) * M)
  <2> DEFINE a == k * M
             b == (k + 1) * M
  <2>1. k + 1 \in 1..q /\ k + 1 - 1 = k /\ k \in 0..q /\ k + 1 \in 0..q
    BY <1>2
  <2>2. a \in 0..Len(s) /\ b \in 0..Len(s) /\ a + M = b
    BY <1>2, <2>1
  <2>3. P[k + 1] = SubSeq(s, a + 1, b)
    <3> DEFINE m == k + 1
    <3>1. m \in 1..q /\ m - 1 = k /\ b = m * M
      BY <2>1
    <3> HIDE DEF m, b
    <3>2. P[m] = SubSeq(s, (m - 1) * M + 1, m * M)
      BY <1>3, <3>1, Zenon
    <3>3. P[m] = SubSeq(s, a + 1, b)
      BY <3>1, <3>2, Zenon
    <3> QED BY <3>3 DEF m
  <2> HIDE DEF a, b
  <2>4. 1 \in 1..(Len(s) + 1) /\ a \in (1 - 1)..Len(s) /\ b \in a..Len(s)
    BY <1>1, <2>2
  <2>5. SubSeq(s, 1, a) \o SubSeq(s, a + 1, b) = SubSeq(s, 1, b)
    BY <1>1, <2>4, ConcatAdjacentSubSeq
  <2>6. SubSeq(s, a + 1, b) \in Line
    BY <1>1, <2>2 DEF Line
  <2> QED BY <2>3, <2>5, <2>6 DEF a, b
<1>5. P \in Seq(Line) /\ Len(P) = q
  <2>1. \A k \in 1..q : k - 1 \in 0..(q - 1) /\ k - 1 + 1 = k
    BY <1>2
  <2>2. \A k \in 1..q : P[k] \in Line
    BY <1>4, <2>1
  <2>3. P = [k \in 1..q |-> P[k]]
    BY <1>3
  <2>4. P \in [1..q -> Line]
    BY <2>2, <2>3
  <2> QED BY <1>2, <2>4
<1> DEFINE T == {k \in 0..q : FlattenSeq(SubSeq(P, 1, k)) = SubSeq(s, 1, k * M)}
<1>6. 0 \in T
  <2>1. SubSeq(P, 1, 0) = <<>> /\ 0 * M = 0 /\ SubSeq(s, 1, 0) = <<>> /\ 0 \in 0..q
    BY <1>1, <1>2, <1>5
  <2>2. FlattenSeq(<<>>) = <<>>
    BY DEF FlattenSeq
  <2> QED BY <2>1, <2>2
<1>7. ASSUME NEW k \in 0..(q - 1), k \in T PROVE k + 1 \in T
  <2>1. SubSeq(P, 1, k + 1) = Append(SubSeq(P, 1, k), P[k + 1]) /\ SubSeq(P, 1, k) \in Seq(Line)
    BY <1>2, <1>5
  <2>2. FlattenSeq(SubSeq(P, 1, k)) = SubSeq(s, 1, k * M)
    BY <1>7
  <2>3. FlattenSeq(SubSeq(P, 1, k + 1)) = FlattenSeq(SubSeq(P, 1, k)) \o P[k + 1]
    <3>1. P[k + 1] \in Line
      BY <1>4
    <3> QED BY <2>1, <3>1, FlattenAppend DEF Line
  <2>4. FlattenSeq(SubSeq(P, 1, k + 1)) = SubSeq(s, 1, (k + 1) * M)
    BY <1>4, <2>2, <2>3
  <2>5. k + 1 \in 0..q
    BY <1>2
  <2> QED BY <2>4, <2>5
<1> HIDE DEF T
<1>8. FlattenSeq(P) = SubSeq(s, 1, q * M)
  <2>1. 0..q \subseteq T
    BY <1>2, <1>6, <1>7, Steps, Zenon
  <2>2. q \in T /\ SubSeq(P, 1, q) = P
    BY <1>2, <1>5, <2>1
  <2> QED BY <2>2 DEF T
<1>9. SubSeq(s, 1, q * M) \o SubSeq(s, q * M + 1, Len(s)) = s /\ Left(s) \in Line
  <2> DEFINE a == q * M
  <2>1. a \in 0..Len(s)
    BY <1>2
  <2>2. Left(s) = SubSeq(s, a + 1, Len(s))
    BY <1>3
  <2> HIDE DEF a
  <2>3. 1 \in 1..(Len(s) + 1) /\ a \in (1 - 1)..Len(s) /\ Len(s) \in a..Len(s)
    BY <1>1, <2>1
  <2>4. SubSeq(s, 1, a) \o SubSeq(s, a + 1, Len(s)) = SubSeq(s, 1, Len(s))
    BY <1>1, <2>3, ConcatAdjacentSubSeq
  <2>5. SubSeq(s, 1, Len(s)) = s /\ SubSeq(s, a + 1, Len(s)) \in Line
    BY <1>1, <2>1 DEF Line
  <2> QED BY <2>2, <2>4, <2>5 DEF a
<1>10. FlattenSeq(P) \o Left(s) = s
  BY <1>3, <1>8, <1>9
<1> QED BY <1>5, <1>9, <1>10 DEF P

\* A line that is not empty.
Full(ls) == \A i \in 1..Len(ls) : ls[i] # <<>>

\* One raw line more: it is in the batch or in the carry.
LEMMA TakesIs ==
  ASSUME NEW done \in [batch : Seq(Line), carry : Line], NEW r \in Line, NEW w, Full(done.batch)
  PROVE  /\ Takes(done, r, w) \in [batch : Seq(Line), carry : Line]
         /\ Full(Takes(done, r, w).batch)
         /\ FlattenSeq(Takes(done, r, w).batch) \o Takes(done, r, w).carry
              = (FlattenSeq(done.batch) \o done.carry) \o r
<1> DEFINE ls == done.batch
           c  == done.carry
           cr == c \o r
<1>1. ls \in Seq(Line) /\ c \in Line /\ cr \in Line
  BY DEF Line
<1>2. FlattenSeq(ls) \in Line
  BY <1>1, FlattenType DEF Line
<1>3. FlattenSeq(Append(ls, cr)) = FlattenSeq(ls) \o cr
  BY <1>1, FlattenAppend DEF Line
<1>4. FlattenSeq(ls) \o cr = (FlattenSeq(ls) \o c) \o r
  BY <1>1, <1>2 DEF Line
<1>5. CASE ~Blank(r, w)
  <2>1. Takes(done, r, w) = [batch |-> Append(ls, cr), carry |-> <<>>]
    BY <1>5 DEF Takes
  <2>2. r # <<>>
    BY <1>5 DEF Blank
  <2>3. cr # <<>>
    BY <1>1, <2>2 DEF Line
  <2>31. Full(ls)
    OBVIOUS
  <2> HIDE DEF ls, c, cr
  <2>4. Append(ls, cr) \in Seq(Line) /\ <<>> \in Line /\ Full(Append(ls, cr))
    <3>1. Append(ls, cr) \in Seq(Line) /\ <<>> \in Line
      BY <1>1 DEF Line
    <3>2. Full(Append(ls, cr))
      BY <1>1, <2>3, <2>31 DEF Full
    <3> QED BY <3>1, <3>2
  <2>5. (FlattenSeq(ls) \o cr) \o <<>> = FlattenSeq(ls) \o cr
    BY <1>1, <1>2 DEF Line
  <2>6. /\ Takes(done, r, w).batch = Append(ls, cr) /\ Takes(done, r, w).carry = <<>>
        /\ Takes(done, r, w) \in [batch : Seq(Line), carry : Line]
    BY <2>1, <2>4
  <2>7. FlattenSeq(Takes(done, r, w).batch) \o Takes(done, r, w).carry = (FlattenSeq(ls) \o c) \o r
    BY <2>5, <2>6, <1>3, <1>4
  <2> QED BY <2>4, <2>6, <2>7 DEF ls, c
<1>6. CASE Blank(r, w)
  <2>1. Takes(done, r, w) = [batch |-> ls, carry |-> cr]
    BY <1>6 DEF Takes
  <2>2. Full(ls)
    OBVIOUS
  <2> HIDE DEF ls, c, cr
  <2>3. /\ Takes(done, r, w).batch = ls /\ Takes(done, r, w).carry = cr
        /\ Takes(done, r, w) \in [batch : Seq(Line), carry : Line]
    BY <2>1, <1>1
  <2>4. FlattenSeq(Takes(done, r, w).batch) \o Takes(done, r, w).carry = (FlattenSeq(ls) \o c) \o r
    BY <2>3, <1>4
  <2> QED BY <2>2, <2>3, <2>4 DEF ls, c
<1> QED BY <1>5, <1>6

\* The batch and the carry are the carry before and the raw lines.
LEMMA DeliveredIs ==
  ASSUME NEW raws \in Seq(Line), NEW w, carry \in Line
  PROVE  /\ Delivered(raws, w) \in [batch : Seq(Line), carry : Line]
         /\ Full(Delivered(raws, w).batch)
         /\ FlattenSeq(Delivered(raws, w).batch) \o Delivered(raws, w).carry
              = carry \o FlattenSeq(raws)
<1> DEFINE S    == [batch : Seq(Line), carry : Line]
           base == [batch |-> <<>>, carry |-> carry]
           G    == [x \in S \X Line |-> Takes(x[1], x[2], w)]
           f    == CHOOSE p : p = [n \in 0..Len(raws) |->
                     IF n = 0 THEN [batch |-> <<>>, carry |-> carry] ELSE Takes(p[n - 1], raws[n], w)]
           Sum(p) == FlattenSeq(p.batch) \o p.carry
<1>1. base \in S /\ Len(raws) \in Nat
  OBVIOUS
<1>2. Delivered(raws, w) = f[Len(raws)]
  BY DEF Delivered
<1>3. ASSUME NEW p \in S, NEW r \in Line, Full(p.batch)
      PROVE  Takes(p, r, w) \in S /\ Full(Takes(p, r, w).batch) /\ Sum(Takes(p, r, w)) = Sum(p) \o r
  BY <1>3, TakesIs
<1>31. ASSUME NEW p \in S, NEW r \in Line PROVE Takes(p, r, w) \in S
  <2>1. p.batch \in Seq(Line) /\ p.carry \in Line
    OBVIOUS
  <2>2. p.carry \o r \in Line
    BY <2>1 DEF Line
  <2>3. Append(p.batch, p.carry \o r) \in Seq(Line) /\ <<>> \in Line
    BY <2>1, <2>2 DEF Line
  <2> QED BY <2>1, <2>2, <2>3 DEF Takes
<1>4. G \in [S \X Line -> S]
  <2> HIDE DEF S
  <2> QED BY <1>31
<1>5. Sum(base) = carry /\ Full(base.batch)
  <2>1. FlattenSeq(<<>>) = <<>> /\ base.batch = <<>> /\ base.carry = carry
    BY DEF FlattenSeq
  <2>2. <<>> \o carry = carry
    BY DEF Line
  <2>3. Full(base.batch)
    BY <2>1 DEF Full
  <2>4. Sum(base) = carry
    BY <2>1, <2>2, Zenon
  <2> QED BY <2>3, <2>4
<1> HIDE DEF S, f
<1>6. PICK d : Solves(d, S, base, G, raws)
  <2> HIDE DEF G, base
  <2> QED BY <1>1, <1>4, Recursion, Zenon
<1>7. ASSUME NEW n \in 1..Len(raws) PROVE d[n] = Takes(d[n - 1], raws[n], w)
  <2>1. d[n - 1] \in S /\ raws[n] \in Line /\ d[n] = G[<<d[n - 1], raws[n]>>]
    <3> HIDE DEF G, base
    <3> QED BY <1>1, <1>6 DEF Solves
  <2> QED BY <2>1
<1> HIDE DEF G
<1>8. d = [n \in 0..Len(raws) |-> IF n = 0 THEN [batch |-> <<>>, carry |-> carry] ELSE Takes(d[n - 1], raws[n], w)]
  <2>1. d \in [0..Len(raws) -> S] /\ d[0] = [batch |-> <<>>, carry |-> carry]
    BY <1>6 DEF Solves
  <2> QED BY <1>1, <1>7, <2>1
<1>9. f = [n \in 0..Len(raws) |-> IF n = 0 THEN [batch |-> <<>>, carry |-> carry] ELSE Takes(f[n - 1], raws[n], w)]
  BY <1>8, Zenon DEF f
<1>10. f[0] = base /\ \A n \in 1..Len(raws) : f[n] = Takes(f[n - 1], raws[n], w)
  <2>1. 0 \in 0..Len(raws) /\ \A n \in 1..Len(raws) : n \in 0..Len(raws) /\ n # 0
    BY <1>1
  <2> QED BY <1>9, <2>1, Zenon
<1> DEFINE upto(n) == FlattenSeq(SubSeq(raws, 1, n))
           T == {n \in 0..Len(raws) :
                   f[n] \in S /\ Full(f[n].batch) /\ Sum(f[n]) = carry \o upto(n)}
<1> HIDE DEF base, Sum
<1>11. 0 \in T
  <2>1. 0 \in 0..Len(raws) /\ SubSeq(raws, 1, 0) = <<>>
    BY <1>1
  <2>2. FlattenSeq(<<>>) = <<>>
    BY DEF FlattenSeq
  <2>3. carry \o <<>> = carry
    BY DEF Line
  <2>4. carry \o upto(0) = carry
    BY <2>1, <2>2, <2>3, Zenon
  <2> HIDE DEF upto
  <2> QED BY <2>1, <2>4, <1>1, <1>5, <1>10, Zenon
<1>12. ASSUME NEW n \in 0..(Len(raws) - 1), n \in T PROVE n + 1 \in T
  <2> DEFINE m == n + 1
  <2>1. /\ m \in 1..Len(raws) /\ m \in 0..Len(raws) /\ m - 1 = n /\ raws[m] \in Line
        /\ SubSeq(raws, 1, m) = Append(SubSeq(raws, 1, n), raws[m]) /\ SubSeq(raws, 1, n) \in Seq(Line)
    BY <1>1
  <2>2. f[n] \in S /\ Full(f[n].batch) /\ Sum(f[n]) = carry \o upto(n)
    BY <1>12
  <2> HIDE DEF T, m
  <2>3. f[m] = Takes(f[n], raws[m], w)
    BY <1>10, <2>1
  <2>4. f[m] \in S /\ Full(f[m].batch) /\ Sum(f[m]) = Sum(f[n]) \o raws[m]
    BY <1>3, <2>1, <2>2, <2>3, Zenon
  <2>5. upto(m) = upto(n) \o raws[m] /\ upto(n) \in Line
    BY <2>1, FlattenAppend, FlattenType DEF Line
  <2> HIDE DEF upto
  <2>6. (carry \o upto(n)) \o raws[m] = carry \o (upto(n) \o raws[m])
    <3> DEFINE u == upto(n)
               r == raws[m]
    <3>1. u \in Line /\ r \in Line
      BY <2>1, <2>5
    <3> HIDE DEF u, r
    <3>2. (carry \o u) \o r = carry \o (u \o r)
      BY SMTT(30), <3>1 DEF Line
    <3> QED BY <3>2 DEF u, r
  <2>7. Sum(f[m]) = carry \o upto(m)
    BY <2>2, <2>4, <2>5, <2>6, Zenon
  <2>8. m \in T
    BY <2>1, <2>4, <2>7, Zenon DEF T
  <2> QED BY <2>8 DEF m
<1> HIDE DEF T
<1>13. Len(raws) \in T
  <2>1. 0..Len(raws) \subseteq T
    BY <1>1, <1>11, <1>12, Steps, Zenon
  <2> QED BY <1>1, <2>1
<1>14. upto(Len(raws)) = FlattenSeq(raws)
  <2>1. SubSeq(raws, 1, Len(raws)) = raws
    BY SubSeqFull
  <2> QED BY <2>1
<1> QED BY <1>2, <1>13, <1>14 DEF T, S, Sum

\* Flattening the first sequence and the others.
LEMMA FlattenHead ==
  ASSUME NEW A, NEW s \in Seq(Seq(A)), s # <<>>
  PROVE  FlattenSeq(s) = Head(s) \o FlattenSeq(Tail(s))
<1> DEFINE x == Head(s)
           t == Tail(s)
<1>1. x \in Seq(A) /\ t \in Seq(Seq(A)) /\ s = <<x>> \o t /\ <<x>> \in Seq(Seq(A))
  OBVIOUS
<1>2. FlattenSeq(<<x>>) = x
  <2>1. <<x>> = Append(<<>>, x) /\ <<>> \in Seq(Seq(A))
    OBVIOUS
  <2> HIDE DEF x, t
  <2>2. FlattenSeq(Append(<<>>, x)) = FlattenSeq(<<>>) \o x
    BY <1>1, <2>1, FlattenAppend
  <2>3. FlattenSeq(<<>>) = <<>> /\ <<>> \o x = x
    BY <1>1 DEF FlattenSeq
  <2> QED BY <2>1, <2>2, <2>3
<1> HIDE DEF x, t
<1>3. FlattenSeq(<<x>> \o t) = FlattenSeq(<<x>>) \o FlattenSeq(t)
  BY <1>1, FlattenConcat
<1>4. FlattenSeq(s) = x \o FlattenSeq(t)
  BY <1>1, <1>2, <1>3
<1> QED BY <1>4 DEF x, t

\* What is in one of the sequences is in what they are flattened to.
LEMMA FlattenHas ==
  ASSUME NEW A, NEW s \in Seq(Seq(A)), NEW k \in 1..Len(s), NEW q \in 1..Len(s[k])
  PROVE  \E p \in 1..Len(FlattenSeq(s)) : FlattenSeq(s)[p] = s[k][q]
<1> DEFINE a == SubSeq(s, 1, k - 1)
           t == SubSeq(s, k, Len(s))
           x == FlattenSeq(a)
           y == FlattenSeq(Tail(t))
           h == s[k]
           B == Seq(A)
<1>1. /\ a \in Seq(B) /\ t \in Seq(B) /\ s = a \o t /\ t # <<>> /\ Head(t) = h
      /\ Tail(t) \in Seq(B) /\ h \in B
  <2>1. s \in Seq(B)
    OBVIOUS
  <2> HIDE DEF B
  <2>2. /\ a \in Seq(B) /\ t \in Seq(B) /\ t # <<>> /\ Head(t) = h
        /\ Tail(t) \in Seq(B) /\ h \in B
    <3>1. a \in Seq(B) /\ h \in B
      BY <2>1
    <3>2. t \in Seq(B) /\ Len(t) = Len(s) - k + 1 /\ t[1] = s[k]
      <4>1. k \in Int /\ Len(s) \in Int /\ k <= Len(s)
        BY <2>1
      <4>2. \A i \in k..Len(s) : s[i] \in B
        BY <2>1
      <4>3. /\ t \in Seq(B) /\ Len(t) = IF k <= Len(s) THEN Len(s) - k + 1 ELSE 0
            /\ \A i \in 1..(Len(s) - k + 1) : t[i] = s[k + i - 1]
        BY <4>1, <4>2, SubSeqProperties
      <4>4. 1 \in 1..(Len(s) - k + 1) /\ k + 1 - 1 = k
        BY <4>1
      <4>5. t[1] = s[k + 1 - 1]
        BY <4>3, <4>4
      <4> HIDE DEF t
      <4> QED BY <4>1, <4>3, <4>4, <4>5
    <3>3. t # <<>>
      <4> HIDE DEF t
      <4> QED BY <3>2
    <3>4. Head(t) = t[1] /\ Tail(t) \in Seq(B)
      <4> HIDE DEF t
      <4> QED BY <3>2, <3>3
    <3> QED BY <3>1, <3>2, <3>3, <3>4
  <2>3. SubSeq(s, 1, k - 1) \o SubSeq(s, k - 1 + 1, Len(s)) = SubSeq(s, 1, Len(s))
    <3>1. 1 \in 1..(Len(s) + 1) /\ k - 1 \in (1 - 1)..Len(s) /\ Len(s) \in (k - 1)..Len(s)
      OBVIOUS
    <3> QED BY <2>1, <3>1, ConcatAdjacentSubSeq
  <2>4. SubSeq(s, 1, Len(s)) = s /\ k - 1 + 1 = k
    BY <2>1
  <2> QED BY <2>2, <2>3, <2>4
<1> HIDE DEF a, t
<1>2. FlattenSeq(s) = x \o (h \o y)
  <2>1. FlattenSeq(a \o t) = FlattenSeq(a) \o FlattenSeq(t)
    BY <1>1, FlattenConcat
  <2>2. FlattenSeq(t) = Head(t) \o FlattenSeq(Tail(t))
    BY <1>1, FlattenHead
  <2> QED BY <1>1, <2>1, <2>2
<1>3. x \in Seq(A) /\ y \in Seq(A)
  BY <1>1, FlattenType
<1>4. q \in 1..Len(h)
  OBVIOUS
<1> HIDE DEF x, y, h
<1>5. /\ Len(x) + q \in 1..Len(x \o (h \o y)) /\ (x \o (h \o y))[Len(x) + q] = h[q]
  BY SMTT(30), <1>1, <1>3, <1>4
<1>6. \E p \in 1..Len(FlattenSeq(s)) : FlattenSeq(s)[p] = h[q]
  BY <1>2, <1>5
<1> QED BY <1>6 DEF h

\* Bytes in the order they arrived.
Rising(s) == \A i, j \in 1..Len(s) : i < j => s[i] < s[j]

\* Two runs of bytes in order, one after the other.
LEMMA RisingConcat ==
  ASSUME NEW x \in Line, NEW y \in Line
  PROVE  /\ ToSet(x \o y) = ToSet(x) \cup ToSet(y)
         /\ Rising(x \o y) => Rising(x) /\ ToSet(x) \cap ToSet(y) = {}
         /\ Rising(x) /\ Rising(y) /\ (\A a \in ToSet(x), b \in ToSet(y) : a < b) => Rising(x \o y)
<1>1. /\ x \in Seq(Bytes) /\ y \in Seq(Bytes) /\ Len(x) \in Nat /\ Len(y) \in Nat
      /\ Len(x \o y) = Len(x) + Len(y)
      /\ \A i \in 1..Len(x) : (x \o y)[i] = x[i] /\ x[i] \in Bytes
      /\ \A i \in 1..Len(y) : (x \o y)[Len(x) + i] = y[i] /\ y[i] \in Bytes
      /\ \A i \in 1..(Len(x) + Len(y)) : i \in 1..Len(x) \/ (i - Len(x) \in 1..Len(y) /\ i = Len(x) + (i - Len(x)))
  BY DEF Line
<1>2. ToSet(x \o y) = ToSet(x) \cup ToSet(y)
  <2>1. ASSUME NEW i \in 1..Len(x) PROVE x[i] \in ToSet(x \o y)
    BY <1>1 DEF ToSet
  <2>2. ASSUME NEW i \in 1..Len(y) PROVE y[i] \in ToSet(x \o y)
    <3>1. Len(x) + i \in 1..Len(x \o y)
      BY <1>1
    <3> QED BY <1>1, <3>1 DEF ToSet
  <2>3. ASSUME NEW i \in 1..Len(x \o y) PROVE (x \o y)[i] \in ToSet(x) \cup ToSet(y)
    <3>1. CASE i \in 1..Len(x)
      BY <1>1, <3>1 DEF ToSet
    <3>2. CASE i - Len(x) \in 1..Len(y)
      <4> DEFINE k == i - Len(x)
      <4>1. k \in 1..Len(y) /\ i = Len(x) + k
        BY <1>1, <3>2
      <4> HIDE DEF k
      <4> QED BY <1>1, <4>1 DEF ToSet
    <3>3. i \in 1..(Len(x) + Len(y))
      BY <1>1
    <3>4. i \in 1..Len(x) \/ i - Len(x) \in 1..Len(y)
      BY <1>1, <3>3
    <3> QED BY <3>1, <3>2, <3>4
  <2>4. DOMAIN x = 1..Len(x) /\ DOMAIN y = 1..Len(y) /\ DOMAIN (x \o y) = 1..Len(x \o y)
    BY <1>1
  <2>5. ToSet(x) \subseteq ToSet(x \o y) /\ ToSet(y) \subseteq ToSet(x \o y)
    BY <2>1, <2>2, <2>4 DEF ToSet
  <2>6. ToSet(x \o y) \subseteq ToSet(x) \cup ToSet(y)
    <3> DEFINE U == ToSet(x) \cup ToSet(y)
    <3> HIDE DEF U
    <3>1. \A i \in 1..Len(x \o y) : (x \o y)[i] \in U
      BY <2>3 DEF U
    <3>2. ToSet(x \o y) \subseteq U
      BY <3>1, <2>4 DEF ToSet
    <3> QED BY <3>2 DEF U
  <2> QED BY <2>5, <2>6
<1>3. ASSUME Rising(x \o y) PROVE Rising(x) /\ ToSet(x) \cap ToSet(y) = {}
  <2>1. Rising(x)
    BY <1>1, <1>3 DEF Rising
  <2>2. ASSUME NEW i \in 1..Len(x), NEW k \in 1..Len(y) PROVE x[i] # y[k]
    <3>1. i \in 1..Len(x \o y) /\ Len(x) + k \in 1..Len(x \o y) /\ i < Len(x) + k
      BY <1>1
    <3>2. (x \o y)[i] < (x \o y)[Len(x) + k]
      BY <1>3, <3>1 DEF Rising
    <3> QED BY <1>1, <3>2 DEF Bytes
  <2> QED BY <2>1, <2>2 DEF ToSet
<1>4. ASSUME Rising(x), Rising(y), \A a \in ToSet(x), b \in ToSet(y) : a < b PROVE Rising(x \o y)
  <2> DEFINE z == x \o y
  <2>1. SUFFICES ASSUME NEW i \in 1..(Len(x) + Len(y)), NEW j \in 1..(Len(x) + Len(y)), i < j
                 PROVE  z[i] < z[j]
    BY <1>1 DEF Rising
  <2>2. CASE j \in 1..Len(x)
    <3>1. i \in 1..Len(x)
      BY <2>1, <2>2
    <3> QED BY <1>1, <1>4, <2>1, <2>2, <3>1 DEF Rising
  <2>3. CASE j - Len(x) \in 1..Len(y) /\ i \in 1..Len(x)
    <3> DEFINE k == j - Len(x)
    <3>1. k \in 1..Len(y) /\ j = Len(x) + k
      BY <1>1, <2>3
    <3> HIDE DEF k
    <3>2. z[j] = y[k] /\ z[i] = x[i] /\ y[k] \in ToSet(y) /\ x[i] \in ToSet(x)
      BY <1>1, <3>1, <2>3 DEF ToSet
    <3> QED BY <1>4, <3>2
  <2>4. CASE j - Len(x) \in 1..Len(y) /\ i - Len(x) \in 1..Len(y)
    <3> DEFINE k == j - Len(x)
               l == i - Len(x)
    <3>1. k \in 1..Len(y) /\ j = Len(x) + k /\ l \in 1..Len(y) /\ i = Len(x) + l /\ l < k
      BY <1>1, <2>1, <2>4
    <3> HIDE DEF k, l
    <3>2. z[j] = y[k] /\ z[i] = y[l] /\ y[l] < y[k]
      BY <1>1, <1>4, <3>1 DEF Rising
    <3> QED BY <3>2
  <2> QED BY <1>1, <2>2, <2>3, <2>4
<1> QED BY <1>2, <1>3, <1>4

-----------------------------------------------------------------------------
(* What a read, a flush and a delivery do *)

\* No line that waits is empty: a blank one is in the carry.
Solid == Full(backlog) /\ \A i \in 1..Len(posted) : Full(posted[i])

\* Concatenation of lines is associative.
LEMMA LineAssoc ==
  ASSUME NEW x \in Line, NEW y \in Line, NEW z \in Line
  PROVE  (x \o y) \o z = x \o (y \o z)
<1>1. x \in Seq(Bytes) /\ y \in Seq(Bytes) /\ z \in Seq(Bytes)
  BY DEF Line
<1> QED BY <1>1

\* What the reader thread delivers goes, behind the carry, into a batch or into
\* the carry.
LEMMA DeliverIs ==
  ASSUME TypeOK, Solid, NEW raws \in Seq(Line), NEW w, Deliver(raws, w)
  PROVE  /\ carry' \in Line /\ posted' \in Seq(Seq(Line))
         /\ \A i \in 1..Len(posted') : Full(posted'[i])
         /\ FlattenSeq(FlattenSeq(posted')) \o carry'
              = (FlattenSeq(FlattenSeq(posted)) \o carry) \o FlattenSeq(raws)
<1> DEFINE d == Delivered(raws, w)
           b == d.batch
           P == FlattenSeq(posted)
           r == FlattenSeq(raws)
<1>1. carry \in Line /\ posted \in Seq(Seq(Line))
  BY DEF TypeOK
<1>2. d \in [batch : Seq(Line), carry : Line] /\ Full(b) /\ FlattenSeq(b) \o d.carry = carry \o r
  BY <1>1, DeliveredIs
<1>3. carry' = d.carry /\ posted' = IF b = <<>> THEN posted ELSE Append(posted, b)
  BY DEF Deliver
<1>4. r \in Line
  BY FlattenType DEF Line
<1> HIDE DEF d, r
<1>5. b \in Seq(Line) /\ d.carry \in Line
  BY <1>2
<1>6. P \in Seq(Line)
  BY <1>1, FlattenType
<1>7. FlattenSeq(P) \in Line /\ FlattenSeq(b) \in Line
  BY <1>5, <1>6, FlattenType DEF Line
<1> HIDE DEF b
<1>8. FlattenSeq(FlattenSeq(posted')) = FlattenSeq(P) \o FlattenSeq(b)
  <2>1. CASE b = <<>>
    <3>1. FlattenSeq(b) = <<>>
      BY <2>1 DEF FlattenSeq
    <3>2. FlattenSeq(P) \o <<>> = FlattenSeq(P)
      BY <1>7 DEF Line
    <3> QED BY <1>3, <2>1, <3>1, <3>2
  <2>2. CASE b # <<>>
    <3>1. FlattenSeq(posted') = P \o b
      BY <1>1, <1>3, <1>5, <2>2, FlattenAppend
    <3>2. FlattenSeq(P \o b) = FlattenSeq(P) \o FlattenSeq(b)
      BY <1>5, <1>6, FlattenConcat DEF Line
    <3> QED BY <3>1, <3>2
  <2> QED BY <2>1, <2>2
<1>9. posted' \in Seq(Seq(Line)) /\ \A i \in 1..Len(posted') : Full(posted'[i])
  <2>1. CASE b = <<>>
    BY <1>1, <1>3, <2>1 DEF Solid
  <2>2. CASE b # <<>>
    <3> DEFINE B == Seq(Line)
    <3>1. posted \in Seq(B) /\ b \in B /\ posted' = Append(posted, b)
      BY <1>1, <1>3, <1>5, <2>2
    <3> HIDE DEF B
    <3>2. posted' \in Seq(B)
      BY <3>1
    <3>3. ASSUME NEW i \in 1..Len(posted') PROVE Full(posted'[i])
      <4>1. (i \in 1..Len(posted) /\ posted'[i] = posted[i]) \/ posted'[i] = b
        BY <3>1
      <4> QED BY <1>2, <4>1 DEF Solid
    <3> QED BY <3>2, <3>3 DEF B
  <2> QED BY <2>1, <2>2
<1>10. (FlattenSeq(P) \o FlattenSeq(b)) \o d.carry = (FlattenSeq(P) \o carry) \o r
  <2> DEFINE p == FlattenSeq(P)
             f == FlattenSeq(b)
             c == d.carry
  <2>1. p \in Line /\ f \in Line /\ c \in Line /\ f \o c = carry \o r
    BY <1>2, <1>5, <1>7
  <2> HIDE DEF p, f, c
  <2>2. (p \o f) \o c = p \o (f \o c)
    BY <2>1, LineAssoc, Zenon
  <2>3. p \o (carry \o r) = (p \o carry) \o r
    BY <1>1, <1>4, <2>1, LineAssoc, Zenon
  <2>4. (p \o f) \o c = (p \o carry) \o r
    BY <2>1, <2>2, <2>3
  <2> QED BY <2>4 DEF p, f, c
<1> QED BY <1>3, <1>5, <1>8, <1>9, <1>10 DEF P, r

\* The bytes of a chunk, by the order they arrive in.
Arrived(chunk) == [i \in 1..Len(chunk) |-> Len(wire) + i]

\* A chunk of kinds.
LEMMA ChunkIs ==
  ASSUME TypeOK, NEW chunk \in Chunks, Len(wire) + Len(chunk) <= MaxByte
  PROVE  /\ chunk \in Seq(Kinds) /\ Arrived(chunk) \in Line
         /\ wire \o chunk \in Seq(Kinds) /\ Len(wire \o chunk) = Len(wire) + Len(chunk)
         /\ Len(wire) \in Nat /\ Len(chunk) \in Nat
<1>1. PICK k \in 1..MaxChunk : chunk \in [1..k -> Kinds]
  BY DEF Chunks
<1>2. k \in Nat
  BY BoundsAssumption
<1>3. chunk \in Seq(Kinds) /\ Len(chunk) \in Nat
  BY <1>1, <1>2
<1>4. wire \in Seq(Kinds) /\ Len(wire) \in Nat
  BY DEF TypeOK
<1>5. \A i \in 1..Len(chunk) : Len(wire) + i \in Bytes
  BY <1>3, <1>4, BoundsAssumption DEF Bytes
<1>6. Arrived(chunk) \in Line
  BY <1>3, <1>5 DEF Arrived, Line
<1> QED BY <1>3, <1>4, <1>6

\* What a read splits is what it delivers and what stays in the buffer.
LEMMA SplitRead ==
  ASSUME NEW s \in Line, NEW w
  PROVE  /\ Split(s, w).lines \o Pieces(Split(s, w).rest) \in Seq(Line)
         /\ Left(Split(s, w).rest) \in Line
         /\ FlattenSeq(Split(s, w).lines \o Pieces(Split(s, w).rest)) \o Left(Split(s, w).rest) = s
<1> DEFINE ls == Split(s, w).lines
           r  == Split(s, w).rest
           p  == Pieces(r)
           lt == Left(r)
           x  == FlattenSeq(ls)
           y  == FlattenSeq(p)
<1>1. ls \in Seq(Line) /\ r \in Line /\ x \o r = s
  <2>1. Split(s, w) \in [lines : Seq(Line), rest : Line] /\ x \o r = s
    BY SplitIs
  <2> QED BY <2>1
<1> HIDE DEF ls, r
<1>2. p \in Seq(Line) /\ lt \in Line /\ y \o lt = r
  BY <1>1, PiecesIs
<1> HIDE DEF p, lt
<1>3. FlattenSeq(ls \o p) = x \o y /\ x \in Line /\ y \in Line
  BY <1>1, <1>2, FlattenConcat, FlattenType DEF Line
<1> HIDE DEF x, y
<1>4. (x \o y) \o lt = x \o (y \o lt)
  BY <1>2, <1>3, LineAssoc, Zenon
<1>5. ls \o p \in Seq(Line)
  BY <1>1, <1>2
<1> QED BY <1>1, <1>2, <1>3, <1>4, <1>5 DEF ls, r, p, lt

-----------------------------------------------------------------------------
(* The types *)

Rows(n) == [what : {"RX", "SYS", "banner"}, id : 0..n, line : Line, at : Nat]

\* Rows that had ids up to n have ids up to m, with a row more or without.
LEMMA RowsGrow ==
  ASSUME NEW n \in Nat, NEW m \in Nat, n <= m, NEW t \in Seq(Rows(n))
  PROVE  t \in Seq(Rows(m)) /\ \A r \in Rows(m) : Append(t, r) \in Seq(Rows(m))
<1>1. Rows(n) \subseteq Rows(m)
  <2>1. 0..n \subseteq 0..m
    OBVIOUS
  <2> QED BY <2>1 DEF Rows
<1>2. t \in Seq(Rows(m))
  <2> DEFINE R == Rows(n)
             Q == Rows(m)
  <2>1. R \subseteq Q /\ t \in Seq(R)
    BY <1>1
  <2> HIDE DEF R, Q
  <2>2. t \in Seq(Q)
    BY <2>1
  <2> QED BY <2>2 DEF Q
<1>3. ASSUME NEW r \in Rows(m) PROVE Append(t, r) \in Seq(Rows(m))
  <2> DEFINE Q == Rows(m)
  <2>1. t \in Seq(Q) /\ r \in Q
    BY <1>2
  <2> HIDE DEF Q
  <2>2. Append(t, r) \in Seq(Q)
    BY <2>1
  <2> QED BY <2>2 DEF Q
<1> QED BY <1>2, <1>3

\* A queue of anything: its head, its tail and one more.
LEMMA Queue ==
  ASSUME NEW B, NEW q \in Seq(B), q # <<>>
  PROVE  /\ Head(q) \in B /\ Tail(q) \in Seq(B) /\ Len(q) > 0 /\ Len(Tail(q)) = Len(q) - 1
         /\ \A i \in 1..Len(Tail(q)) : Tail(q)[i] = q[i + 1] /\ i + 1 \in 1..Len(q)
         /\ Head(q) = q[1] /\ 1 \in 1..Len(q)
OBVIOUS

\* The types of the two parts of the state.
ReaderType ==
  /\ wire \in Seq(Kinds) /\ Len(wire) <= MaxByte
  /\ buf \in Line /\ carry \in Line /\ dropped \subseteq Bytes
  /\ posted \in Seq(Seq(Line)) /\ backlog \in Seq(Line)
DisplayType ==
  /\ handled \in Seq(Line) /\ {shed, offset, seq} \subseteq Nat /\ {lastRx, current} \subseteq -1..seq
  /\ matches \in Seq(Note) /\ events \subseteq Note /\ term \in Seq(Rows(seq))
PaperType ==
  painted \in 0..Len(term) /\ doc \subseteq 1..painted /\ notes \in 0..MaxNote

LEMMA TypeParts == TypeOK <=> ReaderType /\ DisplayType /\ PaperType
BY Zenon DEF TypeOK, ReaderType, DisplayType, PaperType, Rows

\* Every step keeps the types of the way to the backlog.
LEMMA ReaderTypeStep ==
  ASSUME TypeOK, Solid, [Next]_vars
  PROVE  ReaderType'
<1> USE DEF ReaderType
<1>0. ReaderType
  BY TypeParts
<1>1. ASSUME NEW chunk \in Chunks, Read(chunk) PROVE ReaderType'
  <2> DEFINE s == buf \o Arrived(chunk)
             fed == Split(s, wire')
             raws == fed.lines \o Pieces(fed.rest)
  <2>1. /\ Len(wire) + Len(chunk) <= MaxByte /\ wire' = wire \o chunk /\ buf' = Left(fed.rest)
        /\ Deliver(raws, wire') /\ UNCHANGED <<backlog, display, paper, dropped>>
    BY <1>1 DEF Read, Arrived
  <2>2. /\ chunk \in Seq(Kinds) /\ Arrived(chunk) \in Line
        /\ wire \o chunk \in Seq(Kinds) /\ Len(wire \o chunk) = Len(wire) + Len(chunk)
    BY <2>1, ChunkIs
  <2>3. s \in Line
    BY <1>0, <2>2 DEF Line
  <2> HIDE DEF s
  <2>4. raws \in Seq(Line) /\ Left(fed.rest) \in Line
    BY <2>3, SplitRead
  <2> HIDE DEF raws, fed
  <2>5. carry' \in Line /\ posted' \in Seq(Seq(Line))
    BY <2>1, <2>4, DeliverIs
  <2> QED BY <1>0, <2>1, <2>2, <2>4, <2>5
<1>2. ASSUME FlushIfIdle PROVE ReaderType'
  <2>1. <<buf>> \in Seq(Line) /\ <<>> \in Line
    BY <1>0 DEF Line
  <2>2. carry' \in Line /\ posted' \in Seq(Seq(Line))
    BY <1>2, <2>1, DeliverIs DEF FlushIfIdle
  <2> QED BY <1>0, <1>2, <2>1, <2>2 DEF FlushIfIdle
<1>3. ASSUME NewSession PROVE ReaderType'
  <2>1. ToSet(buf) \subseteq Bytes /\ <<>> \in Line
    BY <1>0 DEF ToSet, Line
  <2> QED BY <1>0, <1>3, <2>1 DEF NewSession
<1>4. ASSUME OnConnLines PROVE ReaderType'
  <2>1. posted # <<>> /\ backlog' = backlog \o Head(posted) /\ posted' = Tail(posted) /\ UNCHANGED reader
    BY <1>4 DEF OnConnLines
  <2>2. Head(posted) \in Seq(Line) /\ Tail(posted) \in Seq(Seq(Line))
    BY <1>0, <2>1, Queue
  <2>3. backlog \o Head(posted) \in Seq(Line)
    BY <1>0, <2>2
  <2> QED BY <1>0, <2>1, <2>2, <2>3 DEF reader
<1>5. ASSUME backlog # <<>>, backlog' = Tail(backlog), UNCHANGED <<reader, posted>> PROVE ReaderType'
  <2>1. Tail(backlog) \in Seq(Line)
    BY <1>0, <1>5, Queue
  <2> QED BY <1>0, <1>5, <2>1 DEF reader
<1>6. ASSUME UNCHANGED <<reader, posted, backlog>> PROVE ReaderType'
  BY <1>0, <1>6 DEF reader
<1>7. CASE \E c \in Chunks : Read(c)
  BY <1>1, <1>7
<1>8. CASE DrawLine \/ ShedLine
  BY <1>5, <1>8 DEF DrawLine, ShedLine, Handle
<1>9. CASE OnMatch \/ FlushTimer \/ UNCHANGED vars
  BY <1>6, <1>9 DEF OnMatch, FlushTimer, vars, reader
<1>10. CASE \E e \in events : Jump(e)
  BY <1>6, <1>10 DEF Jump
<1> QED BY <1>2, <1>3, <1>4, <1>7, <1>8, <1>9, <1>10 DEF Next

\* What handling a line does to the types that are not the terminal's.
LEMMA HandleType ==
  ASSUME ReaderType, DisplayType, backlog # <<>>, NEW id \in Nat \cup {-1}, Handle(id)
  PROVE  handled' \in Seq(Line) /\ offset' \in Nat /\ matches' \in Seq(Note)
<1> DEFINE l == Head(backlog)
<1>1. l \in Line /\ Len(l) \in Nat
  BY Queue DEF ReaderType, Line
<1>2. /\ handled' = Append(handled, l) /\ offset' = offset + Len(l)
      /\ (matches' = Append(matches, [line |-> l, id |-> id]) \/ matches' = matches)
  BY DEF Handle
<1> HIDE DEF l
<1>3. handled \in Seq(Line) /\ matches \in Seq(Note) /\ offset \in Nat
  BY DEF DisplayType
<1>4. [line |-> l, id |-> id] \in Note
  BY <1>1 DEF Note
<1>5. Append(matches, [line |-> l, id |-> id]) \in Seq(Note)
  BY <1>3, <1>4
<1>6. Append(handled, l) \in Seq(Line)
  BY <1>1, <1>3
<1> QED BY SMTT(30), <1>1, <1>2, <1>3, <1>5, <1>6

\* Every step keeps the types of what is handled and queued for the terminal.
LEMMA DisplayTypeStep ==
  ASSUME TypeOK, [Next]_vars
  PROVE  DisplayType'
<1>0. ReaderType /\ DisplayType
  BY TypeParts
<1>1. /\ handled \in Seq(Line) /\ shed \in Nat /\ offset \in Nat /\ seq \in Nat
      /\ lastRx \in -1..seq /\ current \in -1..seq
      /\ matches \in Seq(Note) /\ events \subseteq Note /\ term \in Seq(Rows(seq))
  BY <1>0 DEF DisplayType
<1>2. ASSUME NEW m \in Nat, m >= seq
      PROVE  /\ term \in Seq(Rows(m)) /\ \A r \in Rows(m) : Append(term, r) \in Seq(Rows(m))
             /\ \A n \in 0..m : Sys(n) \in Rows(m)
             /\ \A l \in Line : Banner(l) \in Rows(m) /\ \A n \in 0..m : Rx(l, n) \in Rows(m)
  <2>1. term \in Seq(Rows(m)) /\ \A r \in Rows(m) : Append(term, r) \in Seq(Rows(m))
    BY <1>1, <1>2, RowsGrow
  <2>2. <<>> \in Line /\ 0 \in 0..m
    BY DEF Line
  <2> QED BY <1>1, <2>1, <2>2 DEF Sys, Banner, Rx, Rows
<1>3. ASSUME NEW m \in Nat, NEW t \in Seq(Rows(m)), NEW r \in Rows(m) PROVE Append(t, r) \in Seq(Rows(m))
  BY <1>3, RowsGrow
<1>4. ASSUME DrawLine PROVE DisplayType'
  <2> DEFINE rx == Rx(Head(backlog), seq + 1)
  <2>1. /\ backlog # <<>> /\ Handle(seq + 1) /\ lastRx' = seq + 1 /\ current' = lastRx'
        /\ \/ /\ shed' = 0 /\ seq' = seq + 1 + 1 /\ term' = Append(Append(term, rx), Sys(seq + 1 + 1))
           \/ term' = Append(term, rx) /\ seq' = seq + 1 /\ UNCHANGED shed
        /\ UNCHANGED events
    BY <1>4 DEF DrawLine, CatchUp, Handle
  <2>2. handled' \in Seq(Line) /\ offset' \in Nat /\ matches' \in Seq(Note)
    BY <1>0, <1>1, <2>1, HandleType
  <2>3. Head(backlog) \in Line
    BY <1>0, <2>1, Queue DEF ReaderType
  <2>4. \A m \in Nat : m >= seq + 1 => rx \in Rows(m)
    BY <1>1, <1>2, <2>3
  <2> HIDE DEF rx
  <2>5. \A m \in Nat : m >= seq + 1 => Append(term, rx) \in Seq(Rows(m))
    BY <1>1, <1>2, <2>4
  <2>6. CASE term' = Append(term, rx) /\ seq' = seq + 1 /\ UNCHANGED shed
    BY <1>1, <2>1, <2>2, <2>5, <2>6 DEF DisplayType
  <2>7. CASE shed' = 0 /\ seq' = seq + 1 + 1 /\ term' = Append(Append(term, rx), Sys(seq + 1 + 1))
    <3> DEFINE m == seq + 1 + 1
    <3>1. m \in Nat /\ m >= seq /\ m >= seq + 1 /\ m \in 0..m
      BY <1>1
    <3> HIDE DEF m
    <3>2. Append(term, rx) \in Seq(Rows(m)) /\ Sys(m) \in Rows(m)
      BY <1>2, <2>5, <3>1
    <3>3. Append(Append(term, rx), Sys(m)) \in Seq(Rows(m))
      BY <1>3, <3>1, <3>2
    <3>4. term' \in Seq(Rows(seq')) /\ seq' = m
      BY <2>7, <3>3 DEF m
    <3> QED BY <1>1, <2>1, <2>2, <2>7, <3>1, <3>4 DEF DisplayType
  <2> QED BY <2>1, <2>6, <2>7
<1>5. ASSUME ShedLine PROVE DisplayType'
  <2>1. /\ backlog # <<>> /\ Handle(current) /\ UNCHANGED <<lastRx, current>>
        /\ \/ shed' = shed + 1 /\ UNCHANGED <<seq, term>>
           \/ shed' = 0 /\ seq' = seq + 1 /\ term' = Append(term, Sys(seq + 1))
        /\ UNCHANGED events
    BY <1>5 DEF ShedLine, CatchUp, Handle
  <2>2. handled' \in Seq(Line) /\ offset' \in Nat /\ matches' \in Seq(Note)
    <3>1. current \in Nat \cup {-1}
      BY <1>1
    <3> QED BY <1>0, <2>1, <3>1, HandleType
  <2>3. CASE shed' = shed + 1 /\ UNCHANGED <<seq, term>>
    BY <1>1, <2>1, <2>2, <2>3 DEF DisplayType
  <2>4. CASE shed' = 0 /\ seq' = seq + 1 /\ term' = Append(term, Sys(seq + 1))
    <3>1. seq + 1 \in Nat /\ seq + 1 >= seq /\ seq + 1 \in 0..(seq + 1)
      BY <1>1
    <3>2. Append(term, Sys(seq + 1)) \in Seq(Rows(seq + 1))
      BY <1>2, <3>1
    <3>3. term' \in Seq(Rows(seq'))
      BY <2>4, <3>2
    <3> QED BY <1>1, <2>1, <2>2, <2>4, <3>3 DEF DisplayType
  <2> QED BY <2>1, <2>3, <2>4
<1>6. ASSUME OnMatch PROVE DisplayType'
  <2> DEFINE m == Head(matches)
             rows == Append(term, Banner(m.line))
  <2>1. /\ matches # <<>> /\ matches' = Tail(matches) /\ events' = events \cup {m}
        /\ \/ term' = rows /\ UNCHANGED seq
           \/ seq' = seq + 1 /\ term' = Append(rows, Sys(seq + 1))
        /\ UNCHANGED <<shed, offset, lastRx, current, handled>>
    BY <1>6 DEF OnMatch
  <2>2. m \in Note /\ Tail(matches) \in Seq(Note)
    BY <1>1, <2>1, Queue
  <2>3. m.line \in Line
    BY <2>2 DEF Note
  <2>4. \A n \in Nat : n >= seq => rows \in Seq(Rows(n))
    BY <1>2, <2>3
  <2> HIDE DEF m, rows
  <2>5. CASE term' = rows /\ UNCHANGED seq
    BY <1>1, <2>1, <2>2, <2>4, <2>5 DEF DisplayType
  <2>6. CASE seq' = seq + 1 /\ term' = Append(rows, Sys(seq + 1))
    <3>1. seq + 1 \in Nat /\ seq + 1 >= seq /\ seq + 1 \in 0..(seq + 1)
      BY <1>1
    <3>2. Append(rows, Sys(seq + 1)) \in Seq(Rows(seq + 1))
      BY <1>2, <1>3, <2>4, <3>1
    <3>3. term' \in Seq(Rows(seq'))
      BY <2>6, <3>2
    <3> QED BY <1>1, <2>1, <2>2, <2>6, <3>3 DEF DisplayType
  <2> QED BY <2>1, <2>5, <2>6
<1>7. ASSUME NEW e \in events, Jump(e) PROVE DisplayType'
  <2>1. seq' = seq + 1 /\ term' = Append(term, Sys(seq + 1))
        /\ UNCHANGED <<shed, offset, lastRx, current, matches, handled, events>>
    BY <1>7 DEF Jump
  <2>2. seq + 1 \in Nat /\ seq + 1 >= seq /\ seq + 1 \in 0..(seq + 1)
    BY <1>1
  <2>3. Append(term, Sys(seq + 1)) \in Seq(Rows(seq + 1))
    BY <1>2, <2>2
  <2>4. term' \in Seq(Rows(seq'))
    BY <2>1, <2>3
  <2> QED BY <1>1, <2>1, <2>4 DEF DisplayType
<1>8. ASSUME UNCHANGED display PROVE DisplayType'
  BY <1>0, <1>8 DEF DisplayType, display
<1>9. CASE (\E c \in Chunks : Read(c)) \/ FlushIfIdle \/ NewSession \/ OnConnLines
  BY <1>8, <1>9 DEF Read, FlushIfIdle, NewSession, OnConnLines
<1>10. CASE FlushTimer \/ UNCHANGED vars
  BY <1>8, <1>10 DEF FlushTimer, vars
<1> QED BY <1>4, <1>5, <1>6, <1>7, <1>9, <1>10 DEF Next

-----------------------------------------------------------------------------
(* The terminal *)

\* The scrollback, less its tenth.
Floor == Scrollback - Scrollback \div 10

\* More rows have no fewer blocks, and no fewer blocks than rows.
LEMMA BlocksGrow ==
  ASSUME NEW n \in Nat, NEW Q \in SUBSET (1..n), NEW R \in SUBSET Q
  PROVE  /\ Blocks(Q) \in Nat /\ Blocks(R) \in Nat /\ Blocks(R) <= Blocks(Q)
         /\ Blocks(Q) >= 1 + Cardinality(Q)
<1> DEFINE bq == {i \in Q : term[i].what = "banner"}
           br == {i \in R : term[i].what = "banner"}
<1>1. IsFiniteSet(1..n)
  BY FS_Interval
<1>2. IsFiniteSet(Q)
  BY <1>1, FS_Subset
<1>3. IsFiniteSet(R) /\ Cardinality(R) <= Cardinality(Q)
  BY <1>2, FS_Subset
<1>4. IsFiniteSet(bq) /\ br \subseteq bq
  <2>1. bq \subseteq Q /\ br \subseteq bq
    OBVIOUS
  <2> QED BY <1>2, <2>1, FS_Subset
<1>5. IsFiniteSet(br) /\ Cardinality(br) <= Cardinality(bq)
  BY <1>4, FS_Subset
<1>6. /\ Cardinality(Q) \in Nat /\ Cardinality(R) \in Nat
      /\ Cardinality(bq) \in Nat /\ Cardinality(br) \in Nat
  BY <1>2, <1>3, <1>4, <1>5, FS_CardinalityType
<1>7. Blocks(Q) = 1 + Cardinality(Q) + Cardinality(bq) /\ Blocks(R) = 1 + Cardinality(R) + Cardinality(br)
  BY DEF Blocks
<1> HIDE DEF bq, br
<1> QED BY <1>3, <1>5, <1>6, <1>7

\* The floor is at most the scrollback.
LEMMA FloorIs == Floor \in Nat /\ Floor <= Scrollback
BY BoundsAssumption DEF Floor

\* Every row of the terminal is waiting, in the document, or a scrollback, less
\* its tenth, is after it.
Held == \A i \in 1..Len(term) : Kept(i)

\* A row that is painted is in the document then, or enough is after it.
LEMMA FlushIs ==
  ASSUME TypeOK, Held, Flush
  PROVE  /\ painted' = Len(term) /\ doc' \subseteq 1..Len(term)
         /\ \A i \in 1..Len(term) : i \in doc' \/ Blocks(i + 1 .. Len(term)) >= Floor
<1> DEFINE N    == Len(term)
           late == {i \in painted + 1 .. N : i > N - Scrollback}
           rows == doc \cup late
<1>1. N \in Nat /\ painted \in 0..N /\ doc \subseteq 1..painted
  BY TypeParts DEF PaperType, DisplayType
<1>2. painted' = N /\ doc' \in Trimmed(rows)
  BY DEF Flush
<1>3. Floor \in Nat /\ Floor <= Scrollback /\ Scrollback \in Nat
  BY FloorIs, BoundsAssumption
<1>4. rows \subseteq 1..N
  <2>1. late \subseteq 1..N /\ 1..painted \subseteq 1..N
    BY <1>1
  <2> QED BY <1>1, <2>1
<1> HIDE DEF late
<1>5. ASSUME NEW R, R \subseteq 1..N, NEW i \in 1..N, \A j \in R : j > i, Blocks(R) >= Floor
      PROVE  Blocks(i + 1 .. N) >= Floor
  <2>1. R \in SUBSET (i + 1 .. N) /\ (i + 1 .. N) \in SUBSET (1..N)
    BY <1>1, <1>5
  <2>2. Blocks(R) <= Blocks(i + 1 .. N) /\ Blocks(R) \in Nat /\ Blocks(i + 1 .. N) \in Nat
    BY <1>1, <2>1, BlocksGrow
  <2> QED BY <1>3, <1>5, <2>2
<1>60. \A i \in 1..N : i > painted /\ i > N - Scrollback => i \in rows
  BY <1>1 DEF late
<1>6. ASSUME NEW i \in 1..N PROVE i \in rows \/ Blocks(i + 1 .. N) >= Floor
  <2>1. CASE i <= painted /\ i \notin doc
    <3>1. Blocks(i + 1 .. painted) >= Floor
      BY <1>1, <2>1 DEF Held, Kept, Floor
    <3>2. (i + 1 .. painted) \subseteq 1..N /\ \A j \in i + 1 .. painted : j > i
      BY <1>1
    <3> QED BY <1>5, <3>1, <3>2
  <2>2. CASE i > painted /\ ~(i > N - Scrollback)
    <3>1. (i + 1 .. N) \in SUBSET (1..N) /\ Cardinality(i + 1 .. N) = N - i
      <4>1. i + 1 \in Int /\ N \in Int
        BY <1>1
      <4>2. Cardinality(i + 1 .. N) = IF i + 1 > N THEN 0 ELSE N - (i + 1) + 1
        BY <4>1, FS_Interval
      <4> QED BY <1>1, <4>2
    <3>2. Blocks(i + 1 .. N) >= 1 + Cardinality(i + 1 .. N) /\ Blocks(i + 1 .. N) \in Nat
      BY <1>1, <3>1, BlocksGrow
    <3> DEFINE b == Blocks(i + 1 .. N)
    <3>3. b >= 1 + (N - i) /\ b \in Nat
      BY <3>1, <3>2
    <3> HIDE DEF b
    <3>4. b >= Floor
      BY <1>1, <1>3, <2>2, <3>3
    <3> QED BY <3>4 DEF b
  <2> QED BY <1>1, <1>60, <2>1, <2>2
<1>7. CASE Blocks(rows) <= Scrollback
  <2>1. doc' = rows
    BY <1>2, <1>7 DEF Trimmed
  <2> QED BY <1>2, <1>4, <1>6, <2>1
<1>8. CASE ~(Blocks(rows) <= Scrollback)
  <2> HIDE DEF rows
  <2>1. PICK j \in rows : doc' = {i \in rows : i >= j} /\ Blocks(doc') >= Floor
    BY <1>2, <1>8 DEF Trimmed, Floor
  <2>2. doc' \subseteq 1..N
    BY <1>4, <2>1
  <2>3. ASSUME NEW i \in 1..N, i \notin doc' PROVE Blocks(i + 1 .. N) >= Floor
    <3>1. CASE i \notin rows
      BY <1>6, <3>1
    <3>2. CASE i \in rows
      <4>1. i < j
        BY <1>1, <1>4, <2>1, <2>3, <3>2
      <4>2. \A k \in doc' : k > i
        BY <1>1, <1>4, <2>1, <4>1
      <4> QED BY <1>5, <2>1, <2>2, <4>2
    <3> QED BY <3>1, <3>2
  <2> QED BY <1>2, <2>2, <2>3
<1> QED BY <1>7, <1>8

\* The terminal's queue only grows, and its new rows are no received line but the
\* one that was drawn.
Grown ==
  /\ Len(term) \in Nat /\ Len(term') \in Nat /\ Len(term') >= Len(term)
  /\ \A i \in 1..Len(term) : term'[i] = term[i]
  /\ \A i \in Len(term) + 1 .. Len(term') :
       \/ term'[i].what # "RX"
       \/ DrawLine /\ i = Len(term) + 1 /\ term'[i] = Rx(Head(backlog), seq + 1)
  /\ DrawLine => /\ Len(term') > Len(term)
                 /\ term'[Len(term) + 1] = Rx(Head(backlog), seq + 1)

\* One row or two at the end of a queue.
LEMMA TwoMore ==
  ASSUME NEW S, NEW q \in Seq(S), NEW r, NEW x
  PROVE  /\ Len(q) \in Nat
         /\ Len(Append(q, r)) = Len(q) + 1 /\ Append(q, r)[Len(q) + 1] = r
         /\ \A i \in 1..Len(q) : Append(q, r)[i] = q[i]
         /\ Len(Append(Append(q, r), x)) = Len(q) + 2
         /\ Append(Append(q, r), x)[Len(q) + 1] = r /\ Append(Append(q, r), x)[Len(q) + 2] = x
         /\ \A i \in 1..Len(q) : Append(Append(q, r), x)[i] = q[i]
<1>1. q \in Seq(S \cup {r, x}) /\ r \in S \cup {r, x} /\ x \in S \cup {r, x}
  OBVIOUS
<1> DEFINE T == S \cup {r, x}
<1>2. q \in Seq(T) /\ r \in T /\ x \in T
  BY <1>1
<1> HIDE DEF T
<1> QED BY <1>2

\* Every step lets the terminal's queue grow.
LEMMA GrownStep ==
  ASSUME TypeOK, [Next]_vars
  PROVE  Grown
<1>1. term \in Seq(Rows(seq)) /\ Len(term) \in Nat
  BY TypeParts DEF DisplayType
<1>2. ASSUME term' = term, ~DrawLine PROVE Grown
  BY <1>1, <1>2 DEF Grown
<1>3. ASSUME NEW r, NEW x, term' = Append(term, r) \/ term' = Append(Append(term, r), x),
             x.what # "RX", r.what # "RX" \/ (DrawLine /\ r = Rx(Head(backlog), seq + 1)),
             DrawLine => r = Rx(Head(backlog), seq + 1)
      PROVE  Grown
  <2>1. /\ Len(Append(term, r)) = Len(term) + 1 /\ Append(term, r)[Len(term) + 1] = r
        /\ \A i \in 1..Len(term) : Append(term, r)[i] = term[i]
        /\ Len(Append(Append(term, r), x)) = Len(term) + 2
        /\ Append(Append(term, r), x)[Len(term) + 1] = r
        /\ Append(Append(term, r), x)[Len(term) + 2] = x
        /\ \A i \in 1..Len(term) : Append(Append(term, r), x)[i] = term[i]
    BY <1>1, TwoMore
  <2> DEFINE n == Len(term)
  <2>2. n \in Nat
    BY <1>1
  <2>3. CASE term' = Append(term, r)
    <3>1. /\ Len(term') = n + 1 /\ term'[n + 1] = r /\ \A i \in 1..n : term'[i] = term[i]
      BY <2>1, <2>3
    <3>2. \A i \in n + 1 .. n + 1 : i = n + 1
      BY <2>2
    <3> HIDE DEF n
    <3>3. Grown
      BY <1>3, <2>2, <3>1, <3>2 DEF Grown, n
    <3> QED BY <3>3
  <2>4. CASE term' = Append(Append(term, r), x)
    <3>1. /\ Len(term') = n + 2 /\ term'[n + 1] = r /\ term'[n + 2] = x
          /\ \A i \in 1..n : term'[i] = term[i]
      BY <2>1, <2>4
    <3>2. \A i \in n + 1 .. n + 2 : i = n + 1 \/ i = n + 2
      BY <2>2
    <3> HIDE DEF n
    <3>3. Grown
      BY <1>3, <2>2, <3>1, <3>2 DEF Grown, n
    <3> QED BY <3>3
  <2> QED BY <1>3, <2>3, <2>4
<1>4. /\ \A n : Sys(n).what # "RX" /\ \A l : Banner(l).what # "RX"
      /\ DrawLine => backlog' = Tail(backlog) /\ UNCHANGED <<reader, posted, events, paper>>
  BY DEF Sys, Banner, DrawLine, Handle
<1>5. ASSUME DrawLine PROVE Grown
  <2> DEFINE rx == Rx(Head(backlog), seq + 1)
             sys == Sys(seq + 1 + 1)
  <2>1. term' = Append(term, rx) \/ term' = Append(Append(term, rx), sys)
    <3> HIDE DEF rx, sys
    <3> QED BY <1>5 DEF DrawLine, CatchUp, rx, sys
  <2>2. rx = Rx(Head(backlog), seq + 1) /\ sys.what # "RX"
    BY <1>4
  <2> HIDE DEF rx, sys
  <2> QED BY <1>3, <1>5, <2>1, <2>2
<1>6. ASSUME ~DrawLine, NEW c \in Chunks, Read(c) PROVE Grown
  BY <1>2, <1>6 DEF Read, display
<1>7. ASSUME ~DrawLine, FlushIfIdle \/ NewSession \/ OnConnLines \/ FlushTimer \/ UNCHANGED vars
      PROVE  Grown
  BY <1>2, <1>7 DEF FlushIfIdle, NewSession, OnConnLines, FlushTimer, vars, display
<1>8. ASSUME ~DrawLine, ShedLine PROVE Grown
  <2>1. term' = term \/ term' = Append(term, Sys(seq + 1))
    BY <1>8 DEF ShedLine, CatchUp
  <2> QED BY <1>2, <1>3, <1>4, <1>8, <2>1
<1>9. ASSUME ~DrawLine, OnMatch PROVE Grown
  <2> DEFINE b == Banner(Head(matches).line)
  <2>1. term' = Append(term, b) \/ term' = Append(Append(term, b), Sys(seq + 1))
    BY <1>9 DEF OnMatch
  <2>2. b.what # "RX"
    BY <1>4
  <2> HIDE DEF b
  <2> QED BY SMTT(30), <1>3, <1>4, <1>9, <2>1, <2>2
<1>10. ASSUME ~DrawLine, NEW e \in events, Jump(e) PROVE Grown
  <2>1. term' = Append(term, Sys(seq + 1))
    BY <1>10 DEF Jump
  <2> QED BY <1>3, <1>4, <1>10, <2>1
<1> QED BY <1>5, <1>6, <1>7, <1>8, <1>9, <1>10 DEF Next

\* Every step keeps the place of the rows in the terminal and its types.
LEMMA HeldStep ==
  ASSUME TypeOK, Held, [Next]_vars
  PROVE  PaperType' /\ Held'
<1> DEFINE N == Len(term)
<1>1. /\ N \in Nat /\ Len(term') \in Nat /\ Len(term') >= N
      /\ \A i \in 1..N : term'[i] = term[i]
  BY GrownStep DEF Grown
<1>2. painted \in 0..N /\ doc \subseteq 1..painted /\ notes \in 0..MaxNote
  BY TypeParts DEF PaperType
<1>3. ASSUME NEW p \in 0..N, NEW D \in SUBSET (1..p),
             painted' = p, doc' = D, notes' \in 0..MaxNote,
             \A i \in 1..N : i > p \/ i \in D \/ Blocks(i + 1 .. p) >= Floor
      PROVE  PaperType' /\ Held'
  <2>1. PaperType'
    BY <1>1, <1>3 DEF PaperType
  <2>2. ASSUME NEW i \in 1..Len(term') PROVE Kept(i)'
    <3>1. CASE i > p
      BY <1>3, <3>1 DEF Kept
    <3>2. CASE i <= p
      <4>1. i \in 1..N /\ (i + 1 .. p) \subseteq 1..N
        BY <1>1, <3>2
      <4>2. i \in D \/ Blocks(i + 1 .. p) >= Floor
        BY <1>3, <3>2, <4>1
      <4> DEFINE R == i + 1 .. p
      <4>3. {k \in R : term'[k].what = "banner"} = {k \in R : term[k].what = "banner"}
        <5>1. \A k \in R : term'[k] = term[k]
          BY <1>1, <4>1
        <5> HIDE DEF R
        <5> QED BY <5>1
      <4>4. Blocks(i + 1 .. painted)' = Blocks(R)
        BY <1>3, <4>3 DEF Blocks
      <4> HIDE DEF R
      <4>5. i \in doc' \/ Blocks(i + 1 .. painted)' >= Floor
        BY <1>3, <4>2, <4>4 DEF R
      <4> QED BY <4>5 DEF Kept, Floor
    <3> QED BY <1>1, <1>3, <3>1, <3>2
  <2>3. Held'
    BY <2>2 DEF Held
  <2> QED BY <2>1, <2>3
<1>4. ASSUME UNCHANGED <<painted, doc>>, notes' \in 0..MaxNote PROVE PaperType' /\ Held'
  <2>1. \A i \in 1..N : i > painted \/ i \in doc \/ Blocks(i + 1 .. painted) >= Floor
    BY DEF Held, Kept, Floor
  <2>2. \E p \in 0..N, D \in SUBSET (1..painted) : p = painted /\ D = doc
    BY <1>2
  <2>3. PICK p \in 0..N, D \in SUBSET (1..painted) : p = painted /\ D = doc
    BY <2>2
  <2>4. \A i \in 1..N : i > p \/ i \in D \/ Blocks(i + 1 .. p) >= Floor
    BY <2>1, <2>3
  <2> HIDE DEF N
  <2> QED BY <1>3, <1>4, <2>3, <2>4
<1>5. ASSUME Flush, notes' \in 0..MaxNote PROVE PaperType' /\ Held'
  <2>1. /\ painted' = N /\ doc' \subseteq 1..N
        /\ \A i \in 1..N : i \in doc' \/ Blocks(i + 1 .. N) >= Floor
    BY <1>5, FlushIs
  <2>2. PICK p \in 0..N, D \in SUBSET (1..N) : p = N /\ D = doc'
    BY <1>1, <2>1
  <2>4. \A i \in 1..N : i > p \/ i \in D \/ Blocks(i + 1 .. p) >= Floor
    BY <2>1, <2>2
  <2> HIDE DEF N
  <2> QED BY <1>3, <1>5, <2>1, <2>2, <2>4
<1>6. CASE \E c \in Chunks : Read(c)
  BY <1>2, <1>4, <1>6 DEF Read, paper
<1>7. CASE FlushIfIdle \/ NewSession \/ OnConnLines
  BY <1>2, <1>4, <1>7 DEF FlushIfIdle, NewSession, OnConnLines, paper
<1>8. CASE DrawLine \/ ShedLine \/ OnMatch
  BY <1>2, <1>4, <1>8 DEF DrawLine, ShedLine, OnMatch, Handle, paper
<1>9. CASE FlushTimer
  BY <1>2, <1>5, <1>9 DEF FlushTimer
<1>10. CASE UNCHANGED vars
  BY <1>2, <1>4, <1>10 DEF vars, paper
<1>11. ASSUME NEW e \in events, Jump(e) PROVE PaperType' /\ Held'
  <2>1. notes' \in 0..MaxNote
    BY <1>2, <1>11, BoundsAssumption DEF Jump
  <2> QED BY <1>4, <1>5, <1>11, <2>1 DEF Jump
<1> QED BY <1>6, <1>7, <1>8, <1>9, <1>10, <1>11 DEF Next

-----------------------------------------------------------------------------
(* The bytes *)

\* Every step leaves no empty line waiting.
LEMMA SolidStep ==
  ASSUME TypeOK, Solid, [Next]_vars
  PROVE  Solid'
<1>0. /\ posted \in Seq(Seq(Line)) /\ backlog \in Seq(Line) /\ buf \in Line
      /\ Full(backlog) /\ \A i \in 1..Len(posted) : Full(posted[i])
  BY TypeParts DEF ReaderType, Solid
<1>1. ASSUME NEW chunk \in Chunks, Read(chunk) PROVE Solid'
  <2> DEFINE s == buf \o Arrived(chunk)
             fed == Split(s, wire')
             raws == fed.lines \o Pieces(fed.rest)
  <2>1. /\ Len(wire) + Len(chunk) <= MaxByte /\ UNCHANGED backlog /\ Deliver(raws, wire')
    BY <1>1 DEF Read, Arrived
  <2>2. s \in Line
    BY <1>0, <2>1, ChunkIs DEF Line
  <2> HIDE DEF s
  <2>3. raws \in Seq(Line)
    BY <2>2, SplitRead
  <2> HIDE DEF raws, fed
  <2>4. \A i \in 1..Len(posted') : Full(posted'[i])
    BY <2>1, <2>3, DeliverIs
  <2> QED BY <1>0, <2>1, <2>4 DEF Solid
<1>2. ASSUME FlushIfIdle PROVE Solid'
  <2>1. <<buf>> \in Seq(Line)
    BY <1>0
  <2>2. \A i \in 1..Len(posted') : Full(posted'[i])
    BY <1>2, <2>1, DeliverIs DEF FlushIfIdle
  <2> QED BY <1>0, <1>2, <2>2 DEF FlushIfIdle, Solid
<1>3. ASSUME OnConnLines PROVE Solid'
  <2> DEFINE h == Head(posted)
             B == Seq(Line)
  <2>1. posted # <<>> /\ backlog' = backlog \o h /\ posted' = Tail(posted)
    BY <1>3 DEF OnConnLines
  <2>2. posted \in Seq(B) /\ posted # <<>>
    BY <1>0, <2>1
  <2> HIDE DEF B
  <2>3. /\ h = posted[1] /\ 1 \in 1..Len(posted) /\ h \in B
        /\ \A i \in 1..Len(Tail(posted)) : Tail(posted)[i] = posted[i + 1] /\ i + 1 \in 1..Len(posted)
    BY <2>2, Queue
  <2>4. Full(h) /\ \A i \in 1..Len(posted') : Full(posted'[i])
    BY <1>0, <2>1, <2>3
  <2>5. h \in Seq(Line)
    BY <2>3 DEF B
  <2> HIDE DEF h
  <2>6. Full(backlog \o h)
    BY <1>0, <2>4, <2>5 DEF Full
  <2> QED BY <2>1, <2>4, <2>6 DEF Solid
<1>4. ASSUME backlog # <<>>, backlog' = Tail(backlog), UNCHANGED posted PROVE Solid'
  <2>1. \A i \in 1..Len(Tail(backlog)) : Tail(backlog)[i] = backlog[i + 1] /\ i + 1 \in 1..Len(backlog)
    BY <1>0, <1>4, Queue
  <2>2. Full(Tail(backlog))
    BY <1>0, <2>1 DEF Full
  <2> QED BY <1>0, <1>4, <2>2 DEF Solid
<1>5. ASSUME UNCHANGED <<posted, backlog>> PROVE Solid'
  BY <1>0, <1>5 DEF Solid
<1>6. CASE DrawLine \/ ShedLine
  BY <1>4, <1>6 DEF DrawLine, ShedLine, Handle
<1>7. CASE NewSession \/ OnMatch \/ FlushTimer \/ UNCHANGED vars
  BY <1>5, <1>7 DEF NewSession, OnMatch, FlushTimer, vars
<1>8. CASE \E e \in events : Jump(e)
  BY <1>5, <1>8 DEF Jump
<1> QED BY <1>1, <1>2, <1>3, <1>6, <1>7, <1>8 DEF Next

\* Four runs of bytes, joined from the left or from the right.
LEMMA LineAssoc4 ==
  ASSUME NEW x \in Line, NEW p \in Line, NEW c \in Line, NEW f \in Line
  PROVE  /\ x \o ((p \o c) \o f) = ((x \o p) \o c) \o f
         /\ ((x \o p) \o c) \in Line
<1> DEFINE pc == p \o c
           xp == x \o p
<1>1. pc \in Line /\ xp \in Line
  BY DEF Line
<1>2. x \o pc = xp \o c
  BY LineAssoc
<1> HIDE DEF pc, xp
<1>3. x \o (pc \o f) = (x \o pc) \o f
  BY SMTT(30), <1>1, LineAssoc
<1>4. x \o (pc \o f) = (xp \o c) \o f
  BY <1>2, <1>3
<1>5. xp \o c \in Line
  BY <1>1 DEF Line
<1> QED BY <1>4, <1>5 DEF pc, xp

\* Three runs of bytes, joined from the left or from the right.
Assoc(x, y, z) == (x \o y) \o z = x \o (y \o z)

LEMMA LinesAssoc ==
  ASSUME NEW x \in Line, NEW y \in Line, NEW z \in Line
  PROVE  Assoc(x, y, z)
BY LineAssoc DEF Assoc

\* The bytes in order, when a part of them goes one place on.
Regroups(x, p, c, b, n, p1, c1, b1, f) ==
  p1 \o c1 = (p \o c) \o f /\ f \o b1 = b \o n
    => ((x \o p1) \o c1) \o b1 = (((x \o p) \o c) \o b) \o n

LEMMA Regroup ==
  ASSUME NEW x \in Line, NEW p \in Line, NEW c \in Line, NEW b \in Line, NEW n \in Line,
         NEW p1 \in Line, NEW c1 \in Line, NEW b1 \in Line, NEW f \in Line
  PROVE  Regroups(x, p, c, b, n, p1, c1, b1, f)
<1> DEFINE xc == (x \o p) \o c
<1>1. x \o ((p \o c) \o f) = xc \o f /\ xc \in Line
  BY LineAssoc4, Zenon
<1> HIDE DEF xc
<1>2. Assoc(x, p1, c1) /\ Assoc(xc, f, b1) /\ Assoc(xc, b, n)
  BY <1>1, LinesAssoc
<1>3. ASSUME p1 \o c1 = (p \o c) \o f, f \o b1 = b \o n
      PROVE  ((x \o p1) \o c1) \o b1 = (xc \o b) \o n
  <2>1. (x \o p1) \o c1 = xc \o f
    BY <1>1, <1>2, <1>3, Zenon DEF Assoc
  <2>2. (xc \o f) \o b1 = (xc \o b) \o n
    BY <1>2, <1>3, Zenon DEF Assoc
  <2> QED BY <2>1, <2>2, Zenon
<1> QED BY <1>3, Zenon DEF xc, Regroups

\* The parts of the stream are runs of bytes.
LEMMA StreamIs ==
  ASSUME ReaderType, handled \in Seq(Line)
  PROVE  /\ FlattenSeq(handled) \in Line /\ FlattenSeq(backlog) \in Line
         /\ FlattenSeq(posted) \in Seq(Line) /\ FlattenSeq(FlattenSeq(posted)) \in Line
         /\ Stream \in Line
         /\ ((FlattenSeq(handled) \o FlattenSeq(backlog)) \o FlattenSeq(FlattenSeq(posted))) \o carry \in Line
         /\ FlattenSeq(handled) \o FlattenSeq(backlog) \in Line
<1>1. /\ posted \in Seq(Seq(Line)) /\ backlog \in Seq(Line) /\ handled \in Seq(Line)
      /\ carry \in Line /\ buf \in Line
  BY DEF ReaderType
<1>2. FlattenSeq(handled) \in Line /\ FlattenSeq(backlog) \in Line
  BY <1>1, FlattenType DEF Line
<1>3. FlattenSeq(posted) \in Seq(Line)
  BY <1>1, FlattenType
<1>4. FlattenSeq(FlattenSeq(posted)) \in Line
  BY <1>3, FlattenType DEF Line
<1>5. \A u, v \in Line : u \o v \in Line
  BY DEF Line
<1> QED BY <1>1, <1>2, <1>3, <1>4, <1>5 DEF Stream

\* A line that is handled stays in the stream, and so does a batch that is queued.
LEMMA QueuesKeep ==
  ASSUME ReaderType, handled \in Seq(Line)
  PROVE  /\ backlog # <<>> =>
              FlattenSeq(Append(handled, Head(backlog))) \o FlattenSeq(Tail(backlog))
                = FlattenSeq(handled) \o FlattenSeq(backlog)
         /\ posted # <<>> =>
              (FlattenSeq(handled) \o FlattenSeq(backlog \o Head(posted))) \o FlattenSeq(FlattenSeq(Tail(posted)))
                = (FlattenSeq(handled) \o FlattenSeq(backlog)) \o FlattenSeq(FlattenSeq(posted))
<1> DEFINE H == FlattenSeq(handled)
           B == FlattenSeq(backlog)
<1>0. /\ posted \in Seq(Seq(Line)) /\ backlog \in Seq(Line) /\ handled \in Seq(Line)
      /\ H \in Line /\ B \in Line
  BY StreamIs DEF ReaderType
<1>1. ASSUME backlog # <<>>
      PROVE FlattenSeq(Append(handled, Head(backlog))) \o FlattenSeq(Tail(backlog)) = H \o B
  <2> DEFINE l == Head(backlog)
             t == FlattenSeq(Tail(backlog))
  <2>1. l \in Line /\ Tail(backlog) \in Seq(Line)
    BY <1>0, <1>1, Queue
  <2>2. B = l \o t
    BY <1>0, <1>1, FlattenHead DEF Line
  <2>3. t \in Line
    BY <2>1, FlattenType DEF Line
  <2>4. FlattenSeq(Append(handled, l)) = H \o l
    BY <1>0, <2>1, FlattenAppend DEF Line
  <2> HIDE DEF H, B, l, t
  <2>5. Assoc(H, l, t)
    BY <1>0, <2>1, <2>3, LinesAssoc
  <2>6. FlattenSeq(Append(handled, l)) \o t = H \o B
    BY <2>2, <2>4, <2>5, Zenon DEF Assoc
  <2> QED BY <2>6 DEF l, t
<1>2. ASSUME posted # <<>>
      PROVE (H \o FlattenSeq(backlog \o Head(posted))) \o FlattenSeq(FlattenSeq(Tail(posted)))
              = (H \o B) \o FlattenSeq(FlattenSeq(posted))
  <2> DEFINE h == Head(posted)
             t == FlattenSeq(Tail(posted))
             f == FlattenSeq(h)
             g == FlattenSeq(t)
  <2>1. h \in Seq(Line) /\ Tail(posted) \in Seq(Seq(Line))
    BY <1>0, <1>2, Queue
  <2>2. FlattenSeq(posted) = h \o t
    BY <1>0, <1>2, FlattenHead
  <2>3. t \in Seq(Line)
    BY <2>1, FlattenType
  <2> HIDE DEF h, t
  <2>4. FlattenSeq(h \o t) = f \o g
    BY <2>1, <2>3, FlattenConcat DEF Line
  <2>5. FlattenSeq(backlog \o h) = B \o f
    BY <1>0, <2>1, FlattenConcat DEF Line
  <2>6. f \in Line /\ g \in Line
    BY <2>1, <2>3, FlattenType DEF Line
  <2>61. FlattenSeq(FlattenSeq(posted)) = f \o g
    BY <2>2, <2>4
  <2> HIDE DEF H, B, f, g
  <2>62. H \o B \in Line
    BY <1>0 DEF Line
  <2> DEFINE HB == H \o B
  <2>63. HB \in Line
    BY <2>62
  <2>64. Assoc(H, B, f)
    BY <1>0, <2>6, LinesAssoc
  <2>65. HB \o f = H \o (B \o f)
    BY <2>64 DEF Assoc
  <2> HIDE DEF HB
  <2>7. Assoc(HB, f, g)
    BY <2>6, <2>63, LinesAssoc
  <2>8. (H \o FlattenSeq(backlog \o h)) \o g = HB \o (f \o g)
    BY <2>5, <2>65, <2>7, Zenon DEF Assoc
  <2> QED BY <2>61, <2>8 DEF HB, h, t, g
<1> QED BY <1>1, <1>2 DEF H, B

\* The stream in order, and nothing of it dropped: EveryByte by its parts.
Past == dropped \subseteq 1..Len(wire)
LEMMA EveryByteIs ==
  EveryByte <=> ToSet(Stream) = 1..Len(wire) \ dropped /\ Rising(Stream)
BY DEF EveryByte, Rising

\* Bytes that arrive go to the end of the stream.
LEMMA StreamGrows ==
  ASSUME TypeOK, EveryByte, Past, NEW chunk \in Chunks, Len(wire) + Len(chunk) <= MaxByte,
         wire' = wire \o chunk, Stream' = Stream \o Arrived(chunk), UNCHANGED dropped
  PROVE  EveryByte' /\ Past'
<1> DEFINE n == Arrived(chunk)
           N == Len(wire)
           K == Len(chunk)
           S == Stream
<1>1. /\ n \in Line /\ Len(wire') = N + K /\ N \in Nat /\ K \in Nat
  BY ChunkIs
<1>2. S \in Line
  BY TypeParts, StreamIs DEF DisplayType
<1>3. /\ Len(n) = K /\ DOMAIN n = 1..K /\ \A i \in 1..K : n[i] = N + i
  BY <1>1 DEF Arrived
<1>4. ToSet(S) = 1..N \ dropped /\ Rising(S)
  BY EveryByteIs
<1>41. dropped \subseteq 1..N
  BY DEF Past
<1>42. Stream' = S \o n /\ dropped' = dropped
  OBVIOUS
<1> HIDE DEF n, N, K, S
<1>5. ToSet(n) = N + 1 .. N + K
  <2>1. ASSUME NEW b \in N + 1 .. N + K PROVE b \in ToSet(n)
    <3>1. b - N \in 1..K /\ N + (b - N) = b
      BY <1>1
    <3>2. n[b - N] = b
      BY <1>3, <3>1
    <3> QED BY <1>3, <3>1, <3>2 DEF ToSet
  <2>2. \A i \in 1..K : N + i \in N + 1 .. N + K
    BY <1>1
  <2> QED BY <1>3, <2>1, <2>2 DEF ToSet
<1>6. Rising(n)
  BY <1>1, <1>3 DEF Rising
<1>7. \A a \in ToSet(S), b \in ToSet(n) : a < b
  BY <1>1, <1>4, <1>5
<1>8. ToSet(S \o n) = ToSet(S) \cup ToSet(n) /\ Rising(S \o n)
  BY <1>1, <1>2, <1>4, <1>6, <1>7, RisingConcat
<1>9. ToSet(S \o n) = 1..(N + K) \ dropped
  BY <1>1, <1>4, <1>41, <1>5, <1>8
<1>10. (ToSet(Stream) = 1..Len(wire) \ dropped)' /\ Rising(Stream)'
  <2>1. ToSet(Stream)' = ToSet(S \o n)
    BY <1>42 DEF ToSet
  <2>2. Rising(Stream)' <=> Rising(S \o n)
    BY <1>42 DEF Rising
  <2> QED BY <1>1, <1>42, <1>8, <1>9, <2>1, <2>2
<1>11. EveryByte'
  BY <1>10, EveryByteIs, PTL
<1>12. Past'
  BY <1>1, <1>41, <1>42 DEF Past
<1> QED BY <1>11, <1>12

\* What the reader thread delivers from the end of the stream stays at its end.
LEMMA DeliverKeeps ==
  ASSUME TypeOK, Solid, NEW raws \in Seq(Line), NEW w, Deliver(raws, w), NEW n \in Line,
         buf' \in Line, FlattenSeq(raws) \o buf' = buf \o n, UNCHANGED <<backlog, handled>>
  PROVE  Stream' = Stream \o n
<1> DEFINE x  == FlattenSeq(handled) \o FlattenSeq(backlog)
           p  == FlattenSeq(FlattenSeq(posted))
           p1 == FlattenSeq(FlattenSeq(posted'))
           f  == FlattenSeq(raws)
<1>1. x \in Line /\ p \in Line /\ carry \in Line /\ buf \in Line
  BY TypeParts, StreamIs DEF DisplayType, ReaderType
<1>2. carry' \in Line /\ posted' \in Seq(Seq(Line)) /\ p1 \o carry' = (p \o carry) \o f
  BY DeliverIs
<1>3. f \in Line
  BY FlattenType DEF Line
<1>4. p1 \in Line
  <2>1. FlattenSeq(posted') \in Seq(Line)
    BY <1>2, FlattenType
  <2> QED BY <2>1, FlattenType DEF Line
<1>5. Stream = ((x \o p) \o carry) \o buf /\ Stream' = ((x \o p1) \o carry') \o buf'
  BY DEF Stream
<1>6. f \o buf' = buf \o n
  OBVIOUS
<1> HIDE DEF x, p, p1, f
<1>7. Regroups(x, p, carry, buf, n, p1, carry', buf', f)
  BY <1>1, <1>2, <1>3, <1>4, Regroup
<1> QED BY <1>2, <1>5, <1>6, <1>7, Zenon DEF Regroups

\* Every step keeps every byte: what no session's end dropped is in the stream, in
\* the order it arrived.
LEMMA StreamStep ==
  ASSUME TypeOK, Solid, EveryByte, Past, [Next]_vars
  PROVE  EveryByte' /\ Past'
<1>0. /\ ReaderType /\ handled \in Seq(Line) /\ buf \in Line /\ Stream \in Line
  BY TypeParts, StreamIs DEF DisplayType, ReaderType
<1>1. ASSUME Stream' = Stream, UNCHANGED <<wire, dropped>> PROVE EveryByte' /\ Past'
  <2>1. ToSet(Stream)' = ToSet(Stream) /\ (Rising(Stream)' <=> Rising(Stream))
    BY <1>1 DEF ToSet, Rising
  <2>2. (ToSet(Stream) = 1..Len(wire) \ dropped)' /\ Rising(Stream)'
    BY <1>1, <2>1, EveryByteIs
  <2>3. EveryByte'
    BY <2>2, EveryByteIs, PTL
  <2> QED BY <1>1, <2>3 DEF Past
<1>2. ASSUME NEW chunk \in Chunks, Read(chunk) PROVE EveryByte' /\ Past'
  <2> DEFINE s == buf \o Arrived(chunk)
             fed == Split(s, wire')
             raws == fed.lines \o Pieces(fed.rest)
  <2>1. /\ Len(wire) + Len(chunk) <= MaxByte /\ wire' = wire \o chunk /\ buf' = Left(fed.rest)
        /\ Deliver(raws, wire') /\ UNCHANGED <<backlog, handled, dropped>>
    BY <1>2 DEF Read, Arrived, display
  <2>2. Arrived(chunk) \in Line
    BY <2>1, ChunkIs
  <2>3. s \in Line
    BY <1>0, <2>2 DEF Line
  <2>4. raws \in Seq(Line) /\ buf' \in Line /\ FlattenSeq(raws) \o buf' = buf \o Arrived(chunk)
    <3> HIDE DEF s
    <3>1. raws \in Seq(Line) /\ Left(fed.rest) \in Line /\ FlattenSeq(raws) \o Left(fed.rest) = s
      BY <2>3, SplitRead
    <3> QED BY <2>1, <3>1 DEF s
  <2> HIDE DEF raws, fed, s
  <2>5. Stream' = Stream \o Arrived(chunk)
    BY <2>1, <2>2, <2>4, DeliverKeeps
  <2> QED BY <2>1, <2>5, StreamGrows
<1>3. ASSUME FlushIfIdle PROVE EveryByte' /\ Past'
  <2>1. Deliver(<<buf>>, wire) /\ buf' = <<>> /\ UNCHANGED <<wire, backlog, handled, dropped>>
    BY <1>3 DEF FlushIfIdle, display
  <2>2. <<buf>> \in Seq(Line) /\ <<>> \in Line
    BY <1>0 DEF Line
  <2>3. FlattenSeq(<<buf>>) \o <<>> = buf \o <<>>
    <3>1. FlattenSeq(<<>>) = <<>> /\ <<>> \in Seq(Line) /\ Append(<<>>, buf) = <<buf>>
      BY <1>0 DEF FlattenSeq
    <3>2. FlattenSeq(Append(<<>>, buf)) = FlattenSeq(<<>>) \o buf
      BY <1>0, <3>1, FlattenAppend DEF Line
    <3>3. <<>> \o buf = buf
      BY <1>0 DEF Line
    <3> QED BY <3>1, <3>2, <3>3
  <2>4. Stream' = Stream \o <<>>
    BY <2>1, <2>2, <2>3, DeliverKeeps
  <2>5. Stream \o <<>> = Stream
    BY <1>0 DEF Line
  <2> QED BY <1>1, <2>1, <2>4, <2>5
<1>4. ASSUME NewSession PROVE EveryByte' /\ Past'
  <2> DEFINE y == ((FlattenSeq(handled) \o FlattenSeq(backlog)) \o FlattenSeq(FlattenSeq(posted))) \o carry
  <2>1. /\ dropped' = dropped \cup ToSet(buf) /\ buf' = <<>>
        /\ UNCHANGED <<wire, carry, posted, backlog, handled>>
    BY <1>4 DEF NewSession, display
  <2>2. y \in Line
    BY <1>0, StreamIs
  <2>3. Stream = y \o buf /\ Stream' = y \o <<>>
    BY <2>1 DEF Stream
  <2> HIDE DEF y
  <2>4. y \o <<>> = y
    BY <2>2 DEF Line
  <2>5. ToSet(y \o buf) = ToSet(y) \cup ToSet(buf) /\ (Rising(y \o buf) => Rising(y) /\ ToSet(y) \cap ToSet(buf) = {})
    BY <1>0, <2>2, RisingConcat
  <2>6. ToSet(Stream) = 1..Len(wire) \ dropped /\ Rising(y \o buf)
    BY <2>3, EveryByteIs
  <2>7. ToSet(y) = 1..Len(wire) \ (dropped \cup ToSet(buf)) /\ Rising(y)
    BY <2>3, <2>5, <2>6
  <2>8. ToSet(Stream)' = ToSet(y) /\ (Rising(Stream)' <=> Rising(y))
    BY <2>3, <2>4 DEF ToSet, Rising
  <2>9. (ToSet(Stream) = 1..Len(wire) \ dropped)' /\ Rising(Stream)'
    BY <2>1, <2>7, <2>8
  <2>10. EveryByte'
    BY <2>9, EveryByteIs, PTL
  <2>11. ToSet(buf) \subseteq 1..Len(wire)
    BY <2>3, <2>5, <2>6
  <2> QED BY <2>1, <2>10, <2>11 DEF Past
<1>5. ASSUME OnConnLines PROVE EveryByte' /\ Past'
  <2>1. /\ posted # <<>> /\ backlog' = backlog \o Head(posted) /\ posted' = Tail(posted)
        /\ UNCHANGED <<wire, buf, carry, dropped, handled>>
    BY <1>5 DEF OnConnLines, reader, display
  <2>2. (FlattenSeq(handled) \o FlattenSeq(backlog \o Head(posted))) \o FlattenSeq(FlattenSeq(Tail(posted)))
          = (FlattenSeq(handled) \o FlattenSeq(backlog)) \o FlattenSeq(FlattenSeq(posted))
    BY <1>0, <2>1, QueuesKeep
  <2>3. Stream' = Stream
    BY <2>1, <2>2 DEF Stream
  <2> QED BY <1>1, <2>1, <2>3
<1>6. ASSUME backlog # <<>>, backlog' = Tail(backlog), handled' = Append(handled, Head(backlog)),
             UNCHANGED <<wire, buf, carry, posted, dropped>>
      PROVE  EveryByte' /\ Past'
  <2>1. FlattenSeq(Append(handled, Head(backlog))) \o FlattenSeq(Tail(backlog))
          = FlattenSeq(handled) \o FlattenSeq(backlog)
    BY <1>0, <1>6, QueuesKeep
  <2>2. Stream' = Stream
    BY <1>6, <2>1 DEF Stream
  <2> QED BY <1>1, <1>6, <2>2
<1>7. ASSUME UNCHANGED <<reader, posted, backlog, handled>> PROVE EveryByte' /\ Past'
  BY <1>1, <1>7 DEF Stream, reader
<1>8. CASE DrawLine \/ ShedLine
  BY <1>6, <1>8 DEF DrawLine, ShedLine, Handle, reader
<1>9. CASE OnMatch \/ FlushTimer \/ UNCHANGED vars
  BY <1>7, <1>9 DEF OnMatch, FlushTimer, vars, display
<1>10. CASE \E e \in events : Jump(e)
  BY <1>7, <1>10 DEF Jump
<1> QED BY <1>2, <1>3, <1>4, <1>5, <1>8, <1>9, <1>10 DEF Next

-----------------------------------------------------------------------------
(* The lines *)

\* A line that waits was not handled: its first byte would be twice in the stream.
LEMMA Fresh ==
  ASSUME TypeOK, Solid, EveryByte, backlog # <<>>, NEW k \in 1..Len(handled)
  PROVE  handled[k] # Head(backlog)
<1> DEFINE H == FlattenSeq(handled)
           B == FlattenSeq(backlog)
           Q == (FlattenSeq(FlattenSeq(posted)) \o carry) \o buf
           l == Head(backlog)
           t == FlattenSeq(Tail(backlog))
<1>0. /\ ReaderType /\ handled \in Seq(Line) /\ backlog \in Seq(Line) /\ buf \in Line /\ carry \in Line
      /\ H \in Line /\ B \in Line /\ FlattenSeq(FlattenSeq(posted)) \in Line
  BY TypeParts, StreamIs DEF DisplayType, ReaderType
<1>1. l \in Line /\ l # <<>> /\ Tail(backlog) \in Seq(Line)
  BY <1>0, Queue DEF Solid, Full
<1>2. B = l \o t /\ t \in Line
  <2>1. B = l \o t
    BY <1>0, FlattenHead DEF Line
  <2> QED BY <1>1, <2>1, FlattenType DEF Line
<1>3. SUFFICES ASSUME handled[k] = l PROVE FALSE
  OBVIOUS
<1>4. 1 \in 1..Len(l) /\ l[1] \in ToSet(l)
  BY <1>1 DEF Line, ToSet
<1>5. l[1] \in ToSet(H)
  <2>1. \E p \in 1..Len(H) : H[p] = handled[k][1]
    BY <1>0, <1>3, <1>4, FlattenHas DEF Line
  <2>2. DOMAIN H = 1..Len(H)
    BY <1>0 DEF Line
  <2> QED BY <1>3, <2>1, <2>2 DEF ToSet
<1>6. l[1] \in ToSet(B)
  BY <1>1, <1>2, <1>4, RisingConcat
<1>7. Rising(Stream)
  BY EveryByteIs
<1> DEFINE P == FlattenSeq(FlattenSeq(posted))
           HB == H \o B
           HBP == HB \o P
           HBPc == HBP \o carry
<1>8. Stream = HBPc \o buf
  BY DEF Stream
<1> HIDE DEF H, B, P
<1>9. HB \in Line
  BY <1>0 DEF Line
<1> HIDE DEF HB
<1>10. HBP \in Line
  BY <1>0, <1>9 DEF Line, P
<1> HIDE DEF HBP
<1>11. HBPc \in Line
  BY <1>0, <1>10 DEF Line
<1> HIDE DEF HBPc
<1>12. Rising(HBPc)
  BY <1>0, <1>7, <1>8, <1>11, RisingConcat
<1>13. Rising(HBP)
  BY <1>0, <1>10, <1>12, RisingConcat DEF HBPc
<1>14. Rising(HB)
  BY <1>0, <1>9, <1>13, RisingConcat DEF HBP, P
<1>15. ToSet(H) \cap ToSet(B) = {}
  BY <1>0, <1>14, RisingConcat DEF HB
<1> QED BY <1>5, <1>6, <1>15

\* The offset counts the bytes of the lines that were handled.
Counted == offset = Len(FlattenSeq(handled))

\* A match or an event is about a line that was handled, and if the line was drawn
\* it has the id of the line's row.
Notes  == ToSet(matches) \cup events
Linked ==
  \A m \in Notes :
    /\ m.line \in ToSet(handled)
    /\ Drawn(m.line) => \E i \in 1..Len(term) :
         term[i].what = "RX" /\ term[i].id = m.id /\ term[i].line = m.line

\* A step handles the next line, drawing it or not, or none.
LEMMA HandledStep ==
  ASSUME TypeOK, [Next]_vars
  PROVE  \/ UNCHANGED <<handled, offset>> /\ ~DrawLine
         \/ /\ backlog # <<>> /\ Head(backlog) \in Line
            /\ handled' = Append(handled, Head(backlog)) /\ offset' = offset + Len(Head(backlog))
<1>1. ASSUME DrawLine \/ ShedLine
      PROVE  /\ backlog # <<>> /\ Head(backlog) \in Line
             /\ handled' = Append(handled, Head(backlog)) /\ offset' = offset + Len(Head(backlog))
  <2>1. /\ backlog # <<>>
        /\ handled' = Append(handled, Head(backlog)) /\ offset' = offset + Len(Head(backlog))
    BY <1>1 DEF DrawLine, ShedLine, Handle
  <2>2. Head(backlog) \in Line
    BY <2>1, TypeParts, Queue DEF ReaderType
  <2> QED BY <2>1, <2>2
<1>2. CASE (\E c \in Chunks : Read(c)) \/ FlushIfIdle \/ NewSession \/ OnConnLines
  BY <1>1, <1>2 DEF Read, FlushIfIdle, NewSession, OnConnLines, display
<1>3. CASE OnMatch \/ FlushTimer \/ UNCHANGED vars
  BY <1>1, <1>3 DEF OnMatch, FlushTimer, vars, display
<1>4. CASE \E e \in events : Jump(e)
  BY <1>1, <1>4 DEF Jump
<1> QED BY <1>1, <1>2, <1>3, <1>4 DEF Next

\* The lines handled before stay where they are, and one more may be last.
LEMMA HandledGrows ==
  ASSUME NEW h \in Seq(Line), NEW l \in Line
  PROVE  /\ Len(h) \in Nat /\ Len(Append(h, l)) = Len(h) + 1 /\ Append(h, l)[Len(h) + 1] = l
         /\ SubSeq(Append(h, l), 1, Len(h)) = h
         /\ ToSet(Append(h, l)) = ToSet(h) \cup {l}
         /\ \A k \in 1..Len(h) :
              Append(h, l)[k] = h[k] /\ SubSeq(Append(h, l), 1, k - 1) = SubSeq(h, 1, k - 1)
<1> DEFINE g == Append(h, l)
<1>1. /\ Len(h) \in Nat /\ Len(g) = Len(h) + 1 /\ g[Len(h) + 1] = l
      /\ \A k \in 1..Len(h) : g[k] = h[k]
      /\ g \in Seq(Line)
  OBVIOUS
<1>2. SubSeq(g, 1, Len(h)) = h
  OBVIOUS
<1>3. ToSet(g) = ToSet(h) \cup {l}
  <2>1. DOMAIN g = 1..(Len(h) + 1) /\ DOMAIN h = 1..Len(h)
    BY <1>1
  <2>2. \A k \in 1..(Len(h) + 1) : k \in 1..Len(h) \/ k = Len(h) + 1
    BY <1>1
  <2>3. Len(h) + 1 \in 1..(Len(h) + 1) /\ 1..Len(h) \subseteq 1..(Len(h) + 1)
    BY <1>1
  <2> HIDE DEF g
  <2> QED BY <1>1, <2>1, <2>2, <2>3 DEF ToSet
<1>4. ASSUME NEW k \in 1..Len(h) PROVE SubSeq(g, 1, k - 1) = SubSeq(h, 1, k - 1)
  <2> HIDE DEF g
  <2> QED BY <1>1
<1> QED BY <1>1, <1>2, <1>3, <1>4

\* Every step counts the bytes of the line it handles, drawn or not.
LEMMA CountedStep ==
  ASSUME TypeOK, Counted, [Next]_vars
  PROVE  Counted'
<1>1. CASE UNCHANGED <<handled, offset>>
  BY <1>1 DEF Counted
<1>2. CASE /\ backlog # <<>> /\ Head(backlog) \in Line
           /\ handled' = Append(handled, Head(backlog)) /\ offset' = offset + Len(Head(backlog))
  <2> DEFINE l == Head(backlog)
             H == FlattenSeq(handled)
  <2>1. handled \in Seq(Line) /\ l \in Line
    BY <1>2, TypeParts DEF DisplayType
  <2>2. FlattenSeq(Append(handled, l)) = H \o l /\ H \in Line
    BY <2>1, FlattenAppend, FlattenType DEF Line
  <2> HIDE DEF l, H
  <2>3. Len(H \o l) = Len(H) + Len(l)
    BY <2>1, <2>2 DEF Line
  <2> QED BY <1>2, <2>2, <2>3 DEF Counted, l, H
<1> QED BY <1>1, <1>2, HandledStep

\* Every step keeps the offsets true.
LEMMA OffsetStep ==
  ASSUME TypeOK, Counted, OffsetTrue, [Next]_vars
  PROVE  OffsetTrue'
<1>0. handled \in Seq(Line)
  BY TypeParts DEF DisplayType
<1>1. Grown
  BY GrownStep
<1>2. SUFFICES ASSUME NEW i \in 1..Len(term'), term'[i].what = "RX"
               PROVE  \E k \in 1..Len(handled') :
                        /\ handled'[k] = term'[i].line
                        /\ term'[i].at = Len(FlattenSeq(SubSeq(handled', 1, k - 1)))
  BY DEF OffsetTrue
<1>3. CASE i \in 1..Len(term)
  <2>1. PICK k \in 1..Len(handled) :
          /\ handled[k] = term[i].line
          /\ term[i].at = Len(FlattenSeq(SubSeq(handled, 1, k - 1)))
    BY <1>1, <1>2, <1>3 DEF OffsetTrue, Grown
  <2>2. term'[i] = term[i]
    BY <1>1, <1>3 DEF Grown
  <2>3. k \in 1..Len(handled') /\ handled'[k] = handled[k] /\ SubSeq(handled', 1, k - 1) = SubSeq(handled, 1, k - 1)
    <3>1. CASE UNCHANGED <<handled, offset>>
      BY <3>1
    <3>2. CASE Head(backlog) \in Line /\ handled' = Append(handled, Head(backlog))
      BY <1>0, <3>2, HandledGrows
    <3> QED BY <3>1, <3>2, HandledStep
  <2> QED BY <2>1, <2>2, <2>3
<1>4. CASE ~(i \in 1..Len(term))
  <2>1. DrawLine /\ term'[i] = Rx(Head(backlog), seq + 1)
    BY <1>1, <1>2, <1>4 DEF Grown
  <2>2. Head(backlog) \in Line /\ handled' = Append(handled, Head(backlog))
    BY <2>1, HandledStep
  <2> DEFINE k == Len(handled) + 1
  <2>3. /\ k \in 1..Len(handled') /\ handled'[k] = Head(backlog) /\ k - 1 = Len(handled)
        /\ SubSeq(handled', 1, Len(handled)) = handled
    BY <1>0, <2>2, HandledGrows
  <2>4. term'[i].line = Head(backlog) /\ term'[i].at = offset
    BY <2>1 DEF Rx
  <2> HIDE DEF k
  <2>5. Len(FlattenSeq(SubSeq(handled', 1, k - 1))) = offset
    BY <2>3 DEF Counted
  <2> QED BY <2>3, <2>4, <2>5
<1> QED BY <1>3, <1>4

\* A step makes a note of no line but the one it handles.
LEMMA NotesStep ==
  ASSUME TypeOK, [Next]_vars, NEW m \in Notes'
  PROVE  \/ m \in Notes
         \/ DrawLine /\ m = [line |-> Head(backlog), id |-> seq + 1]
         \/ ~DrawLine /\ ShedLine /\ m.line = Head(backlog)
<1>0. matches \in Seq(Note)
  BY TypeParts DEF DisplayType
<1>1. ASSUME NEW id, Handle(id) PROVE m \in Notes \/ m = [line |-> Head(backlog), id |-> id]
  <2> DEFINE x == [line |-> Head(backlog), id |-> id]
  <2>1. (matches' = Append(matches, x) \/ matches' = matches) /\ events' = events
    BY <1>1 DEF Handle
  <2> HIDE DEF x
  <2>2. DOMAIN matches = 1..Len(matches) /\ Len(matches) \in Nat
    BY <1>0
  <2>3. ToSet(Append(matches, x)) \subseteq ToSet(matches) \cup {x}
    <3>1. /\ Len(Append(matches, x)) = Len(matches) + 1 /\ Append(matches, x)[Len(matches) + 1] = x
          /\ \A i \in 1..Len(matches) : Append(matches, x)[i] = matches[i]
      BY <1>0, TwoMore
    <3>2. DOMAIN Append(matches, x) = 1..(Len(matches) + 1)
      BY <1>0
    <3>3. \A i \in 1..(Len(matches) + 1) : i \in 1..Len(matches) \/ i = Len(matches) + 1
      BY <2>2
    <3> QED BY <2>2, <3>1, <3>2, <3>3 DEF ToSet
  <2>4. m \in Notes \/ m = x
    BY <2>1, <2>3 DEF Notes
  <2> QED BY <2>4 DEF x
<1>2. CASE DrawLine
  <2>1. Handle(seq + 1)
    BY <1>2 DEF DrawLine
  <2> QED BY <1>1, <1>2, <2>1
<1>3. CASE ~DrawLine /\ ShedLine
  <2>1. Handle(current)
    BY <1>3 DEF ShedLine
  <2> QED BY <1>1, <1>3, <2>1
<1>4. CASE OnMatch
  <2>1. matches # <<>> /\ matches' = Tail(matches) /\ events' = events \cup {Head(matches)}
    BY <1>4 DEF OnMatch
  <2>2. /\ Head(matches) = matches[1] /\ 1 \in 1..Len(matches) /\ Tail(matches) \in Seq(Note)
        /\ \A i \in 1..Len(Tail(matches)) : Tail(matches)[i] = matches[i + 1] /\ i + 1 \in 1..Len(matches)
    BY <1>0, <2>1, Queue
  <2>3. DOMAIN matches = 1..Len(matches) /\ DOMAIN Tail(matches) = 1..Len(Tail(matches))
    BY <1>0, <2>2
  <2>4. ToSet(Tail(matches)) \subseteq ToSet(matches) /\ Head(matches) \in ToSet(matches)
    BY <2>2, <2>3 DEF ToSet
  <2> QED BY <2>1, <2>4 DEF Notes
<1>5. CASE UNCHANGED <<matches, events>>
  BY <1>5 DEF Notes
<1>6. CASE (\E c \in Chunks : Read(c)) \/ FlushIfIdle \/ NewSession \/ OnConnLines
  BY <1>5, <1>6 DEF Read, FlushIfIdle, NewSession, OnConnLines, display
<1>7. CASE FlushTimer \/ UNCHANGED vars
  BY <1>5, <1>7 DEF FlushTimer, vars, display
<1>8. CASE \E e \in events : Jump(e)
  BY <1>5, <1>8 DEF Jump
<1> QED BY <1>2, <1>3, <1>4, <1>6, <1>7, <1>8 DEF Next

\* Every step keeps every match and event with its line's row.
LEMMA LinkedStep ==
  ASSUME TypeOK, Solid, EveryByte, OffsetTrue, Linked, [Next]_vars
  PROVE  Linked'
<1>0. handled \in Seq(Line) /\ Grown
  BY TypeParts, GrownStep DEF DisplayType
<1>1. ToSet(handled) \subseteq ToSet(handled')
  <2>1. CASE UNCHANGED <<handled, offset>>
    BY <2>1
  <2>2. CASE Head(backlog) \in Line /\ handled' = Append(handled, Head(backlog))
    BY <1>0, <2>2, HandledGrows
  <2> QED BY <2>1, <2>2, HandledStep
<1>2. ASSUME backlog # <<>> PROVE Head(backlog) \notin ToSet(handled)
  BY <1>0, <1>2, Fresh DEF ToSet
<1>3. ASSUME NEW l, l \in ToSet(handled), Drawn(l)' PROVE Drawn(l)
  <2>1. PICK i \in 1..Len(term') : term'[i].what = "RX" /\ term'[i].line = l
    BY <1>3 DEF Drawn
  <2>2. CASE i \in 1..Len(term)
    BY <1>0, <2>1, <2>2 DEF Drawn, Grown
  <2>3. CASE ~(i \in 1..Len(term))
    <3>1. DrawLine /\ term'[i] = Rx(Head(backlog), seq + 1)
      BY <1>0, <2>1, <2>3 DEF Grown
    <3>2. backlog # <<>> /\ l = Head(backlog)
      BY <2>1, <3>1 DEF Rx, DrawLine
    <3> QED BY <1>2, <1>3, <3>2
  <2> QED BY <2>2, <2>3
<1>4. SUFFICES ASSUME NEW m \in Notes'
               PROVE  /\ m.line \in ToSet(handled')
                      /\ Drawn(m.line)' => \E i \in 1..Len(term') :
                           term'[i].what = "RX" /\ term'[i].id = m.id /\ term'[i].line = m.line
  BY DEF Linked
<1>5. CASE m \in Notes
  <2>1. m.line \in ToSet(handled)
    BY <1>5 DEF Linked
  <2>2. ASSUME Drawn(m.line)'
        PROVE  \E i \in 1..Len(term') : term'[i].what = "RX" /\ term'[i].id = m.id /\ term'[i].line = m.line
    <3>1. Drawn(m.line)
      BY <1>3, <2>1, <2>2
    <3>2. PICK i \in 1..Len(term) : term[i].what = "RX" /\ term[i].id = m.id /\ term[i].line = m.line
      BY <1>5, <3>1 DEF Linked
    <3> QED BY <1>0, <3>2 DEF Grown
  <2> QED BY <1>1, <2>1, <2>2
<1>6. CASE DrawLine /\ m = [line |-> Head(backlog), id |-> seq + 1]
  <2>1. Head(backlog) \in ToSet(handled')
    BY <1>0, <1>6, HandledStep, HandledGrows
  <2>2. Len(term) + 1 \in 1..Len(term') /\ term'[Len(term) + 1] = Rx(Head(backlog), seq + 1)
    BY <1>0, <1>6 DEF Grown
  <2> DEFINE j == Len(term) + 1
  <2>3. j \in 1..Len(term') /\ term'[j] = Rx(Head(backlog), seq + 1)
    BY <2>2
  <2> HIDE DEF j
  <2>4. term'[j].what = "RX" /\ term'[j].id = m.id /\ term'[j].line = m.line /\ m.line = Head(backlog)
    BY <1>6, <2>3 DEF Rx
  <2> QED BY <2>1, <2>3, <2>4
<1>7. CASE ~DrawLine /\ ShedLine /\ m.line = Head(backlog)
  <2>1. backlog # <<>>
    BY <1>7 DEF ShedLine
  <2>2. handled' = Append(handled, Head(backlog)) /\ Head(backlog) \in Line
    <3>1. handled' = Append(handled, Head(backlog))
      BY <1>7 DEF ShedLine, Handle
    <3> QED BY <2>1, <3>1, TypeParts, Queue DEF ReaderType
  <2>3. m.line \in ToSet(handled')
    BY <1>0, <1>7, <2>2, HandledGrows
  <2>4. ASSUME Drawn(m.line)' PROVE FALSE
    <3>1. PICK i \in 1..Len(term') : term'[i].what = "RX" /\ term'[i].line = m.line
      BY <2>4 DEF Drawn
    <3>2. i \in 1..Len(term) /\ term[i] = term'[i]
      BY <1>0, <1>7, <3>1 DEF Grown
    <3>3. PICK k \in 1..Len(handled) : handled[k] = m.line
      BY <3>1, <3>2 DEF OffsetTrue
    <3> QED BY <1>7, <2>1, <3>3, Fresh
  <2> QED BY <2>3, <2>4
<1> QED BY <1>5, <1>6, <1>7, NotesStep

-----------------------------------------------------------------------------
(* The theorems *)

\* What every step keeps: the types, the bytes in order, no empty line waiting,
\* the count behind the offsets, the rows of the notes, the place of the rows.
IInv == /\ TypeOK /\ Solid /\ EveryByte /\ Past
        /\ Counted /\ OffsetTrue /\ Linked /\ Held

\* At the start nothing has arrived.
LEMMA InitIInv == Init => IInv
<1> SUFFICES ASSUME Init PROVE IInv
  OBVIOUS
<1>1. /\ wire = <<>> /\ buf = <<>> /\ carry = <<>> /\ posted = <<>> /\ backlog = <<>>
      /\ shed = 0 /\ offset = 0 /\ seq = 0 /\ lastRx = -1 /\ current = -1
      /\ matches = <<>> /\ term = <<>> /\ handled = <<>> /\ events = {} /\ dropped = {}
      /\ painted = 0 /\ doc = {} /\ notes = 0
  BY DEF Init
<1>2. ReaderType /\ DisplayType /\ PaperType
  <2>1. ReaderType
    BY <1>1, BoundsAssumption DEF ReaderType, Line
  <2>2. DisplayType
    BY <1>1 DEF DisplayType
  <2>3. PaperType
    BY <1>1, BoundsAssumption DEF PaperType
  <2> QED BY <2>1, <2>2, <2>3
<1>3. FlattenSeq(<<>>) = <<>>
  BY DEF FlattenSeq
<1>4. Stream = <<>>
  BY <1>1, <1>3 DEF Stream
<1>5. Solid /\ Past /\ Counted
  BY <1>1, <1>3 DEF Solid, Full, Past, Counted
<1>6. EveryByte
  BY <1>1, <1>4, EveryByteIs DEF ToSet, Rising
<1>7. OffsetTrue /\ Held
  BY <1>1 DEF OffsetTrue, Held
<1>8. Linked
  BY <1>1 DEF Linked, Notes, ToSet
<1> QED BY <1>2, <1>5, <1>6, <1>7, <1>8, TypeParts DEF IInv

\* The inductive invariant holds in every state.
THEOREM Invariance == Spec => []IInv
<1>1. IInv /\ [Next]_vars => IInv'
  <2> SUFFICES ASSUME IInv, [Next]_vars PROVE IInv'
    OBVIOUS
  <2>0. TypeOK /\ Solid /\ EveryByte /\ Past /\ Counted /\ OffsetTrue /\ Linked /\ Held
    BY DEF IInv
  <2>1. (ReaderType /\ DisplayType /\ PaperType)'
    BY <2>0, ReaderTypeStep, DisplayTypeStep, HeldStep
  <2>2. TypeOK'
    BY <2>1, TypeParts, PTL
  <2>3. Solid' /\ EveryByte' /\ Past'
    BY <2>0, SolidStep, StreamStep
  <2>4. Counted' /\ OffsetTrue' /\ Linked' /\ Held'
    BY <2>0, CountedStep, OffsetStep, LinkedStep, HeldStep
  <2> QED BY <2>2, <2>3, <2>4 DEF IInv
<1> QED BY InitIInv, <1>1, PTL DEF Spec

\* Every variable keeps its type, however the bytes are cut and the queues run.
THEOREM TypeCorrect == Spec => []TypeOK
<1>1. IInv => TypeOK
  BY DEF IInv
<1> QED BY Invariance, <1>1, PTL

\* LineSplitter, deliver and the queues of the GUI thread lose, double and swap no
\* byte within a session, for every cap on a line and every cut of the stream.
THEOREM NoByteLost == Spec => []EveryByte
<1>1. IInv => EveryByte
  BY DEF IInv
<1> QED BY Invariance, <1>1, PTL

\* The HEX view's offset of a drawn line counts the bytes of the lines before it,
\* those that were shed included.
THEOREM OffsetsAreTrue == Spec => []OffsetTrue
<1>1. IInv => OffsetTrue
  BY DEF IInv
<1> QED BY Invariance, <1>1, PTL

\* An event whose line was drawn jumps to that line's row, and the row is not
\* trimmed before a scrollback, less its tenth, is after it.
THEOREM EventsPointRight == Spec => []EventTrue
<1>1. IInv => EventTrue
  <2> SUFFICES ASSUME IInv, NEW e \in events, Drawn(e.line) PROVE JumpsTo(e)
    BY DEF EventTrue
  <2>1. PICK i \in 1..Len(term) : term[i].what = "RX" /\ term[i].id = e.id /\ term[i].line = e.line
    BY DEF IInv, Linked, Notes
  <2>2. Kept(i)
    BY DEF IInv, Held
  <2> QED BY <2>1, <2>2 DEF JumpsTo
<1> QED BY Invariance, <1>1, PTL
=============================================================================
