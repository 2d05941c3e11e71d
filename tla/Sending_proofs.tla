--------------------------- MODULE Sending_proofs ---------------------------
(***************************************************************************)
(* The two tool windows that send on the active connection.                *)
(* MacroRunner, for macros and lists of any length and any number of runs: *)
(* the runner has exactly one timer while it runs and none when it does    *)
(* not, a row with a stop button is the row of the macro that runs, and a  *)
(* run sends its steps in order, each waiting one once.                    *)
(* ControlPanel, in the second half, for every set of keys, numbers and    *)
(* steps: a key fires one button or toggle, and a toggle shows what last   *)
(* went out of it.                                                         *)
(***************************************************************************)
EXTENDS MacroRunner, ControlPanel, SequenceTheorems, FiniteSetTheorems, WellFoundedInduction, TLAPS


\* Where a run stands between two timers: it waits for the answer to the step
\* of idx, or it pauses before the next one, which is one on only after a wait.
Place ==
  running => /\ last \in 1..Len(macro)
             /\ waitT => macro[last] = "wait" /\ last = idx + 1
             /\ delayT => last = IF macro[last] = "wait" THEN idx ELSE idx + 1

\* A step that waits has been sent once since it was reached.
Once == running /\ macro[last] = "wait" => times = 1

IInv == TypeOK /\ OneRun /\ Place /\ Once

-----------------------------------------------------------------------------
(* Macros, lists and rows *)

\* A macro is a sequence of steps and its length a natural number.
LEMMA MacroIsSeq ==
  ASSUME NEW m \in Macro
  PROVE  /\ m \in Seq(Steps) /\ Len(m) \in Nat
         /\ \A i \in Nat \ {0} : i <= Len(m) => i \in 1..Len(m)
BY DEF Macro, BoundedSeq, SeqOf

\* No macro is the empty one.
LEMMA EmptyMacro == <<>> \in Macro
<1>1. MaxStep \in Nat
  BY BoundsAssumption
<1> QED BY <1>1 DEF Macro, BoundedSeq, SeqOf

\* A list of macros without one of them is a list of macros, one shorter.
LEMMA RemoveRow ==
  ASSUME NEW s \in Seq(Macro), NEW r \in 1..Len(s)
  PROVE  RemoveAt(s, r) \in Seq(Macro) /\ Len(RemoveAt(s, r)) = Len(s) - 1
<1> DEFINE a == SubSeq(s, 1, r - 1)
           b == SubSeq(s, r + 1, Len(s))
<1>1. a \in Seq(Macro) /\ Len(a) = r - 1
  OBVIOUS
<1>2. b \in Seq(Macro) /\ Len(b) = Len(s) - r
  OBVIOUS
<1>3. RemoveAt(s, r) = a \o b
  BY DEF RemoveAt
<1> HIDE DEF a, b
<1> QED BY <1>1, <1>2, <1>3

\* Showing a step in a row leaves a number in every row, and the row shows it.
LEMMA ShowsRow ==
  ASSUME NEW f \in [1..Len(rows) -> Nat], NEW a, NEW i \in Nat
  PROVE  /\ Shows(f, a, i) \in [1..Len(rows) -> Nat]
         /\ \A r \in 1..Len(rows) : Shows(f, a, i)[r] = IF r = a THEN i ELSE f[r]
BY DEF Shows

-----------------------------------------------------------------------------
(* What _execute leaves, wherever it is called from *)

\* End and Send from rows of which none but a shows a step: the runner and the
\* rows agree afterwards.
LEMMA ExecuteAgrees ==
  ASSUME TypeOK, NEW m \in Macro, NEW i \in Nat \ {0}, NEW n,
         NEW f \in [1..Len(rows) -> Nat], NEW a \in 0..Len(rows),
         \A r \in 1..Len(rows) : f[r] # 0 => r = a,
         n.last \in Nat, n.times \in 0..2,
         Execute(m, i, f, a, n), rows' = rows
  PROVE  /\ face' \in [1..Len(rows) -> Nat] /\ active' \in 0..Len(rows)
         /\ running' \in BOOLEAN /\ pat' \in BOOLEAN
         /\ delayT' \in BOOLEAN /\ waitT' \in BOOLEAN
         /\ last' \in Nat /\ times' \in 0..2
         /\ OneRun'
<1>1. CASE Send(m, i, f, a, n)
  <2>1. /\ face' \in [1..Len(rows) -> Nat]
        /\ \A r \in 1..Len(rows) : face'[r] = IF r = a THEN i ELSE f[r]
    BY <1>1, ShowsRow DEF Send
  <2>2. /\ running' = TRUE /\ last' = i /\ times' \in 0..2 /\ active' = a
    BY <1>1 DEF Send
  <2>3. /\ pat' \in BOOLEAN /\ waitT' \in BOOLEAN /\ delayT' \in BOOLEAN
        /\ (pat' <=> waitT') /\ (delayT' <=> ~waitT')
    BY <1>1 DEF Send
  <2>4. \A r \in 1..Len(rows) : face'[r] # 0 => r = a
    BY <2>1
  <2>5. a # 0 => face'[a] = i
    BY <2>1
  <2> QED BY <2>1, <2>2, <2>3, <2>4, <2>5 DEF OneRun
<1>2. CASE End(f, a) /\ last' = n.last /\ times' = n.times
  <2>1. /\ face' \in [1..Len(rows) -> Nat]
        /\ \A r \in 1..Len(rows) : face'[r] = IF r = a THEN 0 ELSE f[r]
    BY <1>2, ShowsRow DEF End, Release
  <2>2. \A r \in 1..Len(rows) : face'[r] = 0
    BY <2>1
  <2>3. /\ running' = FALSE /\ pat' = FALSE /\ delayT' = FALSE /\ waitT' = FALSE
        /\ active' = 0
    BY <1>2 DEF End, Release
  <2>4. active' \in 0..Len(rows)
    BY <2>3 DEF TypeOK
  <2> QED BY <1>2, <2>1, <2>2, <2>3, <2>4 DEF OneRun
<1> QED BY <1>1, <1>2 DEF Execute

\* After _execute a run stands at the step it sent.
LEMMA ExecutePlace ==
  ASSUME NEW m \in Macro, NEW i \in Nat \ {0}, NEW f, NEW a, NEW n,
         Execute(m, i, f, a, n), macro' = m, idx' \in Nat, i = idx' + 1,
         n.last = i => m[i] # "wait"
  PROVE  Place' /\ Once'
<1>1. CASE Send(m, i, f, a, n)
  <2>1. i <= Len(m)
    BY <1>1, Zenon DEF Send
  <2>2. i \in 1..Len(m)
    BY <2>1, MacroIsSeq, Zenon
  <2>3. /\ last' = i /\ times' = IF i = n.last THEN 2 ELSE 1
        /\ (waitT' <=> m[i] = "wait") /\ (delayT' <=> m[i] # "wait")
    BY <1>1 DEF Send
  <2> QED BY <2>2, <2>3 DEF Place, Once
<1>2. CASE End(f, a) /\ last' = n.last /\ times' = n.times
  BY <1>2 DEF End, Place, Once
<1> QED BY <1>1, <1>2 DEF Execute

-----------------------------------------------------------------------------
(* The steps, one by one *)

\* The panel starts with idle rows and a runner that does not run.
LEMMA InitIInv == Init => IInv
<1> SUFFICES ASSUME Init PROVE IInv
  OBVIOUS
<1>1. MaxRun \in Nat /\ rows \in Seq(Macro) /\ Len(rows) <= MaxRow /\ Len(rows) \in Nat
  BY BoundsAssumption DEF Init, BoundedSeq, SeqOf
<1>2. face \in [1..Len(rows) -> Nat] /\ \A r \in 1..Len(rows) : face[r] = 0
  BY DEF Init
<1>3. /\ active \in 0..Len(rows) /\ macro \in Macro /\ idx \in Nat
      /\ run \in 0..MaxRun /\ last \in Nat /\ times \in 0..2
  BY <1>1, EmptyMacro DEF Init
<1>4. /\ running \in BOOLEAN /\ pat \in BOOLEAN /\ delayT \in BOOLEAN
      /\ waitT \in BOOLEAN /\ expired \in BOOLEAN
  BY DEF Init
<1>5. TypeOK
  BY <1>1, <1>2, <1>3, <1>4, Zenon DEF TypeOK
<1>6. OneRun
  BY <1>2 DEF Init, OneRun
<1>7. Place /\ Once
  BY DEF Init, Place, Once
<1> QED BY <1>5, <1>6, <1>7 DEF IInv

\* The pause is over: the step of idx is sent.
LEMMA DelayFiresIInv == IInv /\ DelayFires => IInv'
<1> SUFFICES ASSUME IInv, DelayFires PROVE IInv'
  OBVIOUS
<1> DEFINE n == [last |-> last, times |-> times]
<1>1. TypeOK /\ OneRun /\ Place /\ Once /\ running
  BY DEF IInv, DelayFires, OneRun
<1>2. Execute(macro, idx + 1, face, active, n) /\ rows' = rows /\ macro' = macro
      /\ idx' = idx /\ run' = run /\ expired' = expired
  BY DEF DelayFires
<1>3. macro \in Macro /\ idx + 1 \in Nat \ {0} /\ idx \in Nat
      /\ n.last \in Nat /\ n.times \in 0..2 /\ n.last = last
      /\ face \in [1..Len(rows) -> Nat] /\ active \in 0..Len(rows)
  BY <1>1 DEF TypeOK
<1>4. \A r \in 1..Len(rows) : face[r] # 0 => r = active
  BY <1>1 DEF OneRun
<1>5. n.last = idx + 1 => macro[idx + 1] # "wait"
  BY <1>1, <1>3 DEF Place, DelayFires
<1> HIDE DEF n
<1>6. TypeOK' /\ OneRun'
  BY <1>1, <1>2, <1>3, <1>4, ExecuteAgrees DEF TypeOK
<1>7. Place' /\ Once'
  BY <1>2, <1>3, <1>5, ExecutePlace
<1> QED BY <1>6, <1>7 DEF IInv

\* The answer or the timeout ends a wait: what follows is the next step's pause.
LEMMA WaitEndsIInv == IInv /\ (FeedRxLine \/ WaitFires) => IInv'
<1> SUFFICES ASSUME IInv, FeedRxLine \/ WaitFires PROVE IInv'
  OBVIOUS
<1>1. TypeOK /\ OneRun /\ Place /\ Once
  BY DEF IInv
<1>2. waitT /\ running /\ ~delayT
  BY <1>1 DEF OneRun, FeedRxLine, WaitFires
<1>3. /\ waitT' = FALSE /\ pat' = FALSE /\ idx' = idx + 1 /\ delayT' = TRUE
      /\ rows' = rows /\ face' = face /\ active' = active /\ running' = running
      /\ macro' = macro /\ run' = run /\ last' = last /\ times' = times
      /\ expired' \in BOOLEAN
  BY <1>1 DEF FeedRxLine, WaitFires, AfterWait, panel, sent, TypeOK
<1>4. TypeOK'
  <2>1. idx' \in Nat
    BY <1>1, <1>3 DEF TypeOK
  <2>2. waitT' \in BOOLEAN /\ pat' \in BOOLEAN /\ delayT' \in BOOLEAN
    BY <1>3
  <2> QED BY <1>1, <1>3, <2>1, <2>2, Zenon DEF TypeOK
<1>5. OneRun'
  BY <1>1, <1>2, <1>3 DEF OneRun
<1>6. Place' /\ Once'
  BY <1>1, <1>2, <1>3 DEF Place, Once
<1> QED BY <1>4, <1>5, <1>6 DEF IInv

\* A click stops the macro of the row, or starts it in place of the one that runs.
LEMMA ClickRunIInv ==
  ASSUME IInv, NEW r \in 1..Len(rows), ClickRun(r)
  PROVE  IInv'
<1>1. TypeOK /\ OneRun
  BY DEF IInv
<1>2. CASE Stop
  <2>1. /\ face' \in [1..Len(rows) -> Nat]
        /\ \A k \in 1..Len(rows) : face'[k] = IF k = active THEN 0 ELSE face[k]
    BY <1>1, <1>2, ShowsRow DEF Stop, End, Release, TypeOK
  <2>2. \A k \in 1..Len(rows) : face'[k] = 0
    BY <1>1, <2>1 DEF OneRun
  <2>3. /\ running' = FALSE /\ pat' = FALSE /\ delayT' = FALSE /\ waitT' = FALSE
        /\ active' = 0 /\ rows' = rows /\ macro' = macro /\ idx' = idx
        /\ run' = run /\ last' = last /\ times' = times /\ expired' = expired
    BY <1>2 DEF Stop, End, Release, sent
  <2>4. active' \in 0..Len(rows)
    BY <1>1, <2>3 DEF TypeOK
  <2>5. TypeOK'
    BY <1>1, <2>1, <2>3, <2>4, Zenon DEF TypeOK
  <2>6. OneRun'
    BY <2>2, <2>3 DEF OneRun
  <2>7. Place' /\ Once'
    BY <2>3 DEF Place, Once
  <2> QED BY <2>5, <2>6, <2>7 DEF IInv
<1>3. CASE Start(r)
  <2> DEFINE f == IF running THEN Shows(face, active, 0) ELSE face
             n == [last |-> 0, times |-> 0]
  <2>1. /\ run < MaxRun /\ run' = run + 1 /\ macro' = rows[r] /\ idx' = 0
        /\ expired' = FALSE /\ rows' = rows /\ Execute(rows[r], 1, f, r, n)
    BY <1>3 DEF Start
  <2>2. f \in [1..Len(rows) -> Nat] /\ \A k \in 1..Len(rows) : f[k] = 0
    BY <1>1, ShowsRow DEF TypeOK, OneRun
  <2>3. rows[r] \in Macro /\ 1 \in Nat \ {0} /\ r \in 0..Len(rows)
        /\ n.last = 0 /\ n.times = 0
    BY <1>1 DEF TypeOK
  <2> HIDE DEF f, n
  <2>4. MaxRun \in Nat /\ run' \in 0..MaxRun
    BY <1>1, <2>1, BoundsAssumption DEF TypeOK
  <2>5. /\ face' \in [1..Len(rows) -> Nat] /\ active' \in 0..Len(rows)
        /\ running' \in BOOLEAN /\ pat' \in BOOLEAN
        /\ delayT' \in BOOLEAN /\ waitT' \in BOOLEAN
        /\ last' \in Nat /\ times' \in 0..2
        /\ OneRun'
    BY <1>1, <2>1, <2>2, <2>3, ExecuteAgrees
  <2>6. macro' \in Macro /\ idx' \in Nat /\ expired' \in BOOLEAN
    BY <2>1, <2>3
  <2>7. TypeOK'
    BY <1>1, <2>1, <2>4, <2>5, <2>6, Zenon DEF TypeOK
  <2>8. Place' /\ Once'
    BY <2>1, <2>3, ExecutePlace
  <2> QED BY <2>5, <2>7, <2>8 DEF IInv
<1> QED BY <1>2, <1>3 DEF ClickRun

\* The list is built again, with any list of macros: the runner goes on unseen.
LEMMA RebuildIInv ==
  ASSUME IInv, NEW ms \in Seq(Macro), Len(ms) <= MaxRow, Rebuild(ms)
  PROVE  IInv'
<1>1. TypeOK /\ OneRun /\ Place /\ Once
  BY DEF IInv
<1>2. /\ rows' = ms /\ active' = 0 /\ face' \in [1..Len(ms) -> Nat]
      /\ \A r \in 1..Len(ms) : face'[r] = 0
  BY DEF Rebuild
<1>3. /\ running' = running /\ macro' = macro /\ idx' = idx /\ pat' = pat
      /\ delayT' = delayT /\ waitT' = waitT
      /\ run' = run /\ last' = last /\ times' = times /\ expired' = expired
  BY DEF Rebuild, runner, sent
<1>4. TypeOK'
  BY <1>1, <1>2, <1>3 DEF TypeOK
<1>5. OneRun'
  BY <1>1, <1>2, <1>3 DEF OneRun
<1>6. Place' /\ Once'
  BY <1>1, <1>3 DEF Place, Once
<1> QED BY <1>4, <1>5, <1>6 DEF IInv

\* Every step keeps the invariant.
LEMMA NextIInv == IInv /\ [Next]_vars => IInv'
<1> SUFFICES ASSUME IInv, [Next]_vars PROVE IInv'
  OBVIOUS
<1>1. rows \in Seq(Macro) /\ Len(rows) <= MaxRow /\ Len(rows) \in Nat /\ MaxRow \in Nat
  BY BoundsAssumption DEF IInv, TypeOK
<1>2. ASSUME NEW r \in 1..Len(rows), ClickRun(r) PROVE IInv'
  BY <1>2, ClickRunIInv
<1>3. ASSUME NEW r \in 1..Len(rows), Delete(r) PROVE IInv'
  <2>1. RemoveAt(rows, r) \in Seq(Macro) /\ Len(RemoveAt(rows, r)) <= MaxRow
    BY <1>1, RemoveRow
  <2> QED BY <1>3, <2>1, RebuildIInv DEF Delete
<1>4. ASSUME NEW r \in 1..Len(rows), NEW mac \in Macro, Edit(r, mac) PROVE IInv'
  <2>1. [rows EXCEPT ![r] = mac] \in Seq(Macro) /\ Len([rows EXCEPT ![r] = mac]) <= MaxRow
    BY <1>1
  <2> QED BY <1>4, <2>1, RebuildIInv DEF Edit
<1>5. ASSUME NEW mac \in Macro, NewMacro(mac) PROVE IInv'
  <2>1. Append(rows, mac) \in Seq(Macro) /\ Len(Append(rows, mac)) <= MaxRow
    BY <1>1, <1>5 DEF NewMacro
  <2> QED BY <1>5, <2>1, RebuildIInv DEF NewMacro
<1>6. ASSUME UNCHANGED vars PROVE IInv'
  BY <1>6 DEF IInv, TypeOK, OneRun, Place, Once, vars, panel, runner, sent
<1> QED BY <1>2, <1>3, <1>4, <1>5, <1>6, DelayFiresIInv, WaitEndsIInv DEF Next, User

\* The invariant says what a run's place in its macro is: no step is skipped.
LEMMA NoStepSkipped ==
  ASSUME IInv, [Next]_vars, run' = run
  PROVE  last' \in {last, last + 1}
<1>1. TypeOK /\ OneRun /\ Place
  BY DEF IInv
<1>2. CASE DelayFires
  <2>1. running /\ last \in Nat /\ idx \in Nat /\ idx + 1 \in {last, last + 1}
    BY <1>1, <1>2 DEF DelayFires, OneRun, Place, TypeOK
  <2>2. last' = idx + 1 \/ last' = last
    BY <1>2 DEF DelayFires, Execute, Send
  <2> QED BY <2>1, <2>2
<1>3. ASSUME NEW r \in 1..Len(rows), ClickRun(r) PROVE last' = last
  <2>1. run \in Nat
    BY <1>1, BoundsAssumption DEF TypeOK
  <2> QED BY <1>3, <2>1 DEF ClickRun, Stop, Start, sent
<1>4. CASE FeedRxLine \/ WaitFires
  BY <1>4 DEF FeedRxLine, WaitFires, sent
<1>5. ASSUME NEW ms, Rebuild(ms) PROVE last' = last
  BY <1>5 DEF Rebuild, sent
<1>6. CASE UNCHANGED vars
  BY <1>6 DEF vars, sent
<1> QED BY <1>2, <1>3, <1>4, <1>5, <1>6 DEF Next, User, Delete, Edit, NewMacro

-----------------------------------------------------------------------------
\* The inductive invariant holds in every state of the program.
THEOREM Invariance == Spec => []IInv
BY InitIInv, NextIInv, PTL DEF Spec

\* Every variable keeps its type, and _active_row is a row of the panel.
THEOREM TypeCorrect == Spec => []TypeOK
<1>1. IInv => TypeOK
  BY DEF IInv
<1> QED BY <1>1, Invariance, PTL

\* Whatever a click, a line of the device or a timer does, a run has exactly
\* one timer, a stopped runner none, and the stop button is on its row.
THEOREM OneTimerPerRun == Spec => []OneRun
<1>1. IInv => OneRun
  BY DEF IInv
<1> QED BY <1>1, Invariance, PTL

\* A run sends its steps in order, skips none, and sends a step that waits for
\* an answer once, also when the answer and the timeout come together.
THEOREM StepsInOrder == Spec => NoSkip
<1>1. IInv /\ [Next]_vars => [run' = run => last' \in {last, last + 1}]_vars
  BY NoStepSkipped
<1>2. IInv => (running /\ last > 0 /\ macro[last] = "wait" => times <= 1)
  BY DEF IInv, Once
<1> QED BY <1>1, <1>2, Invariance, PTL DEF Spec, NoSkip

-----------------------------------------------------------------------------
(* Recursion over a sequence *)

\* A set of naturals that is not empty has a least element.
LEMMA LeastNat ==
  ASSUME NEW T, T \subseteq Nat, T # {}
  PROVE  \E x \in T : \A y \in T : x <= y
<1> DEFINE R == {r \in Nat \X Nat : r[1] < r[2]}
<1>1. IsWellFoundedOn(R, Nat)
  BY NatLessThanWellFounded, Zenon DEF OpToRel
<1>2. PICK x \in T : \A y \in T : ~(<<y, x>> \in R)
  BY <1>1, WFMin, Zenon
<1>3. ASSUME NEW y \in T, y < x PROVE <<y, x>> \in R
  BY <1>3
<1> HIDE DEF R
<1>4. \A y \in T : ~(y < x)
  BY <1>2, <1>3
<1> QED BY <1>4

\* A set with 0 that is closed under successor has every natural.
LEMMA NatSet ==
  ASSUME NEW T, 0 \in T, \A n \in Nat : n \in T => n + 1 \in T
  PROVE  Nat \subseteq T
<1>1. SUFFICES ASSUME Nat \ T # {} PROVE FALSE
  OBVIOUS
<1>2. PICK x \in Nat \ T : \A y \in Nat \ T : x <= y
  BY <1>1, LeastNat
<1> QED BY <1>2

\* The same below a bound.
LEMMA UpTo ==
  ASSUME NEW N \in Nat, NEW T, 0 \in T, \A n \in 0..(N - 1) : n \in T => n + 1 \in T
  PROVE  0..N \subseteq T
<1> DEFINE U == {n \in Nat : n <= N => n \in T}
<1>1. 0 \in U
  OBVIOUS
<1>2. \A n \in Nat : n \in U => n + 1 \in U
  OBVIOUS
<1> HIDE DEF U
<1>3. Nat \subseteq U
  BY <1>1, <1>2, NatSet
<1> QED BY <1>3 DEF U

\* f is what the function G makes of base and the elements of a, one by one.
Solves(f, S, base, G, a) ==
  /\ f \in [0..Len(a) -> S] /\ f[0] = base
  /\ \A n \in 1..Len(a) : f[n] = G[<<f[n - 1], a[n]>>]

\* A recursion over a sequence has a solution.
LEMMA Recursion ==
  ASSUME NEW A, NEW S, NEW base \in S, NEW G \in [S \X A -> S], NEW a \in Seq(A)
  PROVE  \E f : Solves(f, S, base, G, a)
<1> DEFINE Good(f, n) == f \in [0..n -> S] /\ f[0] = base /\ \A k \in 1..n : f[k] = G[<<f[k - 1], a[k]>>]
           T == {n \in 0..Len(a) : \E f : Good(f, n)}
<1>1. 0 \in T
  <2>1. Good([n \in 0..0 |-> base], 0)
    OBVIOUS
  <2>2. \E f : Good(f, 0)
    BY <2>1, Zenon
  <2>3. 0 \in 0..Len(a)
    OBVIOUS
  <2> QED BY <2>2, <2>3, Zenon
<1>2. ASSUME NEW n \in 0..(Len(a) - 1), n \in T PROVE n + 1 \in T
  <2>1. PICK f : Good(f, n)
    BY <1>2
  <2>2. a[n + 1] \in A
    OBVIOUS
  <2> DEFINE g == [k \in 0..(n + 1) |-> IF k = n + 1 THEN G[<<f[n], a[n + 1]>>] ELSE f[k]]
  <2>3. G[<<f[n], a[n + 1]>>] \in S
    BY <2>1, <2>2
  <2>4. g \in [0..(n + 1) -> S] /\ g[0] = base
    BY <2>1, <2>3
  <2>6. g[n + 1] = G[<<f[n], a[n + 1]>>] /\ \A k \in 0..n : g[k] = f[k]
    OBVIOUS
  <2> HIDE DEF g
  <2>5. ASSUME NEW k \in 1..(n + 1) PROVE g[k] = G[<<g[k - 1], a[k]>>]
    <3>1. CASE k = n + 1
      <4>1. g[n] = f[n]
        BY <2>6
      <4> QED BY <3>1, <2>6, <4>1
    <3>2. CASE k # n + 1
      <4>1. k \in 1..n /\ k - 1 \in 0..n /\ k \in 0..n
        BY <3>2
      <4>2. g[k] = f[k] /\ g[k - 1] = f[k - 1]
        BY <4>1, <2>6
      <4> QED BY <4>1, <4>2, <2>1
    <3> QED BY <3>1, <3>2
  <2>7. \E h : Good(h, n + 1)
    BY <2>4, <2>5
  <2> QED BY <2>7
<1> HIDE DEF T
<1>3. Len(a) \in T
  <2>1. Len(a) \in Nat /\ Len(a) \in 0..Len(a)
    OBVIOUS
  <2>2. 0..Len(a) \subseteq T
    BY <1>1, <1>2, <2>1, UpTo, Zenon
  <2> QED BY <2>1, <2>2
<1>4. PICK f : Good(f, Len(a))
  BY <1>3 DEF T
<1> QED BY <1>4 DEF Solves

-----------------------------------------------------------------------------
(* ControlPanel: the strengthening *)

\* A row: only a button or a toggle has a key, a toggle is on or off and shows what was
\* last told, and a range has a step.
GoodRow ==
  {c \in ControlRow :
     /\ c.kind \in Ranged => c.step > 0 /\ c.key = NoKey
     /\ c.kind \notin Ranged => c.value \in {0, 10}
     /\ c.kind = "toggle" => c.told \subseteq {c.value}}
\* No two controls have one key.
Distinct(cs) == \A i, j \in 1..Len(cs) : i # j /\ cs[i].key # NoKey => cs[j].key # cs[i].key
Panel == {cs \in Seq(GoodRow) : Distinct(cs)}

ControlInv == controls \in Panel /\ Len(controls) <= MaxControl

-----------------------------------------------------------------------------
(* Numbers *)

LEMMA PanelNumbers == Bound \subseteq Int /\ Step \subseteq Int /\ MaxControl \in Nat \ {0}
  BY NumbersAssumption

\* Of two integers, Min and Max are one.
LEMMA MinMaxInt ==
  ASSUME NEW a \in Int, NEW b \in Int
  PROVE  Min({a, b}) \in Int /\ Max({a, b}) \in Int
<1>1. \E x \in {a, b} : \A y \in {a, b} : x <= y
  <2>1. a <= b \/ b <= a
    OBVIOUS
  <2> QED BY <2>1
<1>2. \E x \in {a, b} : \A y \in {a, b} : x >= y
  <2>1. a >= b \/ b >= a
    OBVIOUS
  <2> QED BY <2>1
<1>3. Min({a, b}) \in {a, b}
  BY <1>1, Zenon DEF Min
<1>4. Max({a, b}) \in {a, b}
  BY <1>2, Zenon DEF Max
<1> QED BY <1>3, <1>4

LEMMA RoundInt ==
  ASSUME NEW n \in Int, NEW d \in Int, d > 0
  PROVE  Round(n, d) \in Int
<1>1. n \div d \in Int
  OBVIOUS
<1> DEFINE low == n \div d
<1>2. low \in Int /\ low + 1 \in Int
  BY <1>1
<1>3. Round(n, d) = low \/ Round(n, d) = low + 1
  BY DEF Round
<1> QED BY <1>2, <1>3

\* A value is snapped to an integer.
LEMMA SnapInt ==
  ASSUME NEW c, c.min \in Int, c.max \in Int, c.step \in Int, c.step > 0, NEW v \in Int
  PROVE  Snap(c, v) \in Int
<1> DEFINE clamped == Min({c.max, Max({c.min, v})})
           ticks == Round(clamped - c.min, c.step)
           near == Min({c.max, c.min + ticks * c.step})
           grain == Grain(c.step)
<1>1. clamped \in Int
  BY MinMaxInt
<1>2. ticks \in Int
  <2> HIDE DEF clamped
  <2>1. clamped - c.min \in Int
    BY <1>1
  <2> QED BY <2>1, RoundInt
<1>3. near \in Int
  <2> HIDE DEF ticks
  <2>1. ticks * c.step \in Int
    BY <1>2
  <2>2. c.min + ticks * c.step \in Int
    BY <2>1
  <2> QED BY <2>2, MinMaxInt
<1>4. grain \in Int /\ grain > 0
  BY DEF Grain
<1>5. Round(near, grain) \in Int
  <2> HIDE DEF near, grain
  <2> QED BY <1>3, <1>4, RoundInt
<1>6. grain * Round(near, grain) \in Int
  <2> DEFINE q == Round(near, grain)
  <2>1. q \in Int
    BY <1>5
  <2> HIDE DEF q, grain
  <2>2. grain * q \in Int
    BY <2>1, <1>4
  <2> QED BY <2>2 DEF q
<1>7. Snap(c, v) = grain * Round(near, grain)
  BY Zenon DEF Snap
<1> QED BY <1>6, <1>7, Zenon

-----------------------------------------------------------------------------
(* Rows *)

\* What a definition is made of.
Defined ==
  [kind : Kind, texts : BOOLEAN, min : Int, max : Int, step : Int, value : Int, key : Key \cup {NoKey}]

LEMMA FreshRow ==
  ASSUME NEW d \in Defined, Valid(d), NEW key \in Key \cup {NoKey}
  PROVE  /\ Control(d, key) \in GoodRow /\ Control(d, key).key \in {key, NoKey}
         /\ Control(d, key).kind = d.kind
         /\ d.kind \notin Ranged => Control(d, key).value = IF d.value = 0 THEN 0 ELSE 10
<1> DEFINE value == IF d.kind \in Ranged THEN Snap(d, d.value) ELSE IF d.value = 0 THEN 0 ELSE 10
           c == [kind |-> d.kind, min |-> IF d.kind \in Ranged THEN d.min ELSE 0,
                 max |-> IF d.kind \in Ranged THEN d.max ELSE 0,
                 step |-> IF d.kind \in Ranged THEN d.step ELSE 10,
                 key |-> IF d.kind \in Ranged THEN NoKey ELSE key, value |-> value,
                 timer |-> FALSE, last |-> Nothing, tried |-> value, told |-> Nothing, cut |-> FALSE]
<1>1. /\ d.kind \in Kind /\ d.min \in Int /\ d.max \in Int /\ d.step \in Int /\ d.value \in Int
      /\ d.kind \in Ranged => d.step > 0
  BY DEF Defined, Valid
<1>2. value \in Int /\ (d.kind \notin Ranged => value \in {0, 10} /\ value = IF d.value = 0 THEN 0 ELSE 10)
  BY <1>1, SnapInt
<1> HIDE DEF value
<1>3. Control(d, key) = c
  BY Zenon DEF Control, value
<1>4. c \in ControlRow
  BY <1>1, <1>2 DEF ControlRow, Nothing
<1>5. c \in GoodRow
  BY <1>1, <1>2, <1>4 DEF GoodRow, Nothing
<1>6. c.key \in {key, NoKey} /\ c.kind = d.kind /\ c.value = value
  OBVIOUS
<1> HIDE DEF c
<1> QED BY <1>2, <1>3, <1>5, <1>6

LEMMA RowIs ==
  ASSUME NEW c \in GoodRow
  PROVE  /\ c \in ControlRow /\ c.kind \in Kind /\ c.min \in Int /\ c.max \in Int /\ c.step \in Int
         /\ c.key \in Key \cup {NoKey} /\ c.value \in Int /\ c.tried \in Int
         /\ c.told \in SUBSET Int /\ c.last \in SUBSET Int /\ c.timer \in BOOLEAN /\ c.cut \in BOOLEAN
         /\ c.kind \in Ranged => c.step > 0 /\ c.key = NoKey
         /\ c.kind \notin Ranged => c.value \in {0, 10}
         /\ c.kind = "toggle" => c.told \subseteq {c.value}
BY DEF GoodRow, ControlRow

\* A row of a slider or a number with another value or memory, and one of a toggle.
LEMMA RangedRow ==
  ASSUME NEW c \in GoodRow, c.kind \in Ranged, NEW e \in ControlRow,
         e.kind = c.kind, e.step = c.step, e.key = c.key
  PROVE  e \in GoodRow
BY RowIs DEF GoodRow, Ranged

\* Rows.
LEMMA PanelIs ==
  ASSUME NEW cs \in Panel
  PROVE  /\ cs \in Seq(GoodRow) /\ Len(cs) \in Nat /\ DOMAIN cs = 1..Len(cs) /\ Distinct(cs)
         /\ \A i \in 1..Len(cs) : cs[i] \in GoodRow
BY DEF Panel

LEMMA FunctionIsSeq ==
  ASSUME NEW S, NEW n \in Nat, NEW f \in [1..n -> S]
  PROVE  f \in Seq(S) /\ Len(f) = n
<1>1. DOMAIN f = 1..n
  OBVIOUS
<1>2. f \in Seq(S)
  BY DEF Seq
<1> QED BY <1>1, <1>2, LenProperties

LEMMA RebuiltPanel ==
  ASSUME NEW cs \in Panel
  PROVE  Rebuilt(cs) \in Panel /\ Len(Rebuilt(cs)) = Len(cs)
<1> DEFINE r(i) == [cs[i] EXCEPT !.timer = FALSE, !.last = Nothing, !.cut = @ \/ cs[i].value # cs[i].tried]
<1>1. ASSUME NEW i \in 1..Len(cs)
      PROVE  r(i) \in GoodRow /\ r(i).key = cs[i].key
  <2> DEFINE c == cs[i]
  <2>1. c \in GoodRow
    BY PanelIs
  <2>4. c \in ControlRow
    BY <2>1, RowIs
  <2> HIDE DEF c
  <2> DEFINE cut == c.cut \/ c.value # c.tried
             e == [c EXCEPT !.timer = FALSE, !.last = Nothing, !.cut = cut]
  <2>2. cut \in BOOLEAN
    OBVIOUS
  <2> HIDE DEF cut
  <2>3. e \in ControlRow /\ e.kind = c.kind /\ e.step = c.step /\ e.key = c.key
        /\ e.value = c.value /\ e.told = c.told
    BY <2>2, <2>4 DEF ControlRow, Nothing
  <2>5. e \in GoodRow
    <3> HIDE DEF e
    <3> QED BY <2>1, <2>3, RowIs DEF GoodRow
  <2>6. r(i) = e
    BY <2>4 DEF c, cut, ControlRow
  <2> HIDE DEF e, r
  <2> QED BY <2>3, <2>5, <2>6 DEF c
<1>2. Rebuilt(cs) = [i \in 1..Len(cs) |-> r(i)]
  BY PanelIs, Zenon DEF Rebuilt
<1>3. Rebuilt(cs) \in [1..Len(cs) -> GoodRow]
  <2> HIDE DEF r
  <2> QED BY <1>1, <1>2
<1>4. Rebuilt(cs) \in Seq(GoodRow) /\ Len(Rebuilt(cs)) = Len(cs)
  BY <1>3, PanelIs, FunctionIsSeq
<1>5. \A i \in 1..Len(cs) : Rebuilt(cs)[i].key = cs[i].key
  <2> HIDE DEF r
  <2> QED BY <1>1, <1>2
<1>6. Distinct(Rebuilt(cs))
  BY <1>4, <1>5, PanelIs DEF Distinct
<1> QED BY <1>4, <1>6 DEF Panel

LEMMA AppendPanel ==
  ASSUME NEW cs \in Panel, NEW c \in GoodRow, c.key = NoKey \/ \A i \in 1..Len(cs) : cs[i].key # c.key
  PROVE  Append(cs, c) \in Panel /\ Len(Append(cs, c)) = Len(cs) + 1
<1> DEFINE r == Append(cs, c)
<1>1. cs \in Seq(GoodRow) /\ Len(cs) \in Nat /\ Distinct(cs)
  BY PanelIs
<1>2. r \in Seq(GoodRow) /\ Len(r) = Len(cs) + 1 /\ r[Len(cs) + 1] = c
      /\ \A i \in 1..Len(cs) : r[i] = cs[i]
  BY <1>1
<1> HIDE DEF r
<1>3. ASSUME NEW i \in 1..Len(r), NEW j \in 1..Len(r), i # j, r[i].key # NoKey PROVE r[j].key # r[i].key
  <2>1. \A k \in 1..Len(r) : k = Len(cs) + 1 \/ k \in 1..Len(cs)
    BY <1>1, <1>2
  <2>2. CASE i = Len(cs) + 1
    <3>1. j \in 1..Len(cs)
      BY <2>1, <2>2, <1>3
    <3> QED BY <3>1, <2>2, <1>2, <1>3
  <2>3. CASE j = Len(cs) + 1 /\ i \in 1..Len(cs)
    BY <2>3, <1>2, <1>3
  <2>4. CASE i \in 1..Len(cs) /\ j \in 1..Len(cs)
    BY <2>4, <1>1, <1>2, <1>3 DEF Distinct
  <2> QED BY <2>1, <2>2, <2>3, <2>4
<1>4. Distinct(r)
  BY <1>3 DEF Distinct
<1> QED BY <1>2, <1>4 DEF r, Panel

LEMMA ReplacePanel ==
  ASSUME NEW cs \in Panel, NEW i \in 1..Len(cs), NEW c \in GoodRow,
         c.key = NoKey \/ \A j \in 1..Len(cs) \ {i} : cs[j].key # c.key
  PROVE  [cs EXCEPT ![i] = c] \in Panel /\ Len([cs EXCEPT ![i] = c]) = Len(cs)
<1> DEFINE r == [cs EXCEPT ![i] = c]
<1>1. cs \in Seq(GoodRow) /\ Len(cs) \in Nat /\ Distinct(cs)
  BY PanelIs
<1>2. r \in Seq(GoodRow) /\ Len(r) = Len(cs)
  BY <1>1, ExceptSeq
<1>3. \A j \in 1..Len(cs) : r[j] = IF j = i THEN c ELSE cs[j]
  BY <1>1
<1> HIDE DEF r
<1>4. Distinct(r)
  BY <1>1, <1>2, <1>3 DEF Distinct
<1> QED BY <1>2, <1>4 DEF r, Panel

LEMMA SwapPanel ==
  ASSUME NEW cs \in Panel, NEW i \in 1..Len(cs), NEW j \in 1..Len(cs)
  PROVE  LET r == [cs EXCEPT ![i] = cs[j], ![j] = cs[i]]
         IN  r \in Panel /\ Len(r) = Len(cs)
<1> DEFINE q == [cs EXCEPT ![i] = cs[j]]
           r == [cs EXCEPT ![i] = cs[j], ![j] = cs[i]]
<1>1. cs \in Seq(GoodRow) /\ Len(cs) \in Nat /\ Distinct(cs) /\ cs[i] \in GoodRow /\ cs[j] \in GoodRow
  BY PanelIs
<1>2. q \in Seq(GoodRow) /\ Len(q) = Len(cs)
  BY <1>1, ExceptSeq
<1>3. r = [q EXCEPT ![j] = cs[i]]
  OBVIOUS
<1>4. \A k \in 1..Len(cs) : r[k] = IF k = j THEN cs[i] ELSE IF k = i THEN cs[j] ELSE cs[k]
  BY <1>1
<1> HIDE DEF q
<1>5. r \in Seq(GoodRow) /\ Len(r) = Len(cs)
  BY <1>1, <1>2, <1>3, ExceptSeq
<1> HIDE DEF r
<1>6. ASSUME NEW k \in 1..Len(cs), NEW l \in 1..Len(cs), k # l, r[k].key # NoKey PROVE r[l].key # r[k].key
  <2> DEFINE from(n) == IF n = j THEN i ELSE IF n = i THEN j ELSE n
  <2>1. r[k] = cs[from(k)] /\ r[l] = cs[from(l)] /\ from(k) # from(l)
        /\ from(k) \in 1..Len(cs) /\ from(l) \in 1..Len(cs)
    BY <1>4, <1>6
  <2> HIDE DEF from
  <2> QED BY <2>1, <1>1, <1>6 DEF Distinct
<1>7. Distinct(r)
  BY <1>5, <1>6 DEF Distinct
<1> QED BY <1>5, <1>7 DEF r, Panel

LEMMA RemoveSeq ==
  ASSUME NEW S, NEW cs \in Seq(S), NEW i \in 1..Len(cs)
  PROVE  /\ RemoveAt(cs, i) \in Seq(S) /\ Len(RemoveAt(cs, i)) = Len(cs) - 1
         /\ \A k \in 1..(Len(cs) - 1) : RemoveAt(cs, i)[k] = IF k < i THEN cs[k] ELSE cs[k + 1]
<1> DEFINE a == SubSeq(cs, 1, i - 1)
           b == SubSeq(cs, i + 1, Len(cs))
<1>1. a \in Seq(S) /\ Len(a) = i - 1 /\ \A k \in 1..(i - 1) : a[k] = cs[k]
  BY SubSeqProperties
<1>2. b \in Seq(S) /\ Len(b) = Len(cs) - i /\ \A k \in 1..(Len(cs) - i) : b[k] = cs[i + k]
  BY SubSeqProperties
<1>3. RemoveAt(cs, i) = a \o b
  BY DEF RemoveAt
<1>6. Len(cs) \in Nat /\ i \in Nat
  OBVIOUS
<1> HIDE DEF a, b
<1>4. a \o b \in Seq(S) /\ Len(a \o b) = Len(cs) - 1
  BY <1>1, <1>2, <1>6
<1>5. ASSUME NEW k \in 1..(Len(cs) - 1) PROVE (a \o b)[k] = IF k < i THEN cs[k] ELSE cs[k + 1]
  <2>1. CASE k < i
    <3>1. k \in 1..Len(a) /\ k \in 1..(i - 1)
      BY <2>1, <1>1, <1>6
    <3>2. (a \o b)[k] = a[k]
      BY <3>1, <1>1, <1>2
    <3> QED BY <3>1, <3>2, <2>1, <1>1
  <2>2. CASE ~(k < i)
    <3>1. k - (i - 1) \in 1..(Len(cs) - i) /\ k \in (Len(a) + 1)..(Len(a) + Len(b))
          /\ i + (k - (i - 1)) = k + 1
      BY <2>2, <1>1, <1>2, <1>6
    <3>2. (a \o b)[k] = b[k - Len(a)]
      BY <3>1, <1>1, <1>2, <1>6
    <3>3. b[k - (i - 1)] = cs[i + (k - (i - 1))]
      BY <3>1, <1>2
    <3> QED BY <3>1, <3>2, <3>3, <2>2, <1>1
  <2> QED BY <2>1, <2>2
<1> QED BY <1>3, <1>4, <1>5

LEMMA RemovePanel ==
  ASSUME NEW cs \in Panel, NEW i \in 1..Len(cs)
  PROVE  RemoveAt(cs, i) \in Panel /\ Len(RemoveAt(cs, i)) <= Len(cs)
<1> DEFINE r == RemoveAt(cs, i)
<1>1. cs \in Seq(GoodRow) /\ Len(cs) \in Nat /\ Distinct(cs)
  BY PanelIs
<1>2. r \in Seq(GoodRow) /\ Len(r) = Len(cs) - 1
      /\ \A k \in 1..(Len(cs) - 1) : r[k] = IF k < i THEN cs[k] ELSE cs[k + 1]
  BY <1>1, RemoveSeq
<1> HIDE DEF r
<1>3. ASSUME NEW k \in 1..Len(r), NEW l \in 1..Len(r), k # l, r[k].key # NoKey PROVE r[l].key # r[k].key
  <2> DEFINE from(n) == IF n < i THEN n ELSE n + 1
  <2>1. k \in 1..(Len(cs) - 1) /\ l \in 1..(Len(cs) - 1)
    BY <1>2
  <2>2. from(k) # from(l) /\ from(k) \in 1..Len(cs) /\ from(l) \in 1..Len(cs)
    BY <2>1, <1>1, <1>3
  <2>3. r[k] = cs[from(k)] /\ r[l] = cs[from(l)]
    BY <2>1, <1>2
  <2> HIDE DEF from
  <2> QED BY <2>2, <2>3, <1>1, <1>3 DEF Distinct
<1>4. Distinct(r)
  BY <1>3 DEF Distinct
<1>5. Len(r) <= Len(cs)
  BY <1>1, <1>2
<1> QED BY <1>2, <1>4, <1>5 DEF r, Panel

LEMMA ConcatPanel ==
  ASSUME NEW cs \in Panel, NEW own \in Panel,
         \A i \in 1..Len(own) : own[i].key = NoKey \/ \A j \in 1..Len(cs) : cs[j].key # own[i].key
  PROVE  cs \o own \in Panel /\ Len(cs \o own) = Len(cs) + Len(own)
<1> DEFINE r == cs \o own
<1>1. /\ cs \in Seq(GoodRow) /\ Len(cs) \in Nat /\ Distinct(cs)
      /\ own \in Seq(GoodRow) /\ Len(own) \in Nat /\ Distinct(own)
  BY PanelIs
<1>2. r \in Seq(GoodRow) /\ Len(r) = Len(cs) + Len(own)
  BY <1>1
<1>3. \A k \in 1..Len(r) : \/ k \in 1..Len(cs) /\ r[k] = cs[k]
                           \/ k \notin 1..Len(cs) /\ k - Len(cs) \in 1..Len(own) /\ r[k] = own[k - Len(cs)]
  BY <1>1, <1>2
<1> HIDE DEF r
<1>4. ASSUME NEW k \in 1..Len(r), NEW l \in 1..Len(r), k # l, r[k].key # NoKey PROVE r[l].key # r[k].key
  <2>1. CASE k \in 1..Len(cs) /\ l \in 1..Len(cs)
    BY <2>1, <1>1, <1>3, <1>4 DEF Distinct
  <2>2. CASE k \notin 1..Len(cs) /\ l \notin 1..Len(cs)
    <3>1. k - Len(cs) # l - Len(cs)
      BY <1>1, <1>4
    <3> QED BY <3>1, <2>2, <1>1, <1>3, <1>4 DEF Distinct
  <2>3. CASE k \in 1..Len(cs) /\ l \notin 1..Len(cs)
    <3>1. r[k] = cs[k] /\ l - Len(cs) \in 1..Len(own) /\ r[l] = own[l - Len(cs)]
      BY <2>3, <1>3
    <3> QED BY <3>1, <2>3, <1>4
  <2>4. CASE k \notin 1..Len(cs) /\ l \in 1..Len(cs)
    <3>1. r[l] = cs[l] /\ k - Len(cs) \in 1..Len(own) /\ r[k] = own[k - Len(cs)]
      BY <2>4, <1>3
    <3> QED BY <3>1, <2>4, <1>4
  <2> QED BY <2>1, <2>2, <2>3, <2>4
<1>5. Distinct(r)
  BY <1>4 DEF Distinct
<1> QED BY <1>2, <1>5 DEF r, Panel

\* A file of definitions, read one by one.
LEMMA LoadsPanel ==
  ASSUME NEW cs \in Panel, NEW d \in Defined
  PROVE  Loads(cs, d) \in Panel /\ Len(Loads(cs, d)) \in {Len(cs), Len(cs) + 1}
<1>1. CASE ~Valid(d)
  BY <1>1 DEF Loads
<1>2. CASE Valid(d)
  <2> DEFINE key == IF d.key \in Keys(cs) THEN NoKey ELSE d.key
             c == Control(d, key)
  <2>1. key \in Key \cup {NoKey} /\ d.key \in Key \cup {NoKey}
    BY DEF Defined
  <2>2. c \in GoodRow /\ c.key \in {key, NoKey}
    <3> HIDE DEF key
    <3> QED BY <2>1, <1>2, FreshRow
  <2>3. c.key = NoKey \/ \A i \in 1..Len(cs) : cs[i].key # c.key
    <3>1. CASE c.key # NoKey
      <4>1. c.key = d.key /\ d.key \notin Keys(cs)
        <5> HIDE DEF c
        <5> QED BY <2>2, <3>1
      <4> HIDE DEF c
      <4>2. \A i \in 1..Len(cs) : cs[i].key # NoKey => cs[i].key \in Keys(cs)
        BY PanelIs DEF Keys
      <4> QED BY <4>1, <4>2, <3>1
    <3> QED BY <3>1
  <2>4. Loads(cs, d) = Append(cs, c)
    BY <1>2, Zenon DEF Loads
  <2> HIDE DEF c
  <2> QED BY <2>2, <2>3, <2>4, AppendPanel
<1> QED BY <1>1, <1>2

LEMMA LoadPanel ==
  ASSUME NEW file \in Seq(Defined)
  PROVE  LoadControls(file) \in Panel /\ Len(LoadControls(file)) <= Len(file)
<1> DEFINE f == CHOOSE g : g = [n \in 0..Len(file) |-> IF n = 0 THEN <<>> ELSE Loads(g[n - 1], file[n])]
           G == [p \in Panel \X Defined |-> Loads(p[1], p[2])]
<1>1. Len(file) \in Nat /\ \A n \in 1..Len(file) : file[n] \in Defined
  OBVIOUS
<1>2. <<>> \in Panel
  BY DEF Panel, Distinct
<1>3. G \in [Panel \X Defined -> Panel]
  BY LoadsPanel
<1>4. LoadControls(file) = f[Len(file)]
  BY Zenon DEF LoadControls
<1> HIDE DEF f
<1>6. PICK d : Solves(d, Panel, <<>>, G, file)
  <2> HIDE DEF G
  <2> QED BY <1>2, <1>3, Recursion, Zenon
<1>7. ASSUME NEW n \in 1..Len(file) PROVE d[n] = Loads(d[n - 1], file[n])
  <2>1. d[n - 1] \in Panel /\ file[n] \in Defined /\ d[n] = G[<<d[n - 1], file[n]>>]
    <3> HIDE DEF G
    <3>1. n - 1 \in 0..Len(file)
      BY <1>1
    <3>2. d \in [0..Len(file) -> Panel] /\ d[n] = G[<<d[n - 1], file[n]>>]
      BY <1>6, Zenon DEF Solves
    <3>3. d[n - 1] \in Panel
      BY <3>1, <3>2
    <3> QED BY <3>2, <3>3, <1>1
  <2> QED BY <2>1
<1> HIDE DEF G
<1>8. d = [n \in 0..Len(file) |-> IF n = 0 THEN <<>> ELSE Loads(d[n - 1], file[n])]
  <2>1. d \in [0..Len(file) -> Panel] /\ d[0] = <<>>
    BY <1>6 DEF Solves
  <2> QED BY <1>1, <1>7, <2>1
<1>9. f = [n \in 0..Len(file) |-> IF n = 0 THEN <<>> ELSE Loads(f[n - 1], file[n])]
  BY <1>8, Zenon DEF f
<1>10. f[0] = <<>> /\ \A n \in 1..Len(file) : f[n] = Loads(f[n - 1], file[n])
  <2>1. 0 \in 0..Len(file) /\ \A n \in 1..Len(file) : n \in 0..Len(file) /\ n # 0
    BY <1>1
  <2> QED BY <1>9, <2>1, Zenon
<1> DEFINE T == {n \in 0..Len(file) : f[n] \in Panel /\ Len(f[n]) <= n}
<1>11. 0 \in T
  <2>1. 0 \in 0..Len(file)
    BY <1>1
  <2> QED BY <2>1, <1>2, <1>10
<1>12. ASSUME NEW n \in 0..(Len(file) - 1), n \in T PROVE n + 1 \in T
  <2> DEFINE m == n + 1
  <2>1. m \in 1..Len(file) /\ m - 1 = n /\ file[m] \in Defined /\ m \in 0..Len(file)
    BY <1>1
  <2>2. f[n] \in Panel /\ Len(f[n]) <= n /\ Len(f[n]) \in Nat
    BY <1>12, PanelIs
  <2> HIDE DEF T, m
  <2>3. f[m] = Loads(f[n], file[m])
    BY <1>10, <2>1
  <2>4. f[m] \in Panel /\ Len(f[m]) \in {Len(f[n]), Len(f[n]) + 1}
    BY <2>1, <2>2, <2>3, LoadsPanel, Zenon
  <2>5. Len(f[m]) <= m
    <3>1. m = n + 1 /\ n \in Nat
      BY <1>1 DEF m
    <3> QED BY <3>1, <2>2, <2>4
  <2> QED BY <2>1, <2>4, <2>5 DEF T, m
<1> HIDE DEF T
<1>13. Len(file) \in T
  <2>1. Len(file) \in 0..Len(file)
    BY <1>1
  <2>2. 0..Len(file) \subseteq T
    BY <1>1, <1>11, <1>12, UpTo, Zenon
  <2> QED BY <2>1, <2>2
<1> QED BY <1>4, <1>13 DEF T

-----------------------------------------------------------------------------
(* The steps *)

LEMMA BecomesPanel ==
  ASSUME NEW cs \in Panel, Len(cs) <= MaxControl, Becomes(cs)
  PROVE  ControlInv'
  BY RebuiltPanel DEF Becomes, ControlInv

\* What a user or a file gives is a definition.
LEMMA GivenIsDefined ==
  ASSUME NEW V, V \subseteq Int
  PROVE  Definitions(V) \subseteq Defined
  BY PanelNumbers DEF Definitions, Defined

LEMMA OneLoaded ==
  ASSUME NEW d \in Definitions(Bound)
  PROVE  LoadControls(<<d>>) \in Panel /\ Len(LoadControls(<<d>>)) <= 1
<1>1. d \in Defined
  BY GivenIsDefined, PanelNumbers
<1>2. <<d>> \in Seq(Defined) /\ Len(<<d>>) = 1
  BY <1>1
<1> QED BY <1>2, LoadPanel

\* The editor's result is a row, whose key is the one it was opened with or one
\* that is not used.
LEMMA EditedRow ==
  ASSUME NEW key \in Key \cup {NoKey}, NEW value \in Int, NEW used, NEW c \in Edited(key, value, used)
  PROVE  /\ c \in GoodRow /\ (c.key = NoKey \/ c.key = key \/ c.key \notin used)
         /\ value \in {0, 10} /\ c.kind \notin Ranged => c.value = value
<1>1. PICK d \in Definitions({value}) : /\ Valid(d) /\ (d.key = key \/ d.key \notin used)
                                        /\ c = Control(d, d.key)
  BY DEF Edited
<1>2. d \in Defined /\ d.value = value /\ d.key \in Key \cup {NoKey}
  <2>1. {value} \subseteq Int
    OBVIOUS
  <2>2. d.value = value /\ d.key \in Key \cup {NoKey}
    BY DEF Definitions
  <2> QED BY <2>1, <2>2, GivenIsDefined
<1>3. /\ c \in GoodRow /\ c.key \in {d.key, NoKey} /\ c.kind = d.kind
      /\ d.kind \notin Ranged => c.value = IF d.value = 0 THEN 0 ELSE 10
  BY <1>1, <1>2, FreshRow
<1>4. value \in {0, 10} /\ c.kind \notin Ranged => c.value = value
  BY <1>2, <1>3
<1> QED BY <1>1, <1>3, <1>4

LEMMA AddStep ==
  ASSUME ControlInv, Add
  PROVE  ControlInv'
<1>0. controls \in Panel /\ Len(controls) \in Nat
  BY PanelIs DEF ControlInv
<1>1. PICK c \in Edited(NoKey, 0, Keys(controls)) :
        Len(controls) < MaxControl /\ Becomes(Append(controls, c))
  BY DEF Add
<1>2. c \in GoodRow /\ (c.key = NoKey \/ c.key \notin Keys(controls))
  <2>1. NoKey \in Key \cup {NoKey} /\ 0 \in Int
    OBVIOUS
  <2> QED BY <2>1, EditedRow
<1>3. c.key = NoKey \/ \A i \in 1..Len(controls) : controls[i].key # c.key
  BY <1>0, <1>2, PanelIs DEF Keys
<1>4. Append(controls, c) \in Panel /\ Len(Append(controls, c)) = Len(controls) + 1
  BY <1>0, <1>2, <1>3, AppendPanel
<1>5. Len(controls) + 1 <= MaxControl
  BY <1>0, <1>1, PanelNumbers
<1> QED BY <1>1, <1>4, <1>5, BecomesPanel

LEMMA EditStep ==
  ASSUME ControlInv, NEW i \in Rows, EditControl(i)
  PROVE  ControlInv'
<1>0. controls \in Panel /\ Len(controls) \in Nat /\ Len(controls) <= MaxControl /\ i \in 1..Len(controls)
  BY PanelIs DEF ControlInv, Rows
<1> DEFINE old == controls[i]
<1>1. old \in GoodRow
  BY <1>0, PanelIs
<1>2. PICK c \in Edited(old.key, old.value, UsedKeys(i)) :
        LET new == [c EXCEPT !.told = IF c.kind = old.kind THEN old.told ELSE Nothing]
        IN  Becomes([controls EXCEPT ![i] = new])
  BY Zenon DEF EditControl
<1> DEFINE told == IF c.kind = old.kind THEN old.told ELSE Nothing
           new == [c EXCEPT !.told = told]
<1>3. /\ old.key \in Key \cup {NoKey} /\ old.value \in Int /\ old.told \in SUBSET Int
      /\ old.kind \notin Ranged => old.value \in {0, 10}
      /\ old.kind = "toggle" => old.told \subseteq {old.value}
  BY <1>1, RowIs
<1>4. /\ c \in GoodRow /\ (c.key = NoKey \/ c.key = old.key \/ c.key \notin UsedKeys(i))
      /\ old.value \in {0, 10} /\ c.kind \notin Ranged => c.value = old.value
  <2> HIDE DEF old
  <2> QED BY <1>3, EditedRow
<1>5. told \in SUBSET Int /\ (c.kind = "toggle" => told \subseteq {c.value})
  <2> HIDE DEF old
  <2> QED BY <1>3, <1>4 DEF Nothing, Ranged
<1>6. c.key = NoKey \/ \A j \in 1..Len(controls) \ {i} : controls[j].key # c.key
  <2>1. CASE c.key = old.key /\ c.key # NoKey
    BY <2>1, <1>0, PanelIs DEF Distinct
  <2>2. CASE c.key \notin UsedKeys(i) /\ c.key # NoKey
    BY <2>2 DEF UsedKeys, Rows
  <2> QED BY <2>1, <2>2, <1>4
<1>7. Becomes([controls EXCEPT ![i] = new])
  BY <1>2, Zenon
<1> HIDE DEF old, told
<1>8. new \in GoodRow /\ new.key = c.key
  <2>1. c \in ControlRow
    BY <1>4, RowIs
  <2>2. /\ new \in ControlRow /\ new.key = c.key /\ new.kind = c.kind /\ new.step = c.step
        /\ new.value = c.value /\ new.told = told
    BY <2>1, <1>5 DEF ControlRow
  <2> HIDE DEF new
  <2> QED BY <2>2, <1>4, <1>5, RowIs DEF GoodRow
<1> HIDE DEF new
<1>9. /\ [controls EXCEPT ![i] = new] \in Panel
      /\ Len([controls EXCEPT ![i] = new]) = Len(controls)
  BY <1>0, <1>6, <1>8, ReplacePanel
<1> QED BY <1>0, <1>7, <1>9, BecomesPanel

LEMMA DeleteStep ==
  ASSUME ControlInv, NEW i \in Rows, DeleteControl(i)
  PROVE  ControlInv'
<1>0. controls \in Panel /\ Len(controls) \in Nat /\ Len(controls) <= MaxControl /\ i \in 1..Len(controls)
  BY PanelIs DEF ControlInv, Rows
<1>1. RemoveAt(controls, i) \in Panel /\ Len(RemoveAt(controls, i)) <= Len(controls)
  BY <1>0, RemovePanel
<1>2. Len(RemoveAt(controls, i)) \in Nat
  BY <1>1, PanelIs
<1>3. Len(RemoveAt(controls, i)) <= MaxControl
  BY <1>0, <1>1, <1>2, PanelNumbers
<1> QED BY <1>1, <1>3, BecomesPanel DEF DeleteControl

LEMMA MoveStep ==
  ASSUME ControlInv, NEW i \in Rows, NEW j \in Rows, Move(i, j)
  PROVE  ControlInv'
<1>0. /\ controls \in Panel /\ Len(controls) <= MaxControl
      /\ i \in 1..Len(controls) /\ j \in 1..Len(controls)
  BY DEF ControlInv, Rows
<1> DEFINE cs == [controls EXCEPT ![i] = controls[j], ![j] = controls[i]]
<1>1. cs \in Panel /\ Len(cs) = Len(controls)
  BY <1>0, SwapPanel
<1>2. Becomes(cs)
  BY DEF Move
<1> HIDE DEF cs
<1> QED BY <1>0, <1>1, <1>2, BecomesPanel

LEMMA ImportStep ==
  ASSUME ControlInv, Import
  PROVE  ControlInv'
<1>0. controls \in Panel /\ Len(controls) \in Nat
  BY PanelIs DEF ControlInv
<1>1. PICK d \in Definitions(Bound) :
        LET new == LoadControls(<<d>>)
            own == [i \in DOMAIN new |-> IF new[i].key \in Keys(controls)
                                         THEN [new[i] EXCEPT !.key = NoKey] ELSE new[i]]
        IN  Len(controls) < MaxControl /\ Becomes(controls \o own)
  BY Zenon DEF Import
<1> DEFINE new == LoadControls(<<d>>)
           kept(i) == IF new[i].key \in Keys(controls) THEN [new[i] EXCEPT !.key = NoKey] ELSE new[i]
           own == [i \in DOMAIN new |-> kept(i)]
<1>2. new \in Panel /\ Len(new) <= 1
  BY OneLoaded
<1>3. Len(controls) < MaxControl /\ Becomes(controls \o own)
  BY <1>1, Zenon
<1> HIDE DEF new
<1>4. ASSUME NEW i \in 1..Len(new)
      PROVE  kept(i) \in GoodRow /\ (kept(i).key = NoKey \/ kept(i).key = new[i].key)
             /\ kept(i).key \notin Keys(controls)
  <2>1. new[i] \in GoodRow
    BY <1>2, PanelIs
  <2>2. NoKey \notin Keys(controls)
    BY DEF Keys
  <2>3. CASE new[i].key \in Keys(controls)
    <3> DEFINE c == new[i]
               e == [c EXCEPT !.key = NoKey]
    <3>1. c \in ControlRow
      BY <2>1, RowIs
    <3>2. kept(i) = e
      BY <2>3
    <3> HIDE DEF c
    <3>3. e \in ControlRow /\ e.key = NoKey /\ e.kind = c.kind /\ e.step = c.step
          /\ e.value = c.value /\ e.told = c.told
      BY <3>1 DEF ControlRow
    <3> HIDE DEF e
    <3>4. e \in GoodRow
      BY <3>3, <2>1, RowIs DEF GoodRow, c
    <3> HIDE DEF kept
    <3> QED BY <3>2, <3>3, <3>4, <2>2
  <2>4. CASE new[i].key \notin Keys(controls)
    BY <2>1, <2>4
  <2> QED BY <2>3, <2>4
<1>5. own = [i \in 1..Len(new) |-> kept(i)]
  BY <1>2, PanelIs
<1>6. own \in Seq(GoodRow) /\ Len(own) = Len(new)
  <2>1. own \in [1..Len(new) -> GoodRow]
    <3> HIDE DEF kept
    <3> QED BY <1>4, <1>5
  <2> HIDE DEF own
  <2> QED BY <2>1, <1>2, PanelIs, FunctionIsSeq
<1>7. \A i \in 1..Len(own) : own[i] = kept(i)
  BY <1>5, <1>6
<1> HIDE DEF own, kept
<1>8. \A i, j \in 1..Len(own) : i = j
  BY <1>2, <1>6, PanelIs
<1>9. own \in Panel
  BY <1>6, <1>8 DEF Panel, Distinct
<1>10. \A i \in 1..Len(own) : own[i].key = NoKey \/ \A j \in 1..Len(controls) : controls[j].key # own[i].key
  BY <1>0, <1>4, <1>6, <1>7, PanelIs DEF Keys
<1>11. controls \o own \in Panel /\ Len(controls \o own) = Len(controls) + Len(own)
  BY <1>0, <1>9, <1>10, ConcatPanel
<1>12. Len(controls) + Len(own) <= MaxControl
  BY <1>0, <1>2, <1>3, <1>6, <1>9, PanelIs, PanelNumbers
<1> QED BY <1>3, <1>11, <1>12, BecomesPanel

LEMMA RestartStep ==
  ASSUME ControlInv, Restart
  PROVE  ControlInv'
<1>0. controls \in Panel /\ Len(controls) \in Nat /\ Len(controls) <= MaxControl
  BY PanelIs DEF ControlInv
<1> DEFINE file == [i \in Rows |-> Saved(controls[i])]
<1>1. ASSUME NEW i \in 1..Len(controls) PROVE Saved(controls[i]) \in Defined
  <2>1. controls[i] \in GoodRow
    BY <1>0, PanelIs
  <2> QED BY <2>1, RowIs DEF Saved, Defined
<1>2. file \in [1..Len(controls) -> Defined]
  BY <1>1 DEF Rows
<1>3. controls' = LoadControls(file)
  BY Zenon DEF Restart
<1> HIDE DEF file
<1>4. file \in Seq(Defined) /\ Len(file) = Len(controls)
  BY <1>0, <1>2, FunctionIsSeq
<1>5. controls' \in Panel /\ Len(controls') <= Len(controls)
  BY <1>3, <1>4, LoadPanel
<1>6. Len(controls') \in Nat
  BY <1>5, PanelIs
<1> QED BY <1>0, <1>5, <1>6, PanelNumbers DEF ControlInv

\* A row with its own key takes the place of one.
LEMMA RowStep ==
  ASSUME ControlInv, NEW i \in Rows, NEW e \in GoodRow, e.key = controls[i].key,
         controls' = [controls EXCEPT ![i] = e]
  PROVE  ControlInv'
<1>0. controls \in Panel /\ Len(controls) <= MaxControl /\ i \in 1..Len(controls)
  BY DEF ControlInv, Rows
<1>1. e.key = NoKey \/ \A j \in 1..Len(controls) \ {i} : controls[j].key # e.key
  BY <1>0, PanelIs DEF Distinct
<1>2. controls' \in Panel /\ Len(controls') = Len(controls)
  BY <1>0, <1>1, ReplacePanel
<1> QED BY <1>0, <1>2 DEF ControlInv

LEMMA AtRow ==
  ASSUME ControlInv, NEW i \in Rows
  PROVE  controls[i] \in GoodRow /\ DOMAIN controls = Rows
  BY PanelIs DEF ControlInv, Rows

\* A toggle that a send was tried of.
LEMMA ToggleStep ==
  ASSUME ControlInv, NEW i \in Rows, NEW ok \in BOOLEAN, Toggle(i, ok)
  PROVE  ControlInv'
<1> DEFINE c == controls[i]
           on == IF c.value = 0 THEN 10 ELSE 0
           value == IF ok THEN on ELSE c.value
           tried == IF ok THEN on ELSE c.tried
           told == IF ok THEN {on} ELSE c.told
           e == [c EXCEPT !.value = value, !.tried = tried, !.told = told]
<1>1. c \in GoodRow /\ c \in ControlRow
  BY AtRow, RowIs
<1>2. c.kind = "toggle"
  BY DEF Toggle
<1>3. controls' = [controls EXCEPT ![i] = e]
  BY <1>1, AtRow DEF Toggle, ControlRow
<1> HIDE DEF c
<1>4. /\ c.value \in {0, 10} /\ c.tried \in Int /\ c.told \in SUBSET Int /\ c.told \subseteq {c.value}
  BY <1>1, <1>2, RowIs DEF Ranged
<1>5. /\ value \in {0, 10} /\ value \in Int /\ tried \in Int /\ told \in SUBSET Int
      /\ told \subseteq {value}
  BY <1>4
<1> HIDE DEF on, value, tried, told
<1>6. /\ e \in ControlRow /\ e.kind = c.kind /\ e.key = c.key /\ e.value = value /\ e.told = told
  BY <1>1, <1>5 DEF ControlRow
<1> HIDE DEF e
<1>7. e \in GoodRow
  BY <1>2, <1>5, <1>6 DEF GoodRow, Ranged
<1> QED BY <1>3, <1>6, <1>7, RowStep DEF c

\* The row of a slider or a number with another value, or another memory.
LEMMA SendStep ==
  ASSUME ControlInv, NEW i \in Rows, NEW e \in ControlRow, controls[i].kind \in Ranged,
         e.kind = controls[i].kind, e.step = controls[i].step, e.key = controls[i].key,
         controls' = [controls EXCEPT ![i] = e]
  PROVE  ControlInv'
<1>1. controls[i] \in GoodRow
  BY AtRow
<1>2. e \in GoodRow
  BY <1>1, RangedRow
<1> QED BY <1>2, RowStep

LEMMA DragStep ==
  ASSUME ControlInv, NEW i \in Rows,
         NEW tick \in 0..Round(controls[i].max - controls[i].min, controls[i].step), Drag(i, tick)
  PROVE  ControlInv'
<1> DEFINE c == controls[i]
           v == Snap(c, c.min + tick * c.step)
           e == [c EXCEPT !.value = v, !.timer = TRUE]
<1>1. c \in GoodRow /\ c \in ControlRow
  BY AtRow, RowIs
<1>2. c.kind = "slider" /\ c.kind \in Ranged
  BY DEF Drag, Ranged
<1>3. controls' = [controls EXCEPT ![i] = e]
  <2>1. controls' = [controls EXCEPT ![i].value = v, ![i].timer = TRUE]
    BY Zenon DEF Drag
  <2> HIDE DEF v
  <2> QED BY <2>1, <1>1, AtRow DEF ControlRow
<1>4. c.min \in Int /\ c.max \in Int /\ c.step \in Int /\ c.step > 0
  BY <1>1, <1>2, RowIs
<1>5. tick \in Int
  <2>1. Round(c.max - c.min, c.step) \in Int
    <3> HIDE DEF c
    <3>1. c.max - c.min \in Int
      BY <1>4
    <3> QED BY <3>1, <1>4, RoundInt
  <2> QED BY <2>1
<1> HIDE DEF c
<1>6. c.min + tick * c.step \in Int
  <2>1. tick * c.step \in Int
    BY <1>4, <1>5
  <2> QED BY <2>1, <1>4
<1>7. v \in Int
  BY <1>4, <1>6, SnapInt
<1> HIDE DEF v
<1>8. e \in ControlRow /\ e.kind = c.kind /\ e.step = c.step /\ e.key = c.key
  BY <1>1, <1>7 DEF ControlRow
<1> HIDE DEF e
<1> QED BY <1>2, <1>3, <1>8, SendStep DEF c

LEMMA FlushStep ==
  ASSUME ControlInv, NEW i \in Rows, Flush(i)
  PROVE  ControlInv'
<1> DEFINE c == controls[i]
           idle == [c EXCEPT !.timer = FALSE]
           e == IF c.last = {c.value} THEN idle ELSE Sent([idle EXCEPT !.last = {c.value}], c.value)
<1>1. c \in GoodRow /\ c \in ControlRow
  BY AtRow, RowIs
<1>2. c.kind = "slider" /\ c.kind \in Ranged /\ controls' = [controls EXCEPT ![i] = e]
  BY DEF Flush, Ranged
<1>3. c.value \in Int
  BY <1>1, RowIs
<1> HIDE DEF c
<1>4. e \in ControlRow /\ e.kind = c.kind /\ e.step = c.step /\ e.key = c.key
  BY <1>1, <1>3 DEF ControlRow, Sent
<1> HIDE DEF e
<1> QED BY <1>2, <1>4, SendStep DEF c

LEMMA SubmitStep ==
  ASSUME ControlInv, NEW i \in Rows, NEW typed \in Bound, Submit(i, typed)
  PROVE  ControlInv'
<1> DEFINE c == controls[i]
           v == Snap(c, typed)
           e == Sent([c EXCEPT !.value = v], v)
<1>1. c \in GoodRow /\ c \in ControlRow
  BY AtRow, RowIs
<1>2. c.kind = "number" /\ c.kind \in Ranged /\ controls' = [controls EXCEPT ![i] = e]
  BY DEF Submit, Ranged
<1>3. c.min \in Int /\ c.max \in Int /\ c.step \in Int /\ c.step > 0
  BY <1>1, <1>2, RowIs
<1>4. typed \in Int
  BY PanelNumbers
<1> HIDE DEF c
<1>5. v \in Int
  BY <1>3, <1>4, SnapInt
<1> HIDE DEF v
<1>6. e \in ControlRow /\ e.kind = c.kind /\ e.step = c.step /\ e.key = c.key
  BY <1>1, <1>5 DEF ControlRow, Sent
<1> HIDE DEF e
<1> QED BY <1>2, <1>6, SendStep DEF c

-----------------------------------------------------------------------------
(* The theorems *)

LEMMA ControlStart == ControlInit => ControlInv
<1> SUFFICES ASSUME ControlInit PROVE ControlInv
  OBVIOUS
<1>1. controls \in Panel /\ Len(controls) <= 1
  BY OneLoaded DEF ControlInit
<1>2. Len(controls) \in Nat
  BY <1>1, PanelIs
<1> QED BY <1>1, <1>2, PanelNumbers DEF ControlInv

LEMMA ControlStep == ControlInv /\ [ControlNext]_controlVars => ControlInv'
<1> SUFFICES ASSUME ControlInv, [ControlNext]_controlVars PROVE ControlInv'
  OBVIOUS
<1>1. CASE UNCHANGED controlVars
  BY <1>1 DEF controlVars, ControlInv
<1>2. CASE Add \/ Import \/ Restart
  BY <1>2, AddStep, ImportStep, RestartStep
<1>3. CASE Resize
  BY <1>3, BecomesPanel DEF Resize, ControlInv
<1>4. ASSUME NEW i \in Rows, EditControl(i) \/ DeleteControl(i) \/ LetGo(i) \/ TimerFires(i)
      PROVE  ControlInv'
  BY <1>4, EditStep, DeleteStep, FlushStep DEF LetGo, TimerFires
<1>5. ASSUME NEW i \in Rows, NEW j \in Rows, Move(i, j) PROVE ControlInv'
  BY <1>5, MoveStep
<1>6. ASSUME NEW i \in Rows,
             NEW tick \in 0..Round(controls[i].max - controls[i].min, controls[i].step), Drag(i, tick)
      PROVE  ControlInv'
  BY <1>6, DragStep
<1>7. ASSUME NEW i \in Rows, NEW v \in Bound, Submit(i, v) PROVE ControlInv'
  BY <1>7, SubmitStep
<1>8. ASSUME NEW i \in Rows, NEW ok \in BOOLEAN, Toggle(i, ok) PROVE ControlInv'
  BY <1>8, ToggleStep
<1>9. ASSUME NEW k \in Key, NEW ok \in BOOLEAN, FireKey(k, ok) PROVE ControlInv'
  BY <1>9, ToggleStep DEF FireKey
<1> QED BY <1>1, <1>2, <1>3, <1>4, <1>5, <1>6, <1>7, <1>8, <1>9, Zenon DEF ControlNext, ControlUser

THEOREM ControlAlways == ControlSpec => []ControlInv
  BY ControlStart, ControlStep, PTL DEF ControlSpec

\* The types of the controls, for every set of keys, numbers and steps.
THEOREM ControlTypeCorrect == ControlSpec => []ControlTypeOK
<1>1. ASSUME ControlInv PROVE ControlTypeOK
  <2>1. controls \in Seq(GoodRow) /\ Len(controls) \in Nat /\ Len(controls) <= MaxControl
        /\ DOMAIN controls = 1..Len(controls) /\ \A i \in 1..Len(controls) : controls[i] \in GoodRow
    BY <1>1, PanelIs DEF ControlInv
  <2>2. \A i \in 1..Len(controls) : controls[i] \in ControlRow
    BY <2>1, RowIs
  <2>3. controls \in [1..Len(controls) -> ControlRow]
    BY <2>1, <2>2
  <2>4. controls \in Seq(ControlRow)
    BY <2>1, <2>3, FunctionIsSeq
  <2> QED BY <2>1, <2>4 DEF ControlTypeOK
<1> QED BY <1>1, ControlAlways, PTL

\* A function key fires one button or toggle (ui/control_panel.py, fire_key), whatever
\* was edited, imported, moved, saved and loaded.
THEOREM KeyFires == ControlSpec => []KeyFiresOne
<1>1. ASSUME ControlInv, NEW i \in Rows, controls[i].key # NoKey
      PROVE  controls[i].kind \notin Ranged /\ \A j \in Rows \ {i} : controls[j].key # controls[i].key
  <2>1. controls[i] \in GoodRow
    BY <1>1, AtRow
  <2>2. controls[i].kind \notin Ranged
    BY <1>1, <2>1, RowIs
  <2> QED BY <1>1, <2>2, PanelIs DEF ControlInv, Distinct, Rows
<1>2. ControlInv => KeyFiresOne
  BY <1>1, Zenon DEF KeyFiresOne
<1> QED BY <1>2, ControlAlways, PTL

\* A toggle that was switched shows what last went out of it (_on_toggle undoes a
\* failed send), through edits, moves and rebuilt rows.
THEOREM ToggleTrue == ControlSpec => []ToggleHonest
<1>1. ASSUME ControlInv, NEW i \in Rows, controls[i].kind = "toggle"
      PROVE  controls[i].told \subseteq {controls[i].value}
  <2>1. controls[i] \in GoodRow
    BY <1>1, AtRow
  <2> QED BY <1>1, <2>1, RowIs
<1>2. ControlInv => ToggleHonest
  BY <1>1, Zenon DEF ToggleHonest
<1> QED BY <1>2, ControlAlways, PTL
=============================================================================
