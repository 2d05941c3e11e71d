---------------------------- MODULE Relay_proofs ----------------------------
(***************************************************************************)
(* The relay, for every number of viewers, lines, shares and codes,        *)
(* whatever the limits and however many requests and answers are lost.     *)
(* RelayTunnel: a viewer of a relayed share sees the lines in the order    *)
(* they were fed and none twice, and from the first line it is owed none   *)
(* is lost silently, unless a push outlived its timeout or the relay       *)
(* forgot the viewer.  ShareCode: the code in the share dialog is the one  *)
(* this share posts to.  RateLimit: the relay's limit is kept, but for the *)
(* time a handler is held up between the clock and the lock.               *)
(***************************************************************************)
EXTENDS RelayTunnel, ShareCode, RateLimit, SequenceTheorems, FiniteSetTheorems, WellFoundedInduction, TLAPS

-----------------------------------------------------------------------------
(* RelayTunnel: where a line can be *)

\* The lines of a sequence come in the order they were fed; those of A before
\* those of B.
Rising(s)   == \A i, j \in 1..Len(s) :
                 i < j /\ s[i] # Goodbye /\ s[j] # Goodbye => s[i] < s[j]
Below(A, B) == \A a \in A : \A b \in B : a < b

\* Lines that are posted and not yet taken by the relay.
SentLines == UNION {LinesIn(push[p].msgs) : p \in {q \in Pusher : push[q].at = "sent"}}
Todo(c)   == UNION {LinesIn(push[p].todo[c]) : p \in Pusher}

\* What a push and a poll are made of, whatever happens to them: the goodbye is
\* pushed alone and by stop(), a viewer's part of a push waits only while the relay
\* hands it out, and only an answer has messages.
PushOK(p, r, vs) ==
  /\ p = "stop" => /\ r.msgs \in {<<>>, <<Goodbye>>}
                   /\ \A c \in Client : r.todo[c] \in {<<>>, <<Goodbye>>}
  /\ p # "stop" => r.msgs \in Seq(Line) /\ \A c \in Client : r.todo[c] \in Seq(Line)
  /\ r.at = "none" => r.msgs = <<>>
  /\ \A c \in Client : r.at # "put" \/ c \notin vs => r.todo[c] = <<>>
Pushes == \A p \in Pusher : PushOK(p, push[p], viewers)
Requests ==
  \A c \in Client :
    /\ poll[c].at # "answer" => poll[c].msgs = <<>>
    /\ pc[c] = "off" => poll[c].at = "none"
    /\ c \notin viewers \cup forgotten => poll[c].msgs = <<>> /\ shown[c] = <<>>

\* The host and the relay: the lines wait, are posted and enter in the order they
\* were fed, and the relay keeps the last that entered.
HostSide ==
  /\ push["worker"].at = "none" \/ push["late"].at = "none"
  /\ Rising(relayQ) /\ LinesIn(relayQ) \subseteq 1..fed
  /\ \A p \in Pusher : Rising(push[p].msgs)
  /\ SentLines \subseteq 1..fed /\ Below(SentLines, LinesIn(relayQ))
  /\ lost \subseteq 1..fed /\ lost \cap (SentLines \cup LinesIn(relayQ)) = {}
  /\ Below(Entered, SentLines) /\ Below(Entered, LinesIn(relayQ))
Backlog ==
  /\ Rising(recent) /\ LinesIn(recent) \subseteq Entered
  /\ \A n \in Entered : recent # <<>> /\ (n >= recent[1] => n \in LinesIn(recent))

\* A viewer: what it was shown, what is in its answer, in its queue and still to be
\* put there follow each other.
Follows(c) ==
  /\ LinesIn(shown[c]) \cup LinesIn(poll[c].msgs) \cup LinesIn(vq[c]) \cup Todo(c)
       \subseteq Entered
  /\ Rising(shown[c]) /\ Rising(poll[c].msgs) /\ Rising(vq[c])
  /\ \A p \in Pusher : Rising(push[p].todo[c])
  /\ Below(LinesIn(shown[c]), LinesIn(poll[c].msgs))
  /\ Below(LinesIn(shown[c]) \cup LinesIn(poll[c].msgs), LinesIn(vq[c]))
  /\ Below(LinesIn(shown[c]) \cup LinesIn(poll[c].msgs) \cup LinesIn(vq[c]), Todo(c))

Ordered == ~overlap => HostSide /\ Backlog /\ \A c \in Client \ forgotten : Follows(c)

IInv == TypeOK /\ Pushes /\ Requests /\ Ordered /\ Gapless

-----------------------------------------------------------------------------
(* Lines of sequences *)

\* A message is a number, and one that is no line is the goodbye.
LEMMA MessageIs == /\ Line \subseteq Nat \ {0} /\ Message \subseteq Nat
                   /\ \A m \in Message : m \in Line <=> m # Goodbye
BY BoundsAssumption DEF Line, Message, Goodbye

LEMMA SeqIs ==
  ASSUME NEW s \in Seq(Message)
  PROVE  /\ Len(s) \in Nat /\ \A i \in 1..Len(s) : s[i] \in Message
         /\ LinesIn(s) = {s[i] : i \in {j \in 1..Len(s) : s[j] # Goodbye}}
         /\ LinesIn(s) \subseteq Line
<1>1. Len(s) \in Nat /\ \A i \in 1..Len(s) : s[i] \in Message
  OBVIOUS
<1> QED BY <1>1, MessageIs DEF LinesIn

LEMMA NoLines == /\ LinesIn(<<>>) = {} /\ LinesIn(<<Goodbye>>) = {}
                 /\ Rising(<<>>) /\ Rising(<<Goodbye>>)
<1>1. LinesIn(<<Goodbye>>) = {}
  <2>1. <<Goodbye>>[1] = Goodbye /\ Len(<<Goodbye>>) = 1 /\ Goodbye \notin Line
    BY BoundsAssumption DEF Line, Goodbye
  <2> QED BY <2>1 DEF LinesIn
<1>2. Rising(<<Goodbye>>)
  BY DEF Rising
<1> QED BY <1>1, <1>2 DEF LinesIn, Rising

\* One message more.
LEMMA AppendLines ==
  ASSUME NEW s \in Seq(Message), NEW m \in Message
  PROVE  /\ Append(s, m) \in Seq(Message) /\ Len(Append(s, m)) = Len(s) + 1
         /\ LinesIn(Append(s, m)) = LinesIn(s) \cup (IF m = Goodbye THEN {} ELSE {m})
         /\ Rising(s) /\ (m # Goodbye => Below(LinesIn(s), {m})) => Rising(Append(s, m))
<1> DEFINE t == Append(s, m)
<1>1. /\ t \in Seq(Message) /\ Len(t) = Len(s) + 1 /\ Len(s) \in Nat
      /\ t[Len(s) + 1] = m /\ \A i \in 1..Len(s) : t[i] = s[i]
  OBVIOUS
<1>2. \A i : i \in 1..Len(t) <=> i \in 1..Len(s) \/ i = Len(s) + 1
  BY <1>1
<1> HIDE DEF t
<1>3. LinesIn(t) = LinesIn(s) \cup (IF m = Goodbye THEN {} ELSE {m})
  BY <1>1, <1>2, SeqIs
<1>4. ASSUME Rising(s), m # Goodbye => Below(LinesIn(s), {m})  PROVE Rising(t)
  <2> SUFFICES ASSUME NEW i \in 1..Len(t), NEW j \in 1..Len(t), i < j,
                      t[i] # Goodbye, t[j] # Goodbye
               PROVE  t[i] < t[j]
    BY DEF Rising
  <2>1. i \in 1..Len(s) /\ t[i] = s[i]
    BY <1>1, <1>2
  <2>2. CASE j \in 1..Len(s)
    BY <1>1, <1>4, <2>1, <2>2 DEF Rising
  <2>3. CASE j = Len(s) + 1
    <3>1. t[i] \in LinesIn(s)
      BY <2>1, SeqIs
    <3> QED BY <1>1, <1>4, <2>3, <3>1 DEF Below
  <2> QED BY <1>2, <2>2, <2>3
<1> QED BY <1>1, <1>3, <1>4 DEF t

\* Two sequences, one after the other.
LEMMA ConcatLines ==
  ASSUME NEW s \in Seq(Message), NEW r \in Seq(Message)
  PROVE  /\ s \o r \in Seq(Message)
         /\ LinesIn(s \o r) = LinesIn(s) \cup LinesIn(r)
         /\ Rising(s) /\ Rising(r) /\ Below(LinesIn(s), LinesIn(r)) => Rising(s \o r)
<1> DEFINE t == s \o r
<1>1. /\ t \in Seq(Message) /\ Len(t) = Len(s) + Len(r) /\ Len(s) \in Nat /\ Len(r) \in Nat
      /\ \A i \in 1..Len(s) : t[i] = s[i]
      /\ \A i \in 1..Len(t) : i > Len(s) => t[i] = r[i - Len(s)]
  OBVIOUS
<1> HIDE DEF t
<1>2. \A i \in 1..Len(t) : \/ i \in 1..Len(s) /\ t[i] = s[i]
                           \/ i > Len(s) /\ i - Len(s) \in 1..Len(r) /\ t[i] = r[i - Len(s)]
  BY <1>1
<1>3. ASSUME NEW i \in 1..Len(r) PROVE i + Len(s) \in 1..Len(t) /\ t[i + Len(s)] = r[i]
  <2>1. i + Len(s) \in 1..Len(t) /\ i + Len(s) > Len(s) /\ (i + Len(s)) - Len(s) = i
    BY <1>1
  <2>2. t[i + Len(s)] = r[(i + Len(s)) - Len(s)]
    BY <2>1, <1>1, Zenon
  <2> QED BY <2>1, <2>2
<1>4. \A i \in 1..Len(s) : i \in 1..Len(t)
  BY <1>1
<1>5. LinesIn(t) = LinesIn(s) \cup LinesIn(r)
  <2>1. ASSUME NEW n \in LinesIn(t) PROVE n \in LinesIn(s) \cup LinesIn(r)
    BY <1>2 DEF LinesIn
  <2>2. ASSUME NEW n \in LinesIn(s) PROVE n \in LinesIn(t)
    BY <1>1, <1>4 DEF LinesIn
  <2>3. ASSUME NEW n \in LinesIn(r) PROVE n \in LinesIn(t)
    BY <1>3 DEF LinesIn
  <2> QED BY <2>1, <2>2, <2>3
<1>6. ASSUME Rising(s), Rising(r), Below(LinesIn(s), LinesIn(r))  PROVE Rising(t)
  <2> SUFFICES ASSUME NEW i \in 1..Len(t), NEW j \in 1..Len(t), i < j,
                      t[i] # Goodbye, t[j] # Goodbye
               PROVE  t[i] < t[j]
    BY DEF Rising
  <2>1. CASE i \in 1..Len(s) /\ j \in 1..Len(s)
    BY <1>1, <1>6, <2>1 DEF Rising
  <2>2. CASE i \in 1..Len(s) /\ j > Len(s)
    <3>1. t[i] \in LinesIn(s)
      BY <1>1, <2>2, SeqIs
    <3>2. t[j] \in LinesIn(r)
      BY <1>1, <1>2, <2>2, SeqIs
    <3> QED BY <1>6, <3>1, <3>2 DEF Below
  <2>3. CASE i > Len(s) /\ j > Len(s)
    <3>1. /\ i - Len(s) \in 1..Len(r) /\ t[i] = r[i - Len(s)]
          /\ j - Len(s) \in 1..Len(r) /\ t[j] = r[j - Len(s)]
          /\ i - Len(s) < j - Len(s)
      BY <1>1, <1>2, <2>3
    <3> QED BY <1>6, <3>1 DEF Rising
  <2> QED BY <1>1, <1>2, <2>1, <2>2, <2>3
<1> QED BY <1>1, <1>5, <1>6 DEF t

\* A sequence cut in two.
LEMMA CutLines ==
  ASSUME NEW s \in Seq(Message), NEW n \in 0..Len(s)
  PROVE  LET a == SubSeq(s, 1, n)  b == SubSeq(s, n + 1, Len(s)) IN
         /\ a \in Seq(Message) /\ b \in Seq(Message)
         /\ Len(a) = n /\ Len(b) = Len(s) - n
         /\ \A i \in 1..n : a[i] = s[i]
         /\ \A i \in 1..Len(b) : b[i] = s[n + i]
         /\ LinesIn(s) = LinesIn(a) \cup LinesIn(b)
         /\ Rising(s) => Rising(a) /\ Rising(b) /\ Below(LinesIn(a), LinesIn(b))
<1> DEFINE a == SubSeq(s, 1, n)
           b == SubSeq(s, n + 1, Len(s))
<1>1. /\ a \in Seq(Message) /\ b \in Seq(Message) /\ Len(s) \in Nat /\ n \in Nat
      /\ Len(a) = n /\ Len(b) = Len(s) - n
      /\ \A i \in 1..n : a[i] = s[i]
      /\ \A i \in 1..Len(b) : b[i] = s[n + i]
  OBVIOUS
<1> HIDE DEF a, b
<1>2. /\ \A i \in 1..n : i \in 1..Len(s)
      /\ \A i \in 1..Len(b) : n + i \in 1..Len(s)
      /\ \A i \in 1..Len(s) : i \in 1..n \/ (i - n \in 1..Len(b) /\ b[i - n] = s[i])
  BY <1>1
<1>3. LinesIn(s) = LinesIn(a) \cup LinesIn(b)
  <2>1. ASSUME NEW m \in LinesIn(s) PROVE m \in LinesIn(a) \cup LinesIn(b)
    BY <1>1, <1>2 DEF LinesIn
  <2>2. ASSUME NEW m \in LinesIn(a) PROVE m \in LinesIn(s)
    BY <1>1, <1>2 DEF LinesIn
  <2>3. ASSUME NEW m \in LinesIn(b) PROVE m \in LinesIn(s)
    BY <1>1, <1>2 DEF LinesIn
  <2> QED BY <2>1, <2>2, <2>3
<1>4. ASSUME Rising(s)  PROVE Rising(a) /\ Rising(b) /\ Below(LinesIn(a), LinesIn(b))
  <2>1. Rising(a)
    BY <1>1, <1>2, <1>4 DEF Rising
  <2>2. ASSUME NEW i \in 1..Len(b), NEW j \in 1..Len(b), i < j,
               b[i] # Goodbye, b[j] # Goodbye
        PROVE  b[i] < b[j]
    <3>1. n + i \in 1..Len(s) /\ n + j \in 1..Len(s) /\ n + i < n + j
      BY <1>1, <1>2, <2>2
    <3>2. b[i] = s[n + i] /\ b[j] = s[n + j]
      BY <1>1
    <3> QED BY <1>4, <2>2, <3>1, <3>2 DEF Rising
  <2>3. ASSUME NEW l \in LinesIn(a), NEW m \in LinesIn(b)  PROVE l < m
    <3>1. PICK i \in 1..n : a[i] = l /\ l # Goodbye
      BY <1>1, SeqIs
    <3>2. PICK j \in 1..Len(b) : b[j] = m /\ m # Goodbye
      BY <1>1, SeqIs
    <3>3. i \in 1..Len(s) /\ n + j \in 1..Len(s) /\ i < n + j
      BY <1>1, <1>2
    <3>4. s[i] = l /\ s[n + j] = m
      BY <1>1, <3>1, <3>2
    <3> QED BY <1>4, <3>1, <3>2, <3>3, <3>4 DEF Rising
  <2>4. Rising(b)
    BY <2>2 DEF Rising
  <2> QED BY <2>1, <2>3, <2>4 DEF Below
<1> QED BY <1>1, <1>3, <1>4 DEF a, b

\* The first message and the others.
LEMMA TailLines ==
  ASSUME NEW s \in Seq(Message), s # <<>>
  PROVE  /\ Tail(s) \in Seq(Message) /\ Head(s) \in Message /\ Len(Tail(s)) = Len(s) - 1
         /\ LinesIn(<<Head(s)>>) = IF Head(s) = Goodbye THEN {} ELSE {Head(s)}
         /\ LinesIn(s) = LinesIn(<<Head(s)>>) \cup LinesIn(Tail(s))
         /\ Rising(s) => Rising(Tail(s)) /\ Below(LinesIn(<<Head(s)>>), LinesIn(Tail(s)))
<1> DEFINE a == SubSeq(s, 1, 1)
           b == SubSeq(s, 1 + 1, Len(s))
<1>1. /\ 1 \in 0..Len(s) /\ Head(s) \in Message
      /\ Tail(s) \in Seq(Message) /\ Len(Tail(s)) = Len(s) - 1
  OBVIOUS
<1>2. /\ a \in Seq(Message) /\ LinesIn(s) = LinesIn(a) \cup LinesIn(b)
      /\ Len(a) = 1 /\ a[1] = s[1]
      /\ Rising(s) => Rising(b) /\ Below(LinesIn(a), LinesIn(b))
  BY <1>1, CutLines
<1>3. b = Tail(s)
  OBVIOUS
<1> HIDE DEF a, b
<1>4. a = <<Head(s)>>
  BY <1>2
<1>5. LinesIn(a) = IF Head(s) = Goodbye THEN {} ELSE {Head(s)}
  <2>1. LinesIn(a) = {a[i] : i \in {j \in 1..Len(a) : a[j] # Goodbye}}
    BY <1>2, SeqIs
  <2>2. a[1] = Head(s) /\ \A j : j \in 1..Len(a) <=> j = 1
    BY <1>2
  <2> QED BY <2>1, <2>2
<1> QED BY <1>1, <1>2, <1>3, <1>4, <1>5

-----------------------------------------------------------------------------
(* What has entered the relay, and frames *)

LEMMA EnteredIs ==
  /\ Entered = {n \in 1..fed : n \notin lost \cup LinesIn(relayQ) \cup SentLines}
  /\ Entered' = {n \in 1..fed' : n \notin lost' \cup LinesIn(relayQ') \cup SentLines'}
BY DEF Entered, SentLines

LEMMA TypesAre ==
  ASSUME TypeOK
  PROVE  /\ fed \in Nat /\ 1..fed \subseteq Nat
         /\ relayQ \in Seq(Message) /\ recent \in Seq(Message)
         /\ LinesIn(relayQ) \subseteq Line /\ LinesIn(recent) \subseteq Line
         /\ SentLines \subseteq Line /\ lost \subseteq Nat /\ Entered \subseteq Nat
         /\ \A p \in Pusher : push[p].msgs \in Seq(Message)
         /\ \A c \in Client : /\ shown[c] \in Seq(Message) /\ poll[c].msgs \in Seq(Message)
                              /\ vq[c] \in Seq(Message)
                              /\ \A p \in Pusher : push[p].todo[c] \in Seq(Message)
<1>1. \A s \in Seq(Line) : s \in Seq(Message)
  BY DEF Message
<1>2. fed \in Nat /\ relayQ \in Seq(Line) /\ recent \in Seq(Line) /\ lost \subseteq Line
  BY BoundsAssumption DEF TypeOK
<1>3. /\ \A p \in Pusher : push[p].msgs \in Seq(Message)
      /\ \A p \in Pusher : \A c \in Client : push[p].todo[c] \in Seq(Message)
  BY DEF TypeOK
<1>4. \A c \in Client : shown[c] \in Seq(Line) /\ poll[c].msgs \in Seq(Message) /\ vq[c] \in Seq(Message)
  BY DEF TypeOK
<1>5. \A s : LinesIn(s) \subseteq Line
  BY DEF LinesIn
<1>6. SentLines \subseteq Line
  BY <1>5 DEF SentLines
<1>7. 1..fed \subseteq Nat /\ Entered \subseteq Nat /\ Line \subseteq Nat
  BY <1>2, MessageIs DEF Entered
<1> QED BY <1>1, <1>2, <1>3, <1>4, <1>5, <1>6, <1>7

\* What is at the relay's door does not change: neither does what has entered.
LEMMA SourceSame ==
  ASSUME HostSide, UNCHANGED <<fed, relayQ, lost>>, SentLines' = SentLines,
         push'["worker"].at = "none" \/ push'["late"].at = "none",
         \A p \in Pusher : Rising(push'[p].msgs)
  PROVE  HostSide' /\ Entered' = Entered
<1>1. Entered' = Entered
  BY EnteredIs
<1> QED BY <1>1 DEF HostSide

LEMMA RecentSame ==
  ASSUME Backlog, UNCHANGED recent, Entered' = Entered
  PROVE  Backlog'
BY DEF Backlog

\* Nothing on its way to viewer c changes.
LEMMA FollowsSame ==
  ASSUME NEW c \in Client, Follows(c), Entered \subseteq Entered',
         shown'[c] = shown[c], poll'[c].msgs = poll[c].msgs, vq'[c] = vq[c],
         Todo(c)' = Todo(c), \A p \in Pusher : Rising(push'[p].todo[c])
  PROVE  Follows(c)'
BY DEF Follows

LEMMA TodoSame ==
  ASSUME NEW c \in Client, \A p \in Pusher : push'[p].todo[c] = push[p].todo[c]
  PROVE  /\ Todo(c)' = Todo(c)
         /\ Follows(c) => \A p \in Pusher : Rising(push'[p].todo[c])
BY DEF Todo, Follows

\* What Gapless says of viewer c and line n.
Reached(c, n) == n \in LinesIn(shown[c]) \cup LinesIn(vq[c]) \cup LinesIn(poll[c].msgs)
                       \cup missed[c] \cup Todo(c)
LEMMA GaplessIs ==
  /\ Gapless <=> \A c \in viewers \ forgotten : \A n \in Entered :
                   ~overlap /\ n >= since[c] => Reached(c, n)
  /\ Gapless' <=> \A c \in viewers' \ forgotten' : \A n \in Entered' :
                   ~overlap' /\ n >= since'[c] => Reached(c, n)'
BY DEF Gapless, Reached, Todo

-----------------------------------------------------------------------------
(* The host *)

LEMMA FeedLineKeeps == IInv /\ FeedLine => IInv'
<1> SUFFICES ASSUME IInv, FeedLine PROVE IInv'
  OBVIOUS
<1>1. /\ fed' = fed + 1 /\ fed < MaxLine /\ fed \in Nat
      /\ UNCHANGED <<hosting, push, live, recent, viewers, others, vq, pc, poll, stray>>
      /\ UNCHANGED <<shown, since, missed, overlap, forgotten, faults>>
      /\ TypeOK /\ Pushes /\ Requests /\ Ordered /\ Gapless
  BY TypesAre DEF FeedLine, tunnel, clientVars, IInv
<1>2. \/ Len(relayQ) < QueueMax /\ relayQ' = Append(relayQ, fed + 1) /\ lost' = lost
      \/ lost' = lost \cup {fed + 1} /\ relayQ' = relayQ
  BY <1>1 DEF FeedLine
<1>3. fed + 1 \in Line /\ fed + 1 # Goodbye
  BY <1>1, BoundsAssumption DEF Line, Goodbye
<1>4. SentLines' = SentLines
  BY <1>1 DEF SentLines
<1>5. /\ relayQ' \in Seq(Line) /\ lost' \subseteq Line /\ Len(relayQ') <= QueueMax
      /\ LinesIn(relayQ') \cup lost' = LinesIn(relayQ) \cup lost \cup {fed + 1}
      /\ LinesIn(relayQ) \subseteq LinesIn(relayQ')
      /\ LinesIn(relayQ') \subseteq LinesIn(relayQ) \cup {fed + 1}
      /\ lost' \subseteq lost \cup {fed + 1}
      /\ lost' = lost \/ relayQ' = relayQ
  <2>1. relayQ \in Seq(Line) /\ lost \subseteq Line /\ Len(relayQ) <= QueueMax
        /\ Len(relayQ) \in Nat
    BY <1>1 DEF TypeOK
  <2>2. CASE /\ Len(relayQ) < QueueMax /\ relayQ' = Append(relayQ, fed + 1) /\ lost' = lost
    <3>1. LinesIn(relayQ') = LinesIn(relayQ) \cup {fed + 1}
      BY <1>1, <1>3, <2>2, AppendLines, TypesAre DEF Message
    <3>2. relayQ' \in Seq(Line) /\ Len(relayQ') = Len(relayQ) + 1
      BY <1>3, <2>1, <2>2
    <3>3. Len(relayQ') <= QueueMax
      BY <2>1, <2>2, <3>2, BoundsAssumption
    <3> QED BY <2>1, <2>2, <3>1, <3>2, <3>3
  <2>3. CASE lost' = lost \cup {fed + 1} /\ relayQ' = relayQ
    BY <1>3, <2>1, <2>3
  <2> QED BY <1>2, <2>2, <2>3
<1>6. TypeOK'
  <2>1. fed' \in 0..MaxLine
    BY <1>1, BoundsAssumption
  <2> QED BY <1>1, <1>5, <2>1 DEF TypeOK
<1>7. Pushes' /\ Requests'
  BY <1>1 DEF Pushes, Requests
<1>8. ASSUME ~overlap  PROVE Entered' = Entered
  <2>1. fed + 1 \notin 1..fed /\ 1..fed' = 1..fed \cup {fed + 1}
    BY <1>1
  <2> QED BY <1>4, <1>5, <2>1, EnteredIs
<1>9. ASSUME ~overlap  PROVE HostSide' /\ Backlog' /\ \A c \in Client \ forgotten : Follows(c)'
  <2>1. HostSide /\ Backlog /\ \A c \in Client \ forgotten : Follows(c)
    BY <1>1, <1>9 DEF Ordered
  <2>2. /\ 1..fed \subseteq 1..fed' /\ fed + 1 \in 1..fed' /\ fed + 1 \notin 1..fed
        /\ \A n \in 1..fed : n < fed + 1
    BY <1>1
  <2>3. Rising(relayQ')
    <3>1. Below(LinesIn(relayQ), {fed + 1})
      BY <2>1, <2>2 DEF HostSide, Below
    <3>2. Rising(relayQ) /\ relayQ \in Seq(Message) /\ fed + 1 \in Message
      BY <1>1, <1>3, <2>1, TypesAre DEF HostSide, Message
    <3>3. Rising(Append(relayQ, fed + 1))
      BY <3>1, <3>2, AppendLines
    <3> QED BY <1>2, <3>2, <3>3
  <2>4. Below(SentLines, LinesIn(relayQ')) /\ Below(Entered, LinesIn(relayQ'))
    <3>1. SentLines \subseteq 1..fed /\ Entered \subseteq 1..fed
      BY <2>1 DEF HostSide, Entered
    <3> QED BY <1>5, <2>1, <2>2, <3>1 DEF HostSide, Below
  <2>5. lost' \cap (SentLines \cup LinesIn(relayQ')) = {}
    BY <1>2, <1>5, <2>1, <2>2 DEF HostSide
  <2>6. HostSide'
    BY <1>1, <1>4, <1>5, <1>8, <1>9, <2>1, <2>2, <2>3, <2>4, <2>5 DEF HostSide
  <2>7. Backlog'
    BY <1>1, <1>8, <1>9, <2>1, RecentSame
  <2>8. \A c \in Client \ forgotten : Follows(c)'
    BY <1>1, <1>8, <1>9, <2>1, TodoSame, FollowsSame
  <2> QED BY <2>6, <2>7, <2>8
<1>10. Gapless'
  <2> SUFFICES ASSUME NEW c \in viewers \ forgotten, NEW n \in Entered, ~overlap,
                      n >= since[c], Entered' = Entered
               PROVE  Reached(c, n)'
    BY <1>1, <1>8, GaplessIs
  <2>1. Reached(c, n)
    BY <1>1, GaplessIs
  <2> QED BY <1>1, <2>1 DEF Reached, Todo
<1> QED BY <1>1, <1>6, <1>7, <1>9, <1>10 DEF IInv, Ordered

\* The pushes of lines are the worker's, and the one it gave up.
LEMMA SentIs ==
  /\ Pushes => \A n : n \in SentLines <=>
                 \E p \in {"worker", "late"} : push[p].at = "sent" /\ n \in LinesIn(push[p].msgs)
  /\ Pushes' => \A n : n \in SentLines' <=>
                 \E p \in {"worker", "late"} : push'[p].at = "sent" /\ n \in LinesIn(push'[p].msgs)
BY NoLines DEF SentLines, Pushes, PushOK, Pusher
LEMMA TodoIs ==
  ASSUME NEW c \in Client
  PROVE  /\ Pushes => \A n : n \in Todo(c) <=>
                        \E p \in {"worker", "late"} : n \in LinesIn(push[p].todo[c])
         /\ Pushes' => \A n : n \in Todo(c)' <=>
                        \E p \in {"worker", "late"} : n \in LinesIn(push'[p].todo[c])
BY SMTT(30), NoLines DEF Todo, Pushes, PushOK, Pusher

NoTodo == [c \in Client |-> <<>>]
PushType == [at : {"none", "sent", "put"}, msgs : Seq(Message), todo : [Client -> Seq(Message)]]
LEMMA NoPushIs ==
  /\ NoPush \in PushType /\ NoTodo \in [Client -> Seq(Message)]
  /\ NoPush.at = "none" /\ NoPush.msgs = <<>> /\ NoPush.todo = NoTodo
  /\ \A c \in Client : NoPush.todo[c] = <<>>
  /\ Len(NoPush.msgs) = 0
BY DEF NoPush, PushType, NoTodo

\* A push that is posted.
LEMMA PostedIs ==
  ASSUME TypeOK, NEW p \in Pusher, NEW m \in Seq(Message), Posted(p, m), Len(m) <= BatchMax
  PROVE  /\ push' \in [Pusher -> PushType]
         /\ push'[p] = [at |-> "sent", msgs |-> m, todo |-> NoTodo]
         /\ \A q \in Pusher \ {p} : push'[q] = push[q]
         /\ \A q \in Pusher : Len(push'[q].msgs) <= BatchMax
<1>1. push \in [Pusher -> PushType] /\ \A q \in Pusher : Len(push[q].msgs) <= BatchMax
  BY DEF TypeOK, PushType
<1>2. NoPush.todo = NoTodo
  BY NoPushIs
<1>3. [at |-> "sent", msgs |-> m, todo |-> NoTodo] \in PushType
  BY NoPushIs DEF PushType
<1> QED BY <1>1, <1>2, <1>3 DEF Posted

LEMMA WorkerPostsKeeps == IInv /\ WorkerPosts => IInv'
<1> SUFFICES ASSUME IInv, WorkerPosts PROVE IInv'
  OBVIOUS
<1> DEFINE n == Shorter(BatchMax, relayQ)
           a == SubSeq(relayQ, 1, n)
           b == SubSeq(relayQ, n + 1, Len(relayQ))
<1>1. /\ push["worker"].at = "none" /\ Posted("worker", a) /\ relayQ' = b
      /\ overlap' = (overlap \/ push["late"].at # "none")
      /\ UNCHANGED <<fed, hosting, live, recent, viewers, others, vq, pc, poll, stray>>
      /\ UNCHANGED <<shown, since, lost, missed, forgotten, faults>>
      /\ TypeOK /\ Pushes /\ Requests /\ Ordered /\ Gapless
  BY DEF WorkerPosts, tunnel, clientVars, IInv
<1>2. /\ relayQ \in Seq(Line) /\ relayQ \in Seq(Message) /\ Len(relayQ) \in Nat
      /\ Len(relayQ) <= QueueMax /\ n \in 0..Len(relayQ) /\ n <= BatchMax
      /\ BatchMax \in Nat
  <2>1. relayQ \in Seq(Line) /\ relayQ \in Seq(Message) /\ Len(relayQ) <= QueueMax
    BY <1>1, TypesAre DEF TypeOK
  <2>2. Len(relayQ) \in Nat /\ BatchMax \in Nat
    BY <2>1, BoundsAssumption
  <2> QED BY <2>1, <2>2 DEF Shorter
<1>3. a \in Seq(Line) /\ b \in Seq(Line) /\ Len(a) = n /\ Len(b) <= Len(relayQ)
  BY <1>2
<1>4. /\ a \in Seq(Message) /\ b \in Seq(Message)
      /\ LinesIn(relayQ) = LinesIn(a) \cup LinesIn(b)
      /\ Rising(relayQ) => Rising(a) /\ Rising(b) /\ Below(LinesIn(a), LinesIn(b))
  BY <1>2, CutLines
<1> HIDE DEF a, b
<1>5. /\ push' \in [Pusher -> PushType]
      /\ push'["worker"] = [at |-> "sent", msgs |-> a, todo |-> NoTodo]
      /\ \A q \in Pusher \ {"worker"} : push'[q] = push[q]
      /\ \A q \in Pusher : Len(push'[q].msgs) <= BatchMax
  BY <1>1, <1>2, <1>3, <1>4, PostedIs DEF Pusher
<1>6. TypeOK'
  <2>1. relayQ' \in Seq(Line) /\ Len(relayQ') <= QueueMax /\ overlap' \in BOOLEAN
    <3>1. Len(b) \in Nat /\ QueueMax \in Nat
      BY <1>3, BoundsAssumption
    <3>2. relayQ' \in Seq(Line) /\ Len(relayQ') <= QueueMax
      BY <1>1, <1>2, <1>3, <3>1
    <3>3. overlap' \in BOOLEAN
      BY <1>1, Zenon
    <3> QED BY <3>2, <3>3
  <2> QED BY <1>1, <1>5, <2>1 DEF TypeOK, PushType
<1>7. Pushes'
  <2>1. /\ push'["worker"].msgs \in Seq(Line) /\ push'["worker"].at = "sent"
        /\ \A c \in Client : push'["worker"].todo[c] = <<>>
    BY <1>3, <1>5 DEF NoTodo
  <2>2. <<>> \in Seq(Line)
    OBVIOUS
  <2>3. PushOK("worker", push'["worker"], viewers)
    BY <2>1, <2>2 DEF PushOK
  <2> QED BY <1>1, <1>5, <2>3 DEF Pushes
<1>8. Requests'
  BY <1>1 DEF Requests
<1>9. \A c \in Client : \A q \in Pusher : push'[q].todo[c] = push[q].todo[c]
  BY <1>1, <1>5 DEF Pushes, PushOK, NoTodo, Pusher
<1>10. ASSUME ~overlap'
       PROVE  /\ ~overlap /\ push["late"].at = "none"
              /\ SentLines = {} /\ SentLines' = LinesIn(a) /\ Entered' = Entered
  <2>1. ~overlap /\ push["late"].at = "none"
    BY <1>1, <1>10
  <2>2. SentLines = {}
    BY <1>1, <2>1, SentIs
  <2>3. SentLines' = LinesIn(a)
    <3>1. push'["late"].at = "none" /\ push'["worker"].at = "sent" /\ push'["worker"].msgs = a
      BY <1>5, <2>1 DEF Pusher
    <3> QED BY <1>7, <3>1, SentIs
  <2>4. Entered' = Entered
    BY <1>1, <1>4, <2>2, <2>3, EnteredIs
  <2> QED BY <2>1, <2>2, <2>3, <2>4
<1>11. ASSUME ~overlap'
       PROVE  HostSide' /\ Backlog' /\ \A c \in Client \ forgotten : Follows(c)'
  <2>1. HostSide /\ Backlog /\ \A c \in Client \ forgotten : Follows(c)
    BY <1>1, <1>10, <1>11 DEF Ordered
  <2>2. Rising(a) /\ Rising(b) /\ Below(LinesIn(a), LinesIn(b))
    BY <1>4, <2>1 DEF HostSide
  <2>3. \A q \in Pusher : Rising(push'[q].msgs)
    BY <1>5, <2>1, <2>2 DEF HostSide
  <2>4. Below(Entered, LinesIn(a)) /\ Below(Entered, LinesIn(b))
        /\ LinesIn(a) \subseteq 1..fed /\ LinesIn(b) \subseteq 1..fed
        /\ lost \cap (LinesIn(a) \cup LinesIn(b)) = {}
    BY <1>4, <2>1 DEF HostSide, Below
  <2>5. push'["late"].at = "none"
    BY <1>5, <1>10, <1>11 DEF Pusher
  <2>6. HostSide'
    BY <1>1, <1>10, <1>11, <2>1, <2>2, <2>3, <2>4, <2>5 DEF HostSide
  <2>7. Backlog'
    BY <1>1, <1>10, <1>11, <2>1, RecentSame
  <2>8. \A c \in Client \ forgotten : Follows(c)'
    BY <1>1, <1>9, <1>10, <1>11, <2>1, TodoSame, FollowsSame
  <2> QED BY <2>6, <2>7, <2>8
<1>12. Gapless'
  <2> SUFFICES ASSUME NEW c \in viewers \ forgotten, NEW m \in Entered, ~overlap',
                      m >= since[c], Entered' = Entered
               PROVE  Reached(c, m)'
    BY <1>1, <1>10, GaplessIs
  <2>1. Reached(c, m) /\ Todo(c)' = Todo(c)
    BY <1>1, <1>9, <1>10, GaplessIs, TodoSame DEF TypeOK
  <2> QED BY <1>1, <2>1 DEF Reached
<1> QED BY <1>1, <1>6, <1>7, <1>8, <1>11, <1>12 DEF IInv, Ordered

\* Steps that move nothing past the relay's door and nothing on a viewer's way.
LEMMA QuietSteps ==
  ASSUME IInv, UNCHANGED <<fed, relayQ, lost, recent, viewers, shown, since, missed, forgotten>>,
         UNCHANGED <<overlap, poll, vq>>,
         \A n : n \in SentLines' <=> n \in SentLines,
         \A c \in Client : \A n : n \in Todo(c)' <=> n \in Todo(c),
         ~overlap => \A q \in Pusher : Rising(push'[q].msgs),
         ~overlap => \A q \in Pusher : \A c \in Client \ forgotten : Rising(push'[q].todo[c]),
         ~overlap => push'["worker"].at = "none" \/ push'["late"].at = "none"
  PROVE  Ordered' /\ Gapless'
<1>1. SentLines' = SentLines /\ \A c \in Client : Todo(c)' = Todo(c)
  OBVIOUS
<1>2. ASSUME ~overlap
      PROVE  HostSide' /\ Entered' = Entered /\ Backlog' /\ \A c \in Client \ forgotten : Follows(c)'
  <2>1. HostSide /\ Backlog /\ \A c \in Client \ forgotten : Follows(c)
    BY <1>2 DEF IInv, Ordered
  <2>2. \A q \in Pusher : Rising(push'[q].msgs)
    BY <1>2
  <2>3. HostSide' /\ Entered' = Entered
    BY <1>1, <1>2, <2>1, <2>2, SourceSame
  <2>4. Backlog'
    BY <2>1, <2>3, RecentSame
  <2> QED BY <1>1, <1>2, <2>1, <2>3, <2>4, FollowsSame
<1>3. Ordered'
  BY <1>2 DEF Ordered
<1>4. Gapless'
  <2> SUFFICES ASSUME NEW c \in viewers \ forgotten, NEW m \in Entered, ~overlap,
                      m >= since[c], Entered' = Entered
               PROVE  Reached(c, m)'
    BY <1>2, GaplessIs
  <2>1. c \in Client /\ Reached(c, m)
    BY GaplessIs DEF IInv, TypeOK
  <2> QED BY <1>1, <2>1 DEF Reached
<1> QED BY <1>3, <1>4

\* What Ordered says of the pushes.
LEMMA RisingPush ==
  ASSUME IInv, ~overlap
  PROVE  /\ \A p \in Pusher : Rising(push[p].msgs)
         /\ \A p \in Pusher : \A c \in Client \ forgotten : Rising(push[p].todo[c])
         /\ push["worker"].at = "none" \/ push["late"].at = "none"
BY DEF IInv, Ordered, HostSide, Follows

LEMMA WorkerGivesUpKeeps == IInv /\ WorkerGivesUp => IInv'
<1> SUFFICES ASSUME IInv, WorkerGivesUp PROVE IInv'
  OBVIOUS
<1>1. /\ push' = [push EXCEPT !["late"] = push["worker"], !["worker"] = NoPush]
      /\ push["late"].at = "none"
      /\ UNCHANGED <<fed, hosting, relayQ, live, recent, viewers, others, vq, pc, poll>>
      /\ UNCHANGED <<stray, shown, since, lost, missed, overlap, forgotten>>
      /\ TypeOK /\ Pushes /\ Requests
  BY DEF WorkerGivesUp, hostVars, tunnel, clientVars, known, IInv
<1>2. push \in [Pusher -> PushType] /\ Pusher = {"worker", "late", "stop"}
  BY <1>1 DEF TypeOK, PushType, Pusher
<1>3. /\ push'["late"] = push["worker"] /\ push'["worker"] = NoPush
      /\ push'["stop"] = push["stop"] /\ push' \in [Pusher -> PushType]
  BY <1>1, <1>2, NoPushIs
<1>4. TypeOK'
  <2>1. faults' \in 0..MaxFault
    BY <1>1, BoundsAssumption DEF WorkerGivesUp, Fault, TypeOK
  <2>2. \A p \in Pusher : Len(push'[p].msgs) <= BatchMax
    BY <1>1, <1>2, <1>3, NoPushIs, BoundsAssumption DEF TypeOK
  <2> QED BY <1>1, <1>3, <2>1, <2>2 DEF TypeOK, PushType
<1>5. Pushes'
  <2>1. PushOK("worker", NoPush, viewers)
    <3>1. <<>> \in Seq(Line)
      OBVIOUS
    <3> QED BY <3>1, NoPushIs DEF PushOK
  <2>2. PushOK("late", push["worker"], viewers)
    BY <1>1 DEF Pushes, PushOK, Pusher
  <2> QED BY <1>1, <1>2, <1>3, <2>1, <2>2 DEF Pushes
<1>6. Requests'
  BY <1>1 DEF Requests
<1>7. \A n : n \in SentLines' <=> n \in SentLines
  BY <1>1, <1>3, <1>5, SentIs, NoPushIs
<1>8. \A c \in Client : \A n : n \in Todo(c)' <=> n \in Todo(c)
  <2>1. \A c \in Client : push["late"].todo[c] = <<>> /\ push'["worker"].todo[c] = <<>>
    BY <1>1, <1>3, NoPushIs DEF Pushes, PushOK, Pusher
  <2> QED BY <1>1, <1>3, <1>5, <2>1, TodoIs
<1>9. ~overlap => /\ \A q \in Pusher : Rising(push'[q].msgs)
                  /\ \A q \in Pusher : \A c \in Client \ forgotten : Rising(push'[q].todo[c])
                  /\ push'["worker"].at = "none"
  BY <1>2, <1>3, RisingPush, NoPushIs, NoLines
<1>10. Ordered' /\ Gapless'
  BY <1>1, <1>7, <1>8, <1>9, QuietSteps
<1> QED BY <1>4, <1>5, <1>6, <1>10 DEF IInv

LEMMA StopShareKeeps == IInv /\ StopShare => IInv'
<1> SUFFICES ASSUME IInv, StopShare PROVE IInv'
  OBVIOUS
<1>1. /\ Posted("stop", <<Goodbye>>) /\ hosting' = FALSE
      /\ UNCHANGED <<fed, relayQ, live, recent, viewers, others, vq, pc, poll>>
      /\ UNCHANGED <<stray, shown, since, lost, missed, overlap, forgotten, faults>>
      /\ TypeOK /\ Pushes /\ Requests
  BY DEF StopShare, tunnel, clientVars, history, known, IInv
<1>2. <<Goodbye>> \in Seq(Message) /\ Len(<<Goodbye>>) <= BatchMax
  BY BoundsAssumption DEF Message
<1>3. /\ push' \in [Pusher -> PushType]
      /\ push'["stop"] = [at |-> "sent", msgs |-> <<Goodbye>>, todo |-> NoTodo]
      /\ \A q \in Pusher \ {"stop"} : push'[q] = push[q]
      /\ \A q \in Pusher : Len(push'[q].msgs) <= BatchMax
  BY <1>1, <1>2, PostedIs DEF Pusher
<1>4. TypeOK'
  BY <1>1, <1>3 DEF TypeOK, PushType
<1>5. Pushes'
  <2>1. PushOK("stop", push'["stop"], viewers)
    BY <1>3 DEF PushOK, NoTodo
  <2> QED BY <1>1, <1>3, <2>1 DEF Pushes
<1>6. Requests'
  BY <1>1 DEF Requests
<1>7. push'["worker"] = push["worker"] /\ push'["late"] = push["late"]
  BY <1>3 DEF Pusher
<1>8. \A n : n \in SentLines' <=> n \in SentLines
  BY <1>1, <1>5, <1>7, SentIs
<1>9. \A c \in Client : \A n : n \in Todo(c)' <=> n \in Todo(c)
  BY <1>1, <1>5, <1>7, TodoIs
<1>10. ~overlap => /\ \A q \in Pusher : Rising(push'[q].msgs)
                   /\ \A q \in Pusher : \A c \in Client \ forgotten : Rising(push'[q].todo[c])
                   /\ push'["worker"].at = "none" \/ push'["late"].at = "none"
  <2>1. Rising(push'["stop"].msgs) /\ \A c \in Client : Rising(push'["stop"].todo[c])
    BY <1>3, NoLines DEF NoTodo
  <2> QED BY <1>3, <1>7, <2>1, RisingPush
<1>11. Ordered' /\ Gapless'
  BY <1>1, <1>8, <1>9, <1>10, QuietSteps
<1> QED BY <1>4, <1>5, <1>6, <1>11 DEF IInv

\* A push that fails takes its lines with it: they never enter.
LEMMA PushFailsKeeps == IInv /\ (\E p \in Pusher : PushFails(p)) => IInv'
<1> SUFFICES ASSUME IInv, NEW p \in Pusher, PushFails(p) PROVE IInv'
  OBVIOUS
<1>1. /\ push[p].at = "sent" /\ push' = [push EXCEPT ![p] = NoPush]
      /\ lost' = lost \cup LinesIn(push[p].msgs)
      /\ UNCHANGED <<fed, hosting, relayQ, live, recent, viewers, others, vq, pc, poll>>
      /\ UNCHANGED <<stray, shown, since, missed, overlap, forgotten>>
      /\ TypeOK /\ Pushes /\ Requests /\ Ordered /\ Gapless
  BY DEF PushFails, hostVars, tunnel, clientVars, IInv
<1>2. /\ push' \in [Pusher -> PushType] /\ push'[p] = NoPush
      /\ \A q \in Pusher \ {p} : push'[q] = push[q]
      /\ \A q \in Pusher : Len(push'[q].msgs) <= BatchMax
  <2>1. push \in [Pusher -> PushType] /\ \A q \in Pusher : Len(push[q].msgs) <= BatchMax
    BY <1>1 DEF TypeOK, PushType
  <2> QED BY <1>1, <2>1, NoPushIs, BoundsAssumption
<1>3. TypeOK'
  <2>1. faults' \in 0..MaxFault
    BY <1>1, BoundsAssumption DEF PushFails, Fault, TypeOK
  <2>2. lost' \subseteq Line
    BY <1>1 DEF TypeOK, LinesIn
  <2> QED BY <1>1, <1>2, <2>1, <2>2 DEF TypeOK, PushType
<1>4. Pushes'
  <2>1. PushOK(p, NoPush, viewers)
    <3>1. <<>> \in Seq(Line)
      OBVIOUS
    <3> QED BY <3>1, NoPushIs DEF PushOK
  <2> QED BY <1>1, <1>2, <2>1 DEF Pushes
<1>5. Requests'
  BY <1>1 DEF Requests
<1>6. \A c \in Client : \A q \in Pusher : push'[q].todo[c] = push[q].todo[c]
  BY <1>1, <1>2, NoPushIs DEF Pushes, PushOK
<1>7. SentLines = SentLines' \cup LinesIn(push[p].msgs)
  BY <1>1, <1>2, NoPushIs DEF SentLines
<1>8. Entered' = Entered
  BY <1>1, <1>7, EnteredIs
<1>9. ASSUME ~overlap
      PROVE  HostSide' /\ Backlog' /\ \A c \in Client \ forgotten : Follows(c)'
  <2>1. HostSide /\ Backlog /\ \A c \in Client \ forgotten : Follows(c)
    BY <1>1, <1>9 DEF Ordered
  <2>2. SentLines' \cap LinesIn(push[p].msgs) = {}
    <3>1. CASE p = "stop"
      BY <1>1, <3>1, NoLines DEF Pushes, PushOK
    <3>2. CASE p \in {"worker", "late"}
      <4>1. \A q \in {"worker", "late"} : push'[q].at # "sent"
        BY <1>1, <1>2, <2>1, <3>2, NoPushIs DEF HostSide, Pusher, PushType
      <4> QED BY <1>4, <4>1, SentIs
    <3> QED BY <3>1, <3>2 DEF Pusher
  <2>3. Below(LinesIn(push[p].msgs), LinesIn(relayQ)) /\ LinesIn(relayQ) \subseteq 1..fed
    BY <1>7, <2>1 DEF HostSide, Below
  <2>4. LinesIn(push[p].msgs) \cap LinesIn(relayQ) = {}
    <3>1. 1..fed \subseteq Nat
      BY <1>1, TypesAre
    <3>2. \A n \in LinesIn(relayQ) : ~(n < n)
      BY <2>3, <3>1
    <3> QED BY <2>3, <3>2 DEF Below
  <2>5. lost' \cap (SentLines' \cup LinesIn(relayQ)) = {} /\ lost' \subseteq 1..fed
    BY <1>1, <1>7, <2>1, <2>2, <2>4 DEF HostSide
  <2>6. \A q \in Pusher : Rising(push'[q].msgs)
    BY <1>2, <2>1, NoPushIs, NoLines DEF HostSide
  <2>7. push'["worker"].at = "none" \/ push'["late"].at = "none"
    BY <1>2, <2>1, NoPushIs DEF HostSide, Pusher
  <2>8. HostSide'
    BY <1>1, <1>7, <1>8, <2>1, <2>5, <2>6, <2>7 DEF HostSide, Below
  <2>9. Backlog'
    BY <1>1, <1>8, <2>1, RecentSame
  <2>10. \A c \in Client \ forgotten : Follows(c)'
    BY <1>1, <1>6, <1>8, <2>1, TodoSame, FollowsSame
  <2> QED BY <2>8, <2>9, <2>10
<1>10. Gapless'
  <2> SUFFICES ASSUME NEW c \in viewers \ forgotten, NEW n \in Entered, ~overlap,
                      n >= since[c]
               PROVE  Reached(c, n)'
    BY <1>1, <1>8, GaplessIs
  <2>1. Reached(c, n) /\ Todo(c)' = Todo(c)
    BY <1>1, <1>6, GaplessIs, TodoSame DEF TypeOK
  <2> QED BY <1>1, <2>1 DEF Reached
<1> QED BY <1>1, <1>3, <1>4, <1>5, <1>9, <1>10 DEF IInv, Ordered

-----------------------------------------------------------------------------
(* The relay *)

LEMMA DisplayableIs ==
  ASSUME NEW p \in Pusher, NEW r \in PushType, NEW vs, PushOK(p, r, vs)
  PROVE  Displayable(r.msgs) \in Seq(Line) /\ LinesIn(Displayable(r.msgs)) = LinesIn(r.msgs)
         /\ (Rising(r.msgs) => Rising(Displayable(r.msgs)))
<1>1. <<>> \in Seq(Line)
  OBVIOUS
<1>2. CASE p = "stop"
  BY <1>1, <1>2, NoLines DEF PushOK, Displayable
<1>3. CASE p # "stop"
  <2>1. r.msgs \in Seq(Line)
    BY <1>3 DEF PushOK
  <2>2. r.msgs # <<Goodbye>>
    <3>1. ASSUME r.msgs = <<Goodbye>> PROVE FALSE
      <4>1. r.msgs[1] = Goodbye /\ Len(r.msgs) = 1
        BY <3>1
      <4>2. r.msgs[1] \in Line
        BY <2>1, <4>1
      <4> QED BY <4>1, <4>2, MessageIs DEF Message
    <3> QED BY <3>1
  <2> QED BY <2>1, <2>2 DEF Displayable
<1> QED BY <1>2, <1>3

\* The relay keeps the newest lines: what is older than the first it keeps, and
\* nothing else, is forgotten.
LEMMA NewestIs ==
  ASSUME NEW r \in Seq(Line), NEW m \in Nat \ {0}
  PROVE  /\ Newest(r, m) \in Seq(Line) /\ Len(Newest(r, m)) <= m
         /\ LinesIn(Newest(r, m)) \subseteq LinesIn(r)
         /\ r # <<>> => /\ Newest(r, m) # <<>>
                        /\ Newest(r, m)[1] \in LinesIn(Newest(r, m)) /\ r[1] \in LinesIn(r)
                        /\ Rising(r) => r[1] <= Newest(r, m)[1]
         /\ Rising(r) => /\ Rising(Newest(r, m))
                         /\ \A n \in LinesIn(r) : r # <<>> /\ n >= Newest(r, m)[1]
                                                    => n \in LinesIn(Newest(r, m))
<1> DEFINE k == IF Len(r) > m THEN Len(r) - m ELSE 0
           a == SubSeq(r, 1, k)
           b == SubSeq(r, k + 1, Len(r))
<1>1. /\ Len(r) \in Nat /\ k \in 0..Len(r) /\ r \in Seq(Message)
      /\ \A i \in 1..Len(r) : r[i] \in Line
  BY DEF Message
<1>2. Newest(r, m) = b
  BY <1>1 DEF Newest
<1>3. b \in Seq(Line) /\ Len(b) <= m /\ (r # <<>> => Len(b) > 0)
  <2>1. r # <<>> => Len(r) > 0
    OBVIOUS
  <2>2. b \in Seq(Line) /\ Len(b) = Len(r) - k
    <3> HIDE DEF k
    <3>1. k \in Nat /\ k <= Len(r)
      BY <1>1
    <3> QED BY <1>1, <3>1
  <2>3. Len(r) - k <= m /\ (Len(r) > 0 => Len(r) - k > 0)
    BY <1>1
  <2> QED BY <2>1, <2>2, <2>3
<1>4. /\ Len(b) = Len(r) - k
      /\ \A i \in 1..Len(b) : b[i] = r[k + i]
      /\ LinesIn(r) = LinesIn(a) \cup LinesIn(b)
      /\ Rising(r) => Rising(b) /\ Below(LinesIn(a), LinesIn(b))
  BY <1>1, CutLines
<1>5. k \in Nat
  BY <1>1
<1> HIDE DEF a, b, k
<1>6. \A n \in Line : n \in Nat /\ n # Goodbye
  BY MessageIs DEF Message
<1>7. ASSUME r # <<>>
      PROVE  /\ b # <<>> /\ b[1] \in LinesIn(b) /\ r[1] \in LinesIn(r)
             /\ Rising(r) => r[1] <= b[1]
  <2>1. Len(b) > 0 /\ 1 \in 1..Len(b) /\ 1 \in 1..Len(r) /\ b[1] = r[k + 1] /\ k + 1 \in 1..Len(r)
    BY <1>1, <1>3, <1>4, <1>5, <1>7
  <2>2. b[1] \in LinesIn(b) /\ r[1] \in LinesIn(r)
    BY <1>1, <1>3, <2>1 DEF LinesIn
  <2>3. ASSUME Rising(r)  PROVE r[1] <= b[1]
    <3>1. r[1] \in Nat /\ r[k + 1] \in Nat /\ r[1] # Goodbye /\ r[k + 1] # Goodbye
      BY <1>1, <1>6, <2>1
    <3>2. CASE k = 0
      BY <2>1, <3>1, <3>2
    <3>3. CASE 1 < k + 1
      BY <2>1, <2>3, <3>1, <3>3 DEF Rising
    <3> QED BY <1>5, <3>2, <3>3
  <2> QED BY <2>1, <2>2, <2>3
<1>8. ASSUME Rising(r), NEW n \in LinesIn(r), r # <<>>, n >= b[1]  PROVE n \in LinesIn(b)
  <2>1. ASSUME n \in LinesIn(a) PROVE FALSE
    <3>1. n < b[1]
      BY <1>4, <1>7, <1>8, <2>1 DEF Below
    <3>2. n \in Nat /\ b[1] \in Nat
      BY <1>6, <1>7, <1>8 DEF LinesIn
    <3> QED BY <1>8, <3>1, <3>2
  <2> QED BY <1>4, <1>8, <2>1
<1> QED BY <1>2, <1>3, <1>4, <1>7, <1>8

\* A push enters: its lines come after all that entered before, every viewer that
\* is there gets them, and the next one finds the newest of them.
LEMMA PushEntersKeeps == IInv /\ (\E p \in Pusher : PushEnters(p)) => IInv'
<1> SUFFICES ASSUME IInv, NEW p \in Pusher, PushEnters(p) PROVE IInv'
  OBVIOUS
<1> DEFINE m == push[p].msgs
           d == Displayable(m)
           r == recent \o d
           given == [c \in Client |-> IF c \in viewers THEN m ELSE <<>>]
<1>1. /\ push[p].at = "sent" /\ recent' = Newest(r, RecentMax)
      /\ push' = [push EXCEPT ![p] = [at |-> "put", msgs |-> @.msgs, todo |-> given]]
      /\ UNCHANGED <<fed, hosting, relayQ, live, viewers, others, vq, pc, poll>>
      /\ UNCHANGED <<stray, shown, since, lost, missed, overlap, forgotten, faults>>
      /\ TypeOK /\ Pushes /\ Requests /\ Ordered /\ Gapless
  BY DEF PushEnters, hostVars, clientVars, history, known, IInv
<1>2. /\ push \in [Pusher -> PushType] /\ \A q \in Pusher : Len(push[q].msgs) <= BatchMax
      /\ m \in Seq(Message) /\ recent \in Seq(Line) /\ recent \in Seq(Message)
  BY <1>1, TypesAre DEF TypeOK, PushType
<1>3. d \in Seq(Line) /\ d \in Seq(Message) /\ LinesIn(d) = LinesIn(m) /\ (Rising(m) => Rising(d))
  <2>1. PushOK(p, push[p], viewers) /\ push[p] \in PushType
    BY <1>1, <1>2 DEF Pushes
  <2>2. \A s \in Seq(Line) : s \in Seq(Message)
    BY DEF Message
  <2> HIDE DEF d, m
  <2>3. d \in Seq(Line) /\ LinesIn(d) = LinesIn(m) /\ (Rising(m) => Rising(d))
    BY <2>1, DisplayableIs DEF d, m
  <2> QED BY <2>2, <2>3
<1> HIDE DEF d
<1>4. /\ r \in Seq(Line) /\ LinesIn(r) = LinesIn(recent) \cup LinesIn(m)
      /\ Rising(recent) /\ Rising(d) /\ Below(LinesIn(recent), LinesIn(m)) => Rising(r)
  BY <1>2, <1>3, ConcatLines
<1>5. given \in [Client -> Seq(Message)]
  <2>1. <<>> \in Seq(Message)
    OBVIOUS
  <2> QED BY <1>2, <2>1
<1>6. /\ push' \in [Pusher -> PushType]
      /\ push'[p] = [at |-> "put", msgs |-> m, todo |-> given]
      /\ \A q \in Pusher \ {p} : push'[q] = push[q]
      /\ \A q \in Pusher : push'[q].msgs = push[q].msgs
  <2> HIDE DEF given
  <2>1. [at |-> "put", msgs |-> m, todo |-> given] \in PushType
    BY <1>2, <1>5 DEF PushType
  <2> QED BY <1>1, <1>2, <2>1
<1> HIDE DEF r, m
<1>7. TypeOK'
  <2>1. recent' \in Seq(Line) /\ Len(recent') <= RecentMax
    BY <1>1, <1>4, NewestIs, BoundsAssumption
  <2>2. \A q \in Pusher : Len(push'[q].msgs) <= BatchMax
    BY <1>2, <1>6
  <2> QED BY <1>1, <1>6, <2>1, <2>2 DEF TypeOK, PushType
<1>8. Pushes'
  <2>1. PushOK(p, push'[p], viewers)
    <3>1. <<>> \in Seq(Line)
      OBVIOUS
    <3>2. PushOK(p, push[p], viewers)
      BY <1>1 DEF Pushes
    <3>3. /\ push'[p].at = "put" /\ push'[p].msgs = m
          /\ \A c \in Client : push'[p].todo[c] = IF c \in viewers THEN m ELSE <<>>
      BY <1>6
    <3> QED BY <3>1, <3>2, <3>3 DEF PushOK, m
  <2> QED BY <1>1, <1>6, <2>1 DEF Pushes
<1>9. Requests'
  BY <1>1 DEF Requests
<1>10. \A c \in Client : /\ c \in viewers => Todo(c)' = Todo(c) \cup LinesIn(m)
                         /\ c \notin viewers => Todo(c)' = Todo(c)
  <2> TAKE c \in Client
  <2>1. push[p].todo[c] = <<>>
    BY <1>1 DEF Pushes, PushOK
  <2>2. push'[p].todo[c] = IF c \in viewers THEN m ELSE <<>>
    BY <1>6
  <2>3. \A q \in Pusher \ {p} : push'[q].todo[c] = push[q].todo[c]
    BY <1>6
  <2> QED BY <2>1, <2>2, <2>3, NoLines DEF Todo
<1>11. SentLines = SentLines' \cup LinesIn(m)
  BY <1>1, <1>6 DEF SentLines, m
<1>12. ASSUME ~overlap
       PROVE  /\ SentLines' \cap LinesIn(m) = {}
              /\ SentLines' = {} \/ LinesIn(m) = {}
  <2>1. HostSide
    BY <1>1, <1>12 DEF Ordered
  <2>2. CASE p = "stop"
    BY <1>1, <2>2, NoLines DEF Pushes, PushOK, m
  <2>3. CASE p \in {"worker", "late"}
    <3>1. \A q \in {"worker", "late"} : push'[q].at # "sent"
      BY <1>1, <1>6, <2>1, <2>3 DEF HostSide, Pusher
    <3> QED BY <1>8, <3>1, SentIs
  <2> QED BY <2>2, <2>3 DEF Pusher
<1>13. ASSUME ~overlap  PROVE Entered' = Entered \cup LinesIn(m)
  <2>1. HostSide
    BY <1>1, <1>13 DEF Ordered
  <2>2. LinesIn(m) \subseteq 1..fed /\ LinesIn(m) \cap lost = {}
    BY <1>11, <2>1 DEF HostSide
  <2>3. LinesIn(m) \cap LinesIn(relayQ) = {}
    <3>1. \A n \in 1..fed : ~(n < n)
      BY <1>1, TypesAre
    <3>2. Below(LinesIn(m), LinesIn(relayQ))
      BY <1>11, <2>1 DEF HostSide, Below
    <3> QED BY <2>2, <3>1, <3>2 DEF Below
  <2> QED BY <1>1, <1>11, <1>12, <1>13, <2>2, <2>3, EnteredIs
<1>14. ASSUME ~overlap  PROVE HostSide'
  <2>1. HostSide
    BY <1>1, <1>14 DEF Ordered
  <2>2. Below(Entered', SentLines') /\ Below(Entered', LinesIn(relayQ))
    BY <1>11, <1>12, <1>13, <1>14, <2>1 DEF HostSide, Below
  <2>3. push'["worker"].at = "none" \/ push'["late"].at = "none"
    BY <1>1, <1>6, <2>1 DEF HostSide, Pusher
  <2>4. /\ SentLines' \subseteq 1..fed /\ Below(SentLines', LinesIn(relayQ))
        /\ lost \cap (SentLines' \cup LinesIn(relayQ)) = {}
    BY <1>11, <2>1 DEF HostSide, Below
  <2> QED BY <1>1, <1>6, <2>1, <2>2, <2>3, <2>4 DEF HostSide
<1>15. ASSUME ~overlap  PROVE Backlog'
  <2>1. HostSide /\ Backlog
    BY <1>1, <1>15 DEF Ordered
  <2>2. Rising(r)
    BY <1>3, <1>4, <1>11, <2>1 DEF HostSide, Backlog, Below, m
  <2>3. /\ Rising(recent') /\ LinesIn(recent') \subseteq LinesIn(r)
        /\ r # <<>> => recent' # <<>> /\ recent'[1] \in LinesIn(recent')
                       /\ r[1] \in LinesIn(r) /\ r[1] <= recent'[1]
        /\ \A n \in LinesIn(r) : r # <<>> /\ n >= recent'[1] => n \in LinesIn(recent')
    BY <1>1, <1>4, <2>2, NewestIs, BoundsAssumption
  <2>4. LinesIn(recent') \subseteq Entered'
    BY <1>4, <1>13, <1>15, <2>1, <2>3 DEF Backlog
  <2>5. ASSUME NEW n \in Entered'
        PROVE  recent' # <<>> /\ (n >= recent'[1] => n \in LinesIn(recent'))
    <3>1. CASE n \in LinesIn(r)
      <4>1. r # <<>>
        BY <3>1, NoLines
      <4> QED BY <2>3, <3>1, <4>1
    <3>2. CASE n \notin LinesIn(r)
      <4>1. n \in Entered /\ recent # <<>> /\ ~(n >= recent[1])
        BY <1>4, <1>13, <1>15, <2>1, <2>5, <3>2 DEF Backlog
      <4>2. r # <<>> /\ r[1] = recent[1]
        BY <1>2, <1>3, <4>1 DEF r
      <4>3. recent' # <<>> /\ r[1] <= recent'[1] /\ r[1] \in Nat /\ recent'[1] \in Nat /\ n \in Nat
        BY <1>1, <2>3, <4>1, <4>2, TypesAre, MessageIs DEF LinesIn
      <4> QED BY <4>1, <4>2, <4>3
    <3> QED BY <3>1, <3>2
  <2> QED BY <2>3, <2>4, <2>5 DEF Backlog
<1>16. ASSUME ~overlap, NEW c \in Client \ forgotten  PROVE Follows(c)'
  <2>1. HostSide /\ Follows(c)
    BY <1>1, <1>16 DEF Ordered
  <2>2. CASE c \notin viewers
    <3>1. \A q \in Pusher : push'[q].todo[c] = push[q].todo[c]
      BY <1>1, <1>6, <2>2 DEF Pushes, PushOK
    <3> QED BY <1>1, <1>13, <1>16, <2>1, <3>1, TodoSame, FollowsSame
  <2>3. CASE c \in viewers
    <3>1. \A q \in Pusher : Rising(push'[q].todo[c])
      <4>1. push'[p].todo[c] = m /\ Rising(m)
        BY <1>6, <2>1, <2>3 DEF HostSide, m
      <4> QED BY <1>6, <2>1, <4>1 DEF Follows
    <3>2. Todo(c)' = Todo(c) \cup LinesIn(m)
      BY <1>10, <2>3
    <3>3. Below(Entered, LinesIn(m))
      BY <1>11, <2>1 DEF HostSide, Below
    <3> DEFINE had == LinesIn(shown[c]) \cup LinesIn(poll[c].msgs) \cup LinesIn(vq[c])
    <3>4. Below(had, Todo(c)')
      BY <2>1, <3>2, <3>3 DEF Follows, Below
    <3>5. had \cup Todo(c)' \subseteq Entered'
      BY <1>13, <1>16, <2>1, <3>2 DEF Follows
    <3> QED BY <1>1, <2>1, <3>1, <3>4, <3>5 DEF Follows
  <2> QED BY <2>2, <2>3
<1>17. Gapless'
  <2> SUFFICES ASSUME NEW c \in viewers \ forgotten, NEW n \in Entered \cup LinesIn(m),
                      ~overlap, n >= since[c]
               PROVE  Reached(c, n)'
    BY <1>1, <1>13, GaplessIs
  <2>1. c \in Client /\ Todo(c)' = Todo(c) \cup LinesIn(m)
    BY <1>1, <1>10 DEF TypeOK
  <2>2. CASE n \in LinesIn(m)
    BY <2>1, <2>2 DEF Reached
  <2>3. CASE n \in Entered
    <3>1. Reached(c, n)
      BY <1>1, <2>3, GaplessIs
    <3> QED BY <1>1, <2>1, <3>1 DEF Reached
  <2> QED BY <2>2, <2>3
<1> QED BY <1>1, <1>7, <1>8, <1>9, <1>14, <1>15, <1>16, <1>17 DEF IInv, Ordered

\* One message goes into a viewer's queue, or away when that is full.
LEMMA PushPutsKeeps ==
  IInv /\ (\E p \in Pusher : \E c \in Client : PushPuts(p, c)) => IInv'
<1> SUFFICES ASSUME IInv, NEW p \in Pusher, NEW c \in Client, PushPuts(p, c) PROVE IInv'
  OBVIOUS
<1> DEFINE todo == push[p].todo[c]
           h == Head(todo)
           l == LinesIn(<<h>>)
<1>1. /\ push[p].at = "put" /\ todo # <<>>
      /\ push' = [push EXCEPT ![p].todo[c] = Tail(todo)]
      /\ UNCHANGED <<fed, hosting, relayQ, live, recent, viewers, others, pc, poll>>
      /\ UNCHANGED <<stray, shown, since, lost, overlap, forgotten, faults>>
      /\ TypeOK /\ Pushes /\ Requests /\ Ordered /\ Gapless
  BY DEF PushPuts, hostVars, clientVars, IInv
<1>2. \/ /\ Len(vq[c]) < ViewerMax /\ vq' = [vq EXCEPT ![c] = Append(@, h)]
         /\ UNCHANGED missed
      \/ missed' = [missed EXCEPT ![c] = @ \cup l] /\ UNCHANGED vq
  BY DEF PushPuts
<1>3. /\ push \in [Pusher -> PushType] /\ \A q \in Pusher : Len(push[q].msgs) <= BatchMax
      /\ todo \in Seq(Message) /\ vq \in [Client -> Seq(Message)]
      /\ missed \in [Client -> SUBSET Line]
  BY <1>1, TypesAre DEF TypeOK, PushType
<1>4. /\ Tail(todo) \in Seq(Message) /\ h \in Message
      /\ l = IF h = Goodbye THEN {} ELSE {h}
      /\ LinesIn(todo) = l \cup LinesIn(Tail(todo))
      /\ Rising(todo) => Rising(Tail(todo)) /\ Below(l, LinesIn(Tail(todo)))
  BY <1>1, <1>3, TailLines
<1>5. c \in viewers
  BY <1>1 DEF Pushes, PushOK
<1> HIDE DEF todo, h, l
<1>6. /\ push' \in [Pusher -> PushType]
      /\ \A q \in Pusher : push'[q].at = push[q].at /\ push'[q].msgs = push[q].msgs
      /\ \A q \in Pusher : \A k \in Client :
           push'[q].todo[k] = IF q = p /\ k = c THEN Tail(todo) ELSE push[q].todo[k]
  BY <1>1, <1>3, <1>4 DEF PushType
<1>7. /\ vq' \in [Client -> Seq(Message)] /\ missed' \in [Client -> SUBSET Line]
      /\ \A k \in Client \ {c} : vq'[k] = vq[k] /\ missed'[k] = missed[k]
      /\ Len(vq'[c]) <= ViewerMax
      /\ vq'[c] = vq[c] \/ vq'[c] = Append(vq[c], h)
      /\ LinesIn(vq'[c]) \cup missed'[c] = LinesIn(vq[c]) \cup missed[c] \cup l
      /\ LinesIn(vq'[c]) \subseteq LinesIn(vq[c]) \cup l
  <2>1. vq[c] \in Seq(Message) /\ Len(vq[c]) <= ViewerMax /\ Len(vq[c]) \in Nat
        /\ missed[c] \subseteq Line /\ l \subseteq Line
    BY <1>1, <1>3 DEF TypeOK, l, LinesIn
  <2>2. /\ Append(vq[c], h) \in Seq(Message) /\ Len(Append(vq[c], h)) = Len(vq[c]) + 1
        /\ LinesIn(Append(vq[c], h)) = LinesIn(vq[c]) \cup l
    BY <1>4, <2>1, AppendLines
  <2>3. CASE /\ Len(vq[c]) < ViewerMax /\ vq' = [vq EXCEPT ![c] = Append(@, h)]
             /\ UNCHANGED missed
    <3>1. /\ vq'[c] = Append(vq[c], h) /\ vq' \in [Client -> Seq(Message)]
          /\ \A k \in Client \ {c} : vq'[k] = vq[k]
      BY <1>3, <2>2, <2>3
    <3>2. Len(vq'[c]) <= ViewerMax
      BY <2>1, <2>2, <2>3, <3>1, BoundsAssumption
    <3> QED BY <1>3, <2>2, <2>3, <3>1, <3>2
  <2>4. CASE missed' = [missed EXCEPT ![c] = @ \cup l] /\ UNCHANGED vq
    BY <1>3, <2>1, <2>4
  <2> QED BY <1>2, <2>3, <2>4
<1>8. TypeOK'
  <2>1. \A q \in Pusher : Len(push'[q].msgs) <= BatchMax
    BY <1>3, <1>6
  <2>2. \A k \in Client : Len(vq'[k]) <= ViewerMax /\ (k \notin viewers => vq'[k] = <<>>)
    <3> TAKE k \in Client
    <3>1. CASE k = c
      BY <1>5, <1>7, <3>1
    <3>2. CASE k # c
      BY <1>1, <1>7, <3>2 DEF TypeOK
    <3> QED BY <3>1, <3>2
  <2> QED BY <1>1, <1>6, <1>7, <2>1, <2>2 DEF TypeOK, PushType
<1>9. Pushes'
  <2>1. ASSUME NEW q \in Pusher  PROVE PushOK(q, push'[q], viewers)
    <3>1. PushOK(q, push[q], viewers)
      BY <1>1 DEF Pushes
    <3>2. CASE q # p
      BY <1>6, <3>1, <3>2 DEF PushOK
    <3>3. CASE q = p
      <4>1. p # "stop" => Tail(todo) \in Seq(Line)
        <5>1. p # "stop" => todo \in Seq(Line)
          BY <3>1, <3>3 DEF PushOK, todo
        <5> QED BY <1>1, <5>1
      <4>2. p = "stop" => Tail(todo) = <<>>
        <5>1. p = "stop" => todo = <<Goodbye>>
          BY <1>1, <3>1, <3>3 DEF PushOK, todo
        <5>2. Tail(<<Goodbye>>) = <<>>
          OBVIOUS
        <5> QED BY <5>1, <5>2
      <4> QED BY <1>1, <1>5, <1>6, <3>1, <3>3, <4>1, <4>2 DEF PushOK
    <3> QED BY <3>2, <3>3
  <2> QED BY <1>1, <2>1 DEF Pushes
<1>10. Requests'
  BY <1>1 DEF Requests
<1>11. SentLines' = SentLines
  BY <1>6 DEF SentLines
<1>12. /\ Todo(c) = Todo(c)' \cup l
       /\ \A k \in Client \ {c} : /\ \A q \in Pusher : push'[q].todo[k] = push[q].todo[k]
                                  /\ Todo(k)' = Todo(k)
  <2>1. /\ push'[p].todo[c] = Tail(todo) /\ push[p].todo[c] = todo
        /\ \A q \in Pusher \ {p} : push'[q].todo[c] = push[q].todo[c]
    BY <1>6 DEF todo
  <2>2. Todo(c) = Todo(c)' \cup l
    BY <1>4, <2>1 DEF Todo
  <2>3. \A k \in Client \ {c} : \A q \in Pusher : push'[q].todo[k] = push[q].todo[k]
    BY <1>6
  <2> QED BY SMTT(30), <2>2, <2>3 DEF Todo
<1>13. ASSUME ~overlap  PROVE HostSide' /\ Entered' = Entered /\ Backlog'
  <2>1. HostSide /\ Backlog
    BY <1>1, <1>13 DEF Ordered
  <2>2. \A q \in Pusher : Rising(push'[q].msgs)
    BY <1>6, <2>1 DEF HostSide
  <2>3. push'["worker"].at = "none" \/ push'["late"].at = "none"
    BY <1>6, <2>1 DEF HostSide, Pusher
  <2>4. HostSide' /\ Entered' = Entered
    BY <1>1, <1>11, <2>1, <2>2, <2>3, SourceSame
  <2> QED BY <1>1, <2>1, <2>4, RecentSame
<1>14. ASSUME ~overlap, c \notin forgotten  PROVE Follows(c)'
  <2>1. HostSide /\ Follows(c)
    BY <1>1, <1>14 DEF Ordered
  <2>2. Rising(todo) /\ Below(l, LinesIn(Tail(todo)))
    BY <1>4, <2>1 DEF Follows, todo
  <2>3. Below(l, Todo(c)')
    <3>1. CASE p = "stop"
      <4>1. l = {}
        <5>1. todo = <<Goodbye>>
          BY <1>1, <3>1 DEF Pushes, PushOK, todo
        <5> QED BY <1>4, <5>1 DEF h
      <4> QED BY <4>1 DEF Below
    <3>2. CASE p # "stop"
      <4>1. ASSUME NEW q \in Pusher, q # p  PROVE LinesIn(push'[q].todo[c]) = {}
        <5>1. CASE q = "stop"
          BY <1>9, <5>1, NoLines DEF Pushes, PushOK
        <5>2. CASE q # "stop"
          <6>1. push'[q].at = "none"
            BY <1>1, <1>6, <2>1, <3>2, <4>1, <5>2 DEF HostSide, Pusher
          <6>2. push'[q].todo[c] = <<>>
            BY <1>9, <6>1 DEF Pushes, PushOK
          <6> QED BY <6>2, NoLines
        <5> QED BY <5>1, <5>2
      <4>2. push'[p].todo[c] = Tail(todo)
        BY <1>6
      <4>3. Todo(c)' \subseteq LinesIn(Tail(todo))
        BY <4>1, <4>2 DEF Todo
      <4> QED BY <2>2, <4>3 DEF Below
    <3> QED BY <3>1, <3>2
  <2> DEFINE had == LinesIn(shown[c]) \cup LinesIn(poll[c].msgs)
  <2>4. /\ Below(had \cup LinesIn(vq[c]), Todo(c)) /\ Below(had, LinesIn(vq[c]))
        /\ had \cup LinesIn(vq[c]) \cup Todo(c) \subseteq Entered /\ Rising(vq[c])
    BY <2>1 DEF Follows
  <2>5. Rising(vq'[c])
    <3>1. h # Goodbye => Below(LinesIn(vq[c]), {h})
      BY <1>4, <1>12, <2>4 DEF Below
    <3>2. Rising(Append(vq[c], h))
      BY <1>3, <1>4, <2>4, <3>1, AppendLines
    <3> QED BY <1>7, <2>4, <3>2
  <2>6. Below(had, LinesIn(vq'[c]))
    BY <1>7, <1>12, <2>4 DEF Below
  <2>7. Below(had \cup LinesIn(vq'[c]), Todo(c)')
    BY <1>7, <1>12, <2>3, <2>4 DEF Below
  <2>8. had \cup LinesIn(vq'[c]) \cup Todo(c)' \subseteq Entered'
    BY <1>7, <1>12, <1>13, <1>14, <2>4
  <2>9. \A q \in Pusher : Rising(push'[q].todo[c])
    <3>1. Rising(Tail(todo))
      BY <1>4, <2>2
    <3> QED BY <1>6, <2>1, <3>1 DEF Follows
  <2> QED BY <1>1, <2>1, <2>5, <2>6, <2>7, <2>8, <2>9 DEF Follows
<1>15. ASSUME ~overlap, NEW k \in Client \ forgotten, k # c  PROVE Follows(k)'
  <2>1. Follows(k)
    BY <1>1, <1>15 DEF Ordered
  <2> QED BY <1>1, <1>7, <1>12, <1>13, <1>15, <2>1, TodoSame, FollowsSame
<1>16. Gapless'
  <2> SUFFICES ASSUME NEW k \in viewers \ forgotten, NEW n \in Entered,
                      ~overlap, n >= since[k]
               PROVE  Reached(k, n)'
    BY <1>1, <1>13, GaplessIs
  <2>1. k \in Client /\ Reached(k, n)
    BY <1>1, GaplessIs DEF TypeOK
  <2>2. CASE k = c
    BY <1>1, <1>7, <1>12, <2>1, <2>2 DEF Reached
  <2>3. CASE k # c
    BY <1>1, <1>7, <1>12, <2>1, <2>3 DEF Reached
  <2> QED BY <2>2, <2>3
<1> QED BY <1>1, <1>8, <1>9, <1>10, <1>13, <1>14, <1>15, <1>16 DEF IInv, Ordered

\* The answer to a push: what it handed out is handed out, and viewers that went
\* away are forgotten, with all that was on its way to them.
LEMMA PushEndsKeeps == IInv /\ (\E p \in Pusher : PushEnds(p)) => IInv'
<1> SUFFICES ASSUME IInv, NEW p \in Pusher, PushEnds(p) PROVE IInv'
  OBVIOUS
<1>1. PICK gone \in SUBSET Absent :
        /\ IF gone = {} THEN UNCHANGED faults ELSE Fault
        /\ viewers' = viewers \ gone
        /\ vq' = [c \in Client |-> IF c \in gone THEN <<>> ELSE vq[c]]
        /\ missed' = [c \in Client |->
                        IF c \in gone THEN missed[c] \cup LinesIn(vq[c]) ELSE missed[c]]
        /\ forgotten' = forgotten \cup gone
        /\ push' = [q \in Pusher |->
                      IF q = p THEN NoPush
                      ELSE [push[q] EXCEPT !.todo =
                              [c \in Client |-> IF c \in gone THEN <<>> ELSE @[c]]]]
  BY DEF PushEnds
<1>2. /\ push[p].at = "put" /\ \A c \in Client : push[p].todo[c] = <<>>
      /\ UNCHANGED <<fed, hosting, relayQ, live, recent, others, pc, poll, stray, shown>>
      /\ UNCHANGED <<since, lost, overlap>>
      /\ TypeOK /\ Pushes /\ Requests /\ Ordered /\ Gapless
  BY DEF PushEnds, hostVars, clientVars, IInv
<1>3. /\ push \in [Pusher -> PushType] /\ \A q \in Pusher : Len(push[q].msgs) <= BatchMax
      /\ vq \in [Client -> Seq(Message)] /\ gone \subseteq viewers /\ viewers \subseteq Client
  BY <1>2 DEF TypeOK, PushType, Absent
<1>4. /\ push'[p] = NoPush
      /\ \A q \in Pusher \ {p} :
           /\ push'[q] \in PushType /\ push'[q].at = push[q].at /\ push'[q].msgs = push[q].msgs
           /\ \A c \in Client : push'[q].todo[c] = IF c \in gone THEN <<>> ELSE push[q].todo[c]
  <2>1. push'[p] = NoPush
    BY <1>1
  <2>2. ASSUME NEW q \in Pusher \ {p}
        PROVE  /\ push'[q] \in PushType /\ push'[q].at = push[q].at /\ push'[q].msgs = push[q].msgs
               /\ \A c \in Client : push'[q].todo[c] = IF c \in gone THEN <<>> ELSE push[q].todo[c]
    <3> DEFINE f == [c \in Client |-> IF c \in gone THEN <<>> ELSE push[q].todo[c]]
    <3>1. push'[q] = [push[q] EXCEPT !.todo = f]
      BY <1>1
    <3>2. f \in [Client -> Seq(Message)]
      <4>1. <<>> \in Seq(Message)
        OBVIOUS
      <4> QED BY <1>3, <4>1 DEF PushType
    <3>3. \A c \in Client : f[c] = IF c \in gone THEN <<>> ELSE push[q].todo[c]
      OBVIOUS
    <3> HIDE DEF f
    <3> QED BY ZenonT(40), <1>3, <3>1, <3>2, <3>3 DEF PushType
  <2> QED BY <2>1, <2>2
<1>5. push' \in [Pusher -> PushType] /\ \A q \in Pusher : Len(push'[q].msgs) <= BatchMax
  <2>1. \A q \in Pusher : push'[q] \in PushType
    BY <1>4, NoPushIs
  <2>2. \A q \in Pusher : Len(push'[q].msgs) <= BatchMax
    BY SMTT(30), <1>3, <1>4, NoPushIs, BoundsAssumption
  <2>3. push' = [q \in Pusher |-> push'[q]]
    BY <1>1
  <2> QED BY <2>1, <2>2, <2>3
<1>6. TypeOK'
  <2>1. vq' \in [Client -> Seq(Message)] /\ missed' \in [Client -> SUBSET Line]
    <3>1. <<>> \in Seq(Message)
      OBVIOUS
    <3> QED BY <1>1, <1>2, <1>3, <3>1 DEF TypeOK, LinesIn
  <2>2. \A c \in Client : Len(vq'[c]) <= ViewerMax /\ (c \notin viewers' => vq'[c] = <<>>)
    <3>1. ViewerMax \in Nat /\ Len(<<>>) = 0
      BY BoundsAssumption
    <3> QED BY <1>1, <1>2, <3>1 DEF TypeOK
  <2>3. /\ viewers' \subseteq Client /\ IsFiniteSet(viewers')
        /\ others \in Nat /\ Cardinality(viewers') + others <= MaxViewers
    <3>1. IsFiniteSet(viewers) /\ others \in Nat /\ Cardinality(viewers) + others <= MaxViewers
      BY <1>2 DEF TypeOK
    <3>2. viewers' \subseteq viewers
      BY <1>1
    <3>3. /\ IsFiniteSet(viewers') /\ Cardinality(viewers') <= Cardinality(viewers)
          /\ Cardinality(viewers') \in Nat /\ Cardinality(viewers) \in Nat
      BY <3>1, <3>2, FS_Subset, FS_CardinalityType
    <3> QED BY <1>3, <3>1, <3>2, <3>3, BoundsAssumption
  <2>4. forgotten' \subseteq Client /\ faults' \in 0..MaxFault
    <3>1. faults' = faults \/ (faults < MaxFault /\ faults' = faults + 1)
      BY <1>1 DEF Fault
    <3>2. faults \in 0..MaxFault /\ forgotten \subseteq Client
      BY <1>2 DEF TypeOK
    <3>3. faults' \in 0..MaxFault
      BY <3>1, <3>2, BoundsAssumption
    <3>4. forgotten' \subseteq Client
      BY <1>1, <1>3, <3>2
    <3> QED BY <3>3, <3>4
  <2> QED BY <1>2, <1>5, <2>1, <2>2, <2>3, <2>4 DEF TypeOK, PushType
<1>7. Pushes'
  <2>1. PushOK(p, push'[p], viewers')
    <3>1. <<>> \in Seq(Line)
      OBVIOUS
    <3> QED BY <1>4, <3>1, NoPushIs DEF PushOK
  <2>2. ASSUME NEW q \in Pusher \ {p}  PROVE PushOK(q, push'[q], viewers')
    <3>1. PushOK(q, push[q], viewers) /\ <<>> \in Seq(Line)
      BY <1>2 DEF Pushes
    <3>2. /\ push'[q].at = push[q].at /\ push'[q].msgs = push[q].msgs
          /\ \A c \in Client : push'[q].todo[c] = IF c \in gone THEN <<>> ELSE push[q].todo[c]
      BY <1>4
    <3>3. \A c \in Client : push'[q].todo[c] \in {<<>>, push[q].todo[c]}
      BY <3>2
    <3>4. ASSUME NEW c \in Client, push'[q].at # "put" \/ c \notin viewers'
          PROVE  push'[q].todo[c] = <<>>
      BY <1>1, <3>1, <3>2, <3>4 DEF PushOK
    <3>5. q = "stop" => \A c \in Client : push'[q].todo[c] \in {<<>>, <<Goodbye>>}
      BY <3>1, <3>3 DEF PushOK
    <3>6. q # "stop" => \A c \in Client : push'[q].todo[c] \in Seq(Line)
      BY <3>1, <3>3 DEF PushOK
    <3> QED BY <3>1, <3>2, <3>4, <3>5, <3>6 DEF PushOK
  <2> QED BY <2>1, <2>2 DEF Pushes
<1>8. Requests'
  BY <1>1, <1>2, <1>3 DEF Requests
<1>9. SentLines' = SentLines
  BY <1>2, <1>4, NoPushIs DEF SentLines
<1>10. ASSUME NEW c \in Client, c \notin gone
       PROVE  /\ vq'[c] = vq[c] /\ missed'[c] = missed[c]
              /\ \A q \in Pusher : push'[q].todo[c] = push[q].todo[c]
              /\ Todo(c)' = Todo(c)
  <2>1. \A q \in Pusher : push'[q].todo[c] = push[q].todo[c]
    BY <1>2, <1>4, <1>10, NoPushIs
  <2> QED BY <1>1, <1>10, <2>1, TodoSame
<1>11. ASSUME ~overlap  PROVE HostSide' /\ Entered' = Entered /\ Backlog'
  <2>1. HostSide /\ Backlog
    BY <1>2, <1>11 DEF Ordered
  <2>2. \A q \in Pusher : Rising(push'[q].msgs)
    BY <1>4, <2>1, NoPushIs, NoLines DEF HostSide
  <2>3. push'["worker"].at = "none" \/ push'["late"].at = "none"
    BY <1>4, <2>1, NoPushIs DEF HostSide, Pusher
  <2>4. HostSide' /\ Entered' = Entered
    BY <1>2, <1>9, <2>1, <2>2, <2>3, SourceSame
  <2> QED BY <1>2, <2>1, <2>4, RecentSame
<1>12. ASSUME ~overlap, NEW c \in Client \ forgotten'  PROVE Follows(c)'
  <2>1. Follows(c) /\ c \notin gone
    BY <1>1, <1>2, <1>12 DEF Ordered
  <2> QED BY <1>2, <1>10, <1>11, <1>12, <2>1, TodoSame, FollowsSame
<1>13. Gapless'
  <2> SUFFICES ASSUME NEW c \in viewers' \ forgotten', NEW n \in Entered,
                      ~overlap, n >= since[c]
               PROVE  Reached(c, n)'
    BY <1>2, <1>11, GaplessIs
  <2>1. c \in viewers \ forgotten /\ c \in Client /\ c \notin gone
    BY <1>1, <1>3
  <2>2. Reached(c, n)
    BY <1>2, <2>1, GaplessIs
  <2> QED BY <1>2, <1>10, <2>1, <2>2 DEF Reached
<1> QED BY <1>2, <1>6, <1>7, <1>8, <1>11, <1>12, <1>13 DEF IInv, Ordered

LEMMA ExpireKeeps == IInv /\ (Expire \/ OthersChange \/ UNCHANGED vars) => IInv'
<1> SUFFICES ASSUME IInv, Expire \/ OthersChange \/ UNCHANGED vars PROVE IInv'
  OBVIOUS
<1>1. /\ UNCHANGED <<fed, hosting, relayQ, push, recent, viewers, vq, pc, poll, stray>>
      /\ UNCHANGED <<shown, since, lost, missed, overlap, forgotten, faults>>
      /\ TypeOK /\ Pushes /\ Requests
  BY DEF Expire, OthersChange, vars, hostVars, tunnel, clientVars, history, known, IInv
<1>2. TypeOK'
  <2>1. live' \in BOOLEAN
    BY <1>1 DEF Expire, OthersChange, vars, tunnel, TypeOK
  <2>2. others' \in Nat /\ Cardinality(viewers) + others' <= MaxViewers
    <3>1. /\ Cardinality(viewers) \in Nat /\ MaxViewers \in Nat
          /\ others \in Nat /\ Cardinality(viewers) + others <= MaxViewers
      BY <1>1, FS_CardinalityType, BoundsAssumption DEF TypeOK
    <3>2. UNCHANGED others \/ others' \in 0..(MaxViewers - Cardinality(viewers))
      BY DEF Expire, OthersChange, vars, tunnel
    <3> QED BY <3>1, <3>2
  <2> QED BY <1>1, <2>1, <2>2 DEF TypeOK
<1>3. Pushes' /\ Requests'
  BY <1>1 DEF Pushes, Requests
<1>4. Ordered' /\ Gapless'
  <2>1. /\ \A n : n \in SentLines' <=> n \in SentLines
        /\ \A c \in Client : \A n : n \in Todo(c)' <=> n \in Todo(c)
    BY <1>1 DEF SentLines, Todo
  <2> QED BY <1>1, <2>1, RisingPush, QuietSteps
<1> QED BY <1>2, <1>3, <1>4 DEF IInv

-----------------------------------------------------------------------------
(* The viewers *)

\* What a step of viewer c's request, or of its client, leaves alone.
Elsewhere(c) ==
  /\ UNCHANGED <<fed, hosting, relayQ, push, live, recent, others, lost, overlap, forgotten>>
  /\ viewers' \in {viewers, viewers \cup {c}}
  /\ \A k \in Client \ {c} :
       /\ shown'[k] = shown[k] /\ poll'[k] = poll[k] /\ vq'[k] = vq[k] /\ missed'[k] = missed[k]
       /\ since'[k] = since[k] /\ pc'[k] = pc[k]

LEMMA ViewerStep ==
  ASSUME IInv, NEW c \in Client, Elsewhere(c), TypeOK',
         poll'[c].at # "answer" => poll'[c].msgs = <<>>,
         pc'[c] = "off" => poll'[c].at = "none",
         c \notin viewers' \cup forgotten => poll'[c].msgs = <<>> /\ shown'[c] = <<>>,
         ~overlap /\ c \notin forgotten /\ Todo(c)' = Todo(c) /\ Entered' = Entered => Follows(c)',
         \A n \in Entered : ~overlap /\ c \in viewers' \ forgotten /\ n >= since'[c]
                              /\ Todo(c)' = Todo(c) => Reached(c, n)'
  PROVE  IInv'
<1>1. /\ TypeOK /\ Pushes /\ Requests /\ Ordered /\ Gapless
      /\ UNCHANGED <<fed, relayQ, push, recent, lost, overlap, forgotten>>
  BY DEF IInv, Elsewhere
<1>2. SentLines' = SentLines /\ \A k \in Client : Todo(k)' = Todo(k)
  BY <1>1 DEF SentLines, Todo
<1>3. Entered' = Entered
  BY <1>1, <1>2, EnteredIs
<1>4. \A k \in Client \ {c} :
        /\ shown'[k] = shown[k] /\ poll'[k] = poll[k] /\ vq'[k] = vq[k] /\ missed'[k] = missed[k]
        /\ since'[k] = since[k] /\ pc'[k] = pc[k] /\ (k \in viewers' <=> k \in viewers)
  BY DEF Elsewhere
<1>5. Pushes'
  <2>1. viewers \subseteq viewers'
    BY DEF Elsewhere
  <2> QED BY <1>1, <2>1 DEF Pushes, PushOK
<1>6. Requests'
  <2>1. ASSUME NEW k \in Client
        PROVE  /\ poll'[k].at # "answer" => poll'[k].msgs = <<>>
               /\ pc'[k] = "off" => poll'[k].at = "none"
               /\ k \notin viewers' \cup forgotten' => poll'[k].msgs = <<>> /\ shown'[k] = <<>>
    <3>1. CASE k = c
      BY <1>1, <3>1
    <3>2. CASE k # c
      BY <1>1, <1>4, <3>2 DEF Requests
    <3> QED BY <3>1, <3>2
  <2> QED BY <2>1 DEF Requests
<1>7. ASSUME ~overlap
      PROVE  HostSide' /\ Backlog' /\ \A k \in Client \ forgotten : Follows(k)'
  <2>1. HostSide /\ Backlog
    BY <1>1, <1>7 DEF Ordered
  <2>2. HostSide'
    BY <1>1, <1>2, <2>1, SourceSame DEF HostSide
  <2>3. Backlog'
    BY <1>1, <1>3, <2>1, RecentSame
  <2>4. ASSUME NEW k \in Client \ forgotten  PROVE Follows(k)'
    <3>1. CASE k = c
      BY <1>2, <1>3, <1>7, <2>4, <3>1
    <3>2. CASE k # c
      <4>1. Follows(k)
        BY <1>1, <1>7 DEF Ordered
      <4> QED BY <1>1, <1>3, <1>4, <2>4, <3>2, <4>1, TodoSame, FollowsSame
    <3> QED BY <3>1, <3>2
  <2> QED BY <2>2, <2>3, <2>4
<1>8. Gapless'
  <2> SUFFICES ASSUME NEW k \in viewers' \ forgotten, NEW n \in Entered, ~overlap,
                      n >= since'[k]
               PROVE  Reached(k, n)'
    BY <1>1, <1>3, GaplessIs
  <2>1. CASE k = c
    BY <1>2, <2>1
  <2>2. CASE k # c
    <3>1. k \in Client /\ k \in viewers
      BY SMTT(30), <2>2 DEF Elsewhere, IInv, TypeOK
    <3>2. Reached(k, n)
      BY <1>1, <1>4, <2>2, <3>1, GaplessIs
    <3> QED BY <1>2, <1>4, <2>2, <3>1, <3>2 DEF Reached
  <2> QED BY <2>1, <2>2
<1> QED BY <1>1, <1>5, <1>6, <1>7, <1>8 DEF IInv, Ordered

PollType  == [at : {"none", "sent", "wait", "answer"}, msgs : Seq(Message)]
StrayType == [at : {"none", "wait"}, msgs : {<<>>}]
\* The parts of TypeOK that such a step changes.
LEMMA ViewerTypes ==
  ASSUME TypeOK, NEW c \in Client, Elsewhere(c),
         pc' \in [Client -> {"off", "polling", "done"}], poll' \in [Client -> PollType],
         stray' \in [Client -> StrayType], shown' \in [Client -> Seq(Line)],
         since' \in [Client -> Nat], missed' \in [Client -> SUBSET Line],
         vq' \in [Client -> Seq(Message)], Len(vq'[c]) <= ViewerMax,
         c \notin viewers' => vq'[c] = <<>>,
         Cardinality(viewers') + others <= MaxViewers, faults' \in 0..MaxFault
  PROVE  TypeOK'
<1>1. /\ viewers' \subseteq Client /\ IsFiniteSet(viewers')
  <2>1. viewers \subseteq Client /\ IsFiniteSet(viewers)
    BY DEF TypeOK
  <2>2. IsFiniteSet(viewers \cup {c})
    BY <2>1, FS_AddElement
  <2> QED BY <2>1, <2>2 DEF Elsewhere
<1>2. \A k \in Client : Len(vq'[k]) <= ViewerMax /\ (k \notin viewers' => vq'[k] = <<>>)
  BY DEF TypeOK, Elsewhere
<1>3. /\ fed' \in 0..MaxLine /\ hosting' \in BOOLEAN /\ live' \in BOOLEAN
      /\ relayQ' \in Seq(Line) /\ Len(relayQ') <= QueueMax
      /\ recent' \in Seq(Line) /\ Len(recent') <= RecentMax /\ others' \in Nat /\ others' = others
      /\ lost' \subseteq Line /\ overlap' \in BOOLEAN /\ forgotten' \subseteq Client
  BY DEF TypeOK, Elsewhere
<1>4. /\ push' \in [Pusher -> [at : {"none", "sent", "put"}, msgs : Seq(Message),
                              todo : [Client -> Seq(Message)]]]
      /\ \A p \in Pusher : Len(push'[p].msgs) <= BatchMax
  BY DEF TypeOK, Elsewhere
<1> QED BY <1>1, <1>2, <1>3, <1>4 DEF TypeOK, PollType, StrayType

\* What TypeOK says of the viewers' side.
LEMMA ViewerIs ==
  ASSUME TypeOK
  PROVE  /\ pc \in [Client -> {"off", "polling", "done"}] /\ poll \in [Client -> PollType]
         /\ stray \in [Client -> StrayType] /\ shown \in [Client -> Seq(Line)]
         /\ since \in [Client -> Nat] /\ missed \in [Client -> SUBSET Line]
         /\ vq \in [Client -> Seq(Message)] /\ faults \in 0..MaxFault
         /\ Cardinality(viewers) + others <= MaxViewers
         /\ \A c \in Client : Len(vq[c]) <= ViewerMax /\ (c \notin viewers => vq[c] = <<>>)
BY DEF TypeOK, PollType, StrayType

\* A viewer joins: it is given the lines that were kept, and owed from the first.
LEMMA JoinKeeps ==
  ASSUME IInv, NEW c \in Client, PollEnters(c), c \notin viewers
  PROVE  IInv'
<1> DEFINE k == Shorter(ViewerMax, recent)
           a == SubSeq(recent, 1, k)
           b == SubSeq(recent, k + 1, Len(recent))
           rest == LinesIn(SubSeq(recent, ViewerMax + 1, Len(recent)))
<1>1. /\ poll[c].at = "sent" /\ Cardinality(viewers) + others < MaxViewers
      /\ viewers' = viewers \cup {c} /\ vq' = [vq EXCEPT ![c] = a]
      /\ missed' = [missed EXCEPT ![c] = @ \cup rest]
      /\ since' = [since EXCEPT ![c] = IF recent = <<>> THEN 1 ELSE Head(recent)]
      /\ poll' = [poll EXCEPT ![c].at = "wait"]
      /\ UNCHANGED <<fed, hosting, relayQ, push, live, recent, others, pc, stray, shown>>
      /\ UNCHANGED <<lost, overlap, forgotten, faults>>
      /\ TypeOK /\ Pushes /\ Requests /\ Ordered
  BY DEF PollEnters, Joined, hostVars, IInv
<1>2. /\ recent \in Seq(Line) /\ recent \in Seq(Message) /\ Len(recent) \in Nat
      /\ k \in 0..Len(recent) /\ k <= ViewerMax
      /\ k = Len(recent) \/ k = ViewerMax
  <2>1. recent \in Seq(Line) /\ recent \in Seq(Message)
    BY <1>1, TypesAre DEF TypeOK
  <2>2. Len(recent) \in Nat /\ ViewerMax \in Nat
    BY <2>1, BoundsAssumption
  <2> QED BY <2>1, <2>2 DEF Shorter
<1>3. /\ a \in Seq(Message) /\ Len(a) = k
      /\ LinesIn(recent) = LinesIn(a) \cup LinesIn(b)
      /\ Rising(recent) => Rising(a)
  BY <1>2, CutLines
<1>4. LinesIn(b) \subseteq rest
  <2>1. CASE k = ViewerMax
    BY <2>1
  <2>2. CASE k = Len(recent)
    <3>1. Len(b) = 0
      BY <1>2, <2>2
    <3>2. 1..0 = {}
      OBVIOUS
    <3>3. LinesIn(b) = {}
      BY <3>1, <3>2 DEF LinesIn
    <3> QED BY <3>3
  <2> QED BY <1>2, <2>1, <2>2
<1>5. rest \subseteq Line
  BY DEF LinesIn
<1> HIDE DEF a, b, k, rest
<1>6. Elsewhere(c)
  BY <1>1, ViewerIs DEF Elsewhere
<1>7. /\ poll'[c] = [at |-> "wait", msgs |-> <<>>]
      /\ shown[c] = <<>> \/ c \in forgotten
      /\ poll'[c].msgs = poll[c].msgs /\ poll'[c].at = "wait" /\ poll[c].msgs = <<>>
      /\ poll' \in [Client -> PollType]
  BY <1>1, ViewerIs DEF Requests, PollType
<1>8. /\ vq'[c] = a /\ missed'[c] = missed[c] \cup rest
      /\ since'[c] = IF recent = <<>> THEN 1 ELSE recent[1]
  BY <1>1, <1>2, ViewerIs
<1>9. TypeOK'
  <2>1. vq' \in [Client -> Seq(Message)] /\ missed' \in [Client -> SUBSET Line]
    BY <1>1, <1>3, <1>5, ViewerIs
  <2>2. since' \in [Client -> Nat]
    <3>1. recent # <<>> => Head(recent) \in Line
      BY <1>2
    <3>2. recent # <<>> => Head(recent) \in Nat
      BY <3>1, MessageIs
    <3> QED BY <1>1, <3>2, ViewerIs
  <2>3. Cardinality(viewers') + others <= MaxViewers
    <3>1. /\ IsFiniteSet(viewers) /\ others \in Nat /\ MaxViewers \in Nat
      BY <1>1, BoundsAssumption DEF TypeOK
    <3>2. Cardinality(viewers') = Cardinality(viewers) + 1 /\ Cardinality(viewers) \in Nat
      BY <1>1, <3>1, FS_AddElement, FS_CardinalityType
    <3> QED BY <1>1, <3>1, <3>2
  <2>4. Len(vq'[c]) <= ViewerMax
    BY <1>2, <1>3, <1>8
  <2> QED BY <1>1, <1>6, <1>7, <2>1, <2>2, <2>3, <2>4, ViewerTypes, ViewerIs
<1>10. Todo(c) = {}
  BY <1>1, NoLines DEF Todo, Pushes, PushOK
<1>11. ASSUME ~overlap, c \notin forgotten, Todo(c)' = Todo(c), Entered' = Entered
       PROVE  Follows(c)'
  <2>1. Backlog /\ HostSide /\ Follows(c)
    BY <1>1, <1>11 DEF Ordered
  <2>2. shown'[c] = <<>> /\ poll'[c].msgs = <<>>
    BY <1>1, <1>7, <1>11 DEF Requests
  <2>3. Rising(vq'[c]) /\ LinesIn(vq'[c]) \subseteq Entered
    BY <1>3, <1>8, <2>1 DEF Backlog
  <2>4. \A p \in Pusher : Rising(push'[p].todo[c])
    BY <1>1, <2>1 DEF Follows
  <2> QED BY <1>10, <1>11, <2>2, <2>3, <2>4, NoLines DEF Follows, Below
<1>12. ASSUME NEW n \in Entered, ~overlap, n >= since'[c]  PROVE Reached(c, n)'
  <2>1. Backlog
    BY <1>1, <1>12 DEF Ordered
  <2>2. recent # <<>> /\ n \in LinesIn(recent)
    BY <1>8, <1>12, <2>1 DEF Backlog
  <2> QED BY <1>3, <1>4, <1>8, <2>2 DEF Reached
<1>13. pc'[c] = "off" => poll'[c].at = "none"
  BY <1>1 DEF Requests
<1>14. c \in viewers'
  BY <1>1
<1> QED BY <1>6, <1>7, <1>9, <1>11, <1>12, <1>13, <1>14, ViewerStep

\* A request goes on, ends or starts with the messages it had.
LEMMA PollStays ==
  ASSUME IInv, NEW c \in Client,
         UNCHANGED <<fed, hosting, relayQ, push, live, recent, viewers, others, vq, shown>>,
         UNCHANGED <<since, lost, missed, overlap, forgotten, faults>>,
         poll' \in [Client -> PollType], poll'[c].msgs = poll[c].msgs,
         \A k \in Client \ {c} : poll'[k] = poll[k] /\ pc'[k] = pc[k],
         poll'[c].at # "answer" => poll[c].msgs = <<>>,
         pc'[c] = "off" => poll'[c].at = "none",
         pc' \in [Client -> {"off", "polling", "done"}], stray' \in [Client -> StrayType]
  PROVE  IInv'
<1>1. TypeOK /\ Requests /\ Ordered /\ Gapless
  BY DEF IInv
<1>2. Elsewhere(c)
  BY DEF Elsewhere
<1>3. TypeOK'
  BY <1>1, <1>2, ViewerTypes, ViewerIs
<1>4. ASSUME ~overlap, c \notin forgotten, Todo(c)' = Todo(c), Entered' = Entered
      PROVE  Follows(c)'
  BY <1>1, <1>4, TodoSame, FollowsSame DEF Ordered
<1>5. ASSUME NEW n \in Entered, ~overlap, c \in viewers \ forgotten, n >= since[c],
             Todo(c)' = Todo(c)
      PROVE  Reached(c, n)'
  <2>1. Reached(c, n)
    BY <1>1, <1>5, GaplessIs
  <2> QED BY <1>5, <2>1 DEF Reached
<1>6. c \notin viewers' \cup forgotten => poll'[c].msgs = <<>> /\ shown'[c] = <<>>
  BY <1>1 DEF Requests
<1> QED BY <1>2, <1>3, <1>4, <1>5, <1>6, ViewerStep

LEMMA PollEntersKeeps == ASSUME IInv, NEW c \in Client, PollEnters(c) PROVE IInv'
<1>1. CASE c \notin viewers
  BY <1>1, JoinKeeps
<1>2. CASE c \in viewers
  <2>1. /\ poll[c].at = "sent" /\ poll' = [poll EXCEPT ![c].at = "wait"]
        /\ UNCHANGED <<fed, hosting, relayQ, push, live, recent, viewers, others, vq, shown>>
        /\ UNCHANGED <<since, lost, missed, overlap, forgotten, faults, pc, stray>>
        /\ TypeOK /\ Requests
    BY <1>2 DEF PollEnters, hostVars, IInv
  <2>2. /\ poll' \in [Client -> PollType] /\ poll'[c].at = "wait" /\ poll'[c].msgs = poll[c].msgs
        /\ \A k \in Client \ {c} : poll'[k] = poll[k]
    BY <2>1, ViewerIs DEF PollType
  <2>3. poll[c].msgs = <<>> /\ pc[c] # "off"
    BY <2>1 DEF Requests
  <2> QED BY <2>1, <2>2, <2>3, PollStays, ViewerIs
<1> QED BY <1>1, <1>2

LEMMA PollRefusedKeeps == ASSUME IInv, NEW c \in Client, PollRefused(c) PROVE IInv'
<1>1. /\ poll[c].at = "sent" /\ poll' = [poll EXCEPT ![c].at = "answer"]
      /\ UNCHANGED <<fed, hosting, relayQ, push, live, recent, viewers, others, vq, shown>>
      /\ UNCHANGED <<since, lost, missed, overlap, forgotten, faults, pc, stray>>
      /\ TypeOK /\ Requests
  BY DEF PollRefused, hostVars, tunnel, history, known, IInv
<1>2. /\ poll' \in [Client -> PollType] /\ poll'[c].at = "answer" /\ poll'[c].msgs = poll[c].msgs
      /\ \A k \in Client \ {c} : poll'[k] = poll[k]
  BY <1>1, ViewerIs DEF PollType
<1>3. pc[c] # "off"
  BY <1>1 DEF Requests
<1> QED BY <1>1, <1>2, <1>3, PollStays, ViewerIs

LEMMA ClientStartsKeeps == ASSUME IInv, NEW c \in Client, ClientStarts(c) PROVE IInv'
<1>1. /\ pc[c] = "off" /\ pc' = [pc EXCEPT ![c] = "polling"]
      /\ poll' = [poll EXCEPT ![c] = [at |-> "sent", msgs |-> <<>>]]
      /\ UNCHANGED <<fed, hosting, relayQ, push, live, recent, viewers, others, vq, shown>>
      /\ UNCHANGED <<since, lost, missed, overlap, forgotten, faults, stray>>
      /\ TypeOK /\ Requests
  BY DEF ClientStarts, Sent, hostVars, tunnel, history, known, IInv
<1>2. /\ poll' \in [Client -> PollType] /\ poll'[c].at = "sent" /\ poll'[c].msgs = <<>>
      /\ \A k \in Client \ {c} : poll'[k] = poll[k]
  BY <1>1, ViewerIs DEF PollType
<1>3. /\ pc' \in [Client -> {"off", "polling", "done"}] /\ pc'[c] = "polling"
      /\ \A k \in Client \ {c} : pc'[k] = pc[k]
  BY <1>1, ViewerIs
<1>4. poll[c].msgs = <<>>
  BY <1>1 DEF Requests
<1> QED BY <1>1, <1>2, <1>3, <1>4, PollStays, ViewerIs

LEMMA ClientFinds404Keeps == ASSUME IInv, NEW c \in Client, ClientFinds404(c) PROVE IInv'
<1>1. /\ poll[c].at = "sent" /\ pc' = [pc EXCEPT ![c] = "done"]
      /\ poll' = [poll EXCEPT ![c] = [at |-> "none", msgs |-> <<>>]]
      /\ UNCHANGED <<fed, hosting, relayQ, push, live, recent, viewers, others, vq, shown>>
      /\ UNCHANGED <<since, lost, missed, overlap, forgotten, faults, stray>>
      /\ TypeOK /\ Requests
  BY DEF ClientFinds404, NoPoll, hostVars, tunnel, history, known, IInv
<1>2. /\ poll' \in [Client -> PollType] /\ poll'[c].at = "none" /\ poll'[c].msgs = <<>>
      /\ \A k \in Client \ {c} : poll'[k] = poll[k]
  BY <1>1, ViewerIs DEF PollType
<1>3. /\ pc' \in [Client -> {"off", "polling", "done"}]
      /\ \A k \in Client \ {c} : pc'[k] = pc[k]
  BY <1>1, ViewerIs
<1>4. poll[c].msgs = <<>>
  BY <1>1 DEF Requests
<1> QED BY <1>1, <1>2, <1>3, <1>4, PollStays, ViewerIs

\* The queue's lines go into the answer.
LEMMA PollDrainsKeeps == ASSUME IInv, NEW c \in Client, PollDrains(c) PROVE IInv'
<1>1. /\ poll[c].at = "wait" /\ poll' = [poll EXCEPT ![c] = [at |-> "answer", msgs |-> vq[c]]]
      /\ vq' = [vq EXCEPT ![c] = <<>>]
      /\ UNCHANGED <<fed, hosting, relayQ, push, live, recent, viewers, others, pc, stray>>
      /\ UNCHANGED <<shown, since, lost, missed, overlap, forgotten, faults>>
      /\ TypeOK /\ Requests /\ Ordered /\ Gapless
  BY DEF PollDrains, hostVars, history, known, IInv
<1>2. /\ poll' \in [Client -> PollType] /\ poll'[c].at = "answer" /\ poll'[c].msgs = vq[c]
      /\ \A k \in Client \ {c} : poll'[k] = poll[k]
  BY <1>1, ViewerIs DEF PollType
<1>3. /\ vq' \in [Client -> Seq(Message)] /\ vq'[c] = <<>>
      /\ \A k \in Client \ {c} : vq'[k] = vq[k]
  BY <1>1, ViewerIs
<1>4. poll[c].msgs = <<>> /\ pc[c] # "off"
  BY <1>1 DEF Requests
<1>5. Elsewhere(c)
  BY <1>1, <1>2, <1>3 DEF Elsewhere
<1>6. TypeOK'
  <2>1. Len(vq'[c]) <= ViewerMax
    BY <1>3, BoundsAssumption
  <2> QED BY <1>1, <1>2, <1>3, <1>5, <2>1, ViewerTypes, ViewerIs
<1>7. ASSUME ~overlap, c \notin forgotten, Todo(c)' = Todo(c), Entered' = Entered
      PROVE  Follows(c)'
  <2>1. Follows(c) /\ \A p \in Pusher : Rising(push'[p].todo[c])
    BY <1>1, <1>7 DEF Ordered, Follows
  <2> QED BY <1>1, <1>2, <1>3, <1>4, <1>7, <2>1, NoLines DEF Follows, Below
<1>8. ASSUME NEW n \in Entered, ~overlap, c \in viewers \ forgotten, n >= since[c],
             Todo(c)' = Todo(c)
      PROVE  Reached(c, n)'
  <2>1. Reached(c, n)
    BY <1>1, <1>8, GaplessIs
  <2> QED BY <1>1, <1>2, <1>4, <1>8, <2>1, NoLines DEF Reached
<1>9. c \notin viewers' \cup forgotten => poll'[c].msgs = <<>> /\ shown'[c] = <<>>
  BY <1>1, <1>2, ViewerIs DEF Requests
<1> QED BY <1>1, <1>2, <1>4, <1>5, <1>6, <1>7, <1>8, <1>9, ViewerStep

\* They go to a request nobody waits for.
LEMMA StrayDrainsKeeps == ASSUME IInv, NEW c \in Client, StrayDrains(c) PROVE IInv'
<1>1. /\ stray' = [stray EXCEPT ![c] = [at |-> "none", msgs |-> <<>>]]
      /\ missed' = [missed EXCEPT ![c] = @ \cup LinesIn(vq[c])]
      /\ vq' = [vq EXCEPT ![c] = <<>>]
      /\ UNCHANGED <<fed, hosting, relayQ, push, live, recent, viewers, others, pc, poll>>
      /\ UNCHANGED <<shown, since, lost, overlap, forgotten, faults>>
      /\ TypeOK /\ Requests /\ Ordered /\ Gapless
  BY DEF StrayDrains, NoPoll, hostVars, IInv
<1>2. /\ vq' \in [Client -> Seq(Message)] /\ vq'[c] = <<>>
      /\ \A k \in Client \ {c} : vq'[k] = vq[k]
  BY <1>1, ViewerIs
<1>3. /\ missed' \in [Client -> SUBSET Line] /\ missed'[c] = missed[c] \cup LinesIn(vq[c])
      /\ \A k \in Client \ {c} : missed'[k] = missed[k]
  <2>1. LinesIn(vq[c]) \subseteq Line
    BY DEF LinesIn
  <2> QED BY <1>1, <2>1, ViewerIs
<1>4. stray' \in [Client -> StrayType]
  BY <1>1, ViewerIs DEF StrayType
<1>5. Elsewhere(c)
  BY <1>1, <1>2, <1>3 DEF Elsewhere
<1>6. TypeOK'
  <2>1. Len(vq'[c]) <= ViewerMax
    BY <1>2, BoundsAssumption
  <2> QED BY <1>1, <1>2, <1>3, <1>4, <1>5, <2>1, ViewerTypes, ViewerIs
<1>7. ASSUME ~overlap, c \notin forgotten, Todo(c)' = Todo(c), Entered' = Entered
      PROVE  Follows(c)'
  <2>1. Follows(c) /\ \A p \in Pusher : Rising(push'[p].todo[c])
    BY <1>1, <1>7 DEF Ordered, Follows
  <2> QED BY <1>1, <1>2, <1>7, <2>1, NoLines DEF Follows, Below
<1>8. ASSUME NEW n \in Entered, ~overlap, c \in viewers \ forgotten, n >= since[c],
             Todo(c)' = Todo(c)
      PROVE  Reached(c, n)'
  <2>1. Reached(c, n)
    BY <1>1, <1>8, GaplessIs
  <2> QED BY <1>1, <1>3, <1>8, <2>1 DEF Reached
<1>9. c \notin viewers \cup forgotten => poll[c].msgs = <<>> /\ shown[c] = <<>>
  BY <1>1 DEF Requests
<1>10. /\ poll[c].at # "answer" => poll[c].msgs = <<>>
       /\ pc[c] = "off" => poll[c].at = "none"
  BY <1>1 DEF Requests
<1> QED BY <1>1, <1>5, <1>6, <1>7, <1>8, <1>9, <1>10, ViewerStep

\* What the answer had is lost, and the client asks again.
LEMMA ClientRetriesKeeps == ASSUME IInv, NEW c \in Client, ClientRetries(c) PROVE IInv'
<1>1. /\ poll[c].at # "none" /\ poll' = [poll EXCEPT ![c] = [at |-> "sent", msgs |-> <<>>]]
      /\ stray' = [stray EXCEPT ![c].at = IF poll[c].at = "wait" THEN "wait" ELSE "none"]
      /\ missed' = [missed EXCEPT ![c] = @ \cup LinesIn(poll[c].msgs)]
      /\ faults < MaxFault /\ faults' = faults + 1
      /\ UNCHANGED <<fed, hosting, relayQ, push, live, recent, viewers, others, vq, pc>>
      /\ UNCHANGED <<shown, since, lost, overlap, forgotten>>
      /\ TypeOK /\ Requests /\ Ordered /\ Gapless
  BY DEF ClientRetries, Fault, Sent, hostVars, tunnel, IInv
<1>2. /\ poll' \in [Client -> PollType] /\ poll'[c].at = "sent" /\ poll'[c].msgs = <<>>
      /\ \A k \in Client \ {c} : poll'[k] = poll[k]
  BY <1>1, ViewerIs DEF PollType
<1>3. /\ missed' \in [Client -> SUBSET Line] /\ missed'[c] = missed[c] \cup LinesIn(poll[c].msgs)
      /\ \A k \in Client \ {c} : missed'[k] = missed[k]
  <2>1. LinesIn(poll[c].msgs) \subseteq Line
    BY DEF LinesIn
  <2> QED BY <1>1, <2>1, ViewerIs
<1>4. stray' \in [Client -> StrayType]
  BY <1>1, ViewerIs DEF StrayType
<1>5. faults' \in 0..MaxFault
  BY <1>1, ViewerIs, BoundsAssumption
<1>6. Elsewhere(c)
  BY <1>1, <1>2, <1>3 DEF Elsewhere
<1>7. TypeOK'
  BY <1>1, <1>2, <1>3, <1>4, <1>5, <1>6, ViewerTypes, ViewerIs
<1>8. ASSUME ~overlap, c \notin forgotten, Todo(c)' = Todo(c), Entered' = Entered
      PROVE  Follows(c)'
  <2>1. Follows(c) /\ \A p \in Pusher : Rising(push'[p].todo[c])
    BY <1>1, <1>8 DEF Ordered, Follows
  <2> QED BY <1>1, <1>2, <1>8, <2>1, NoLines DEF Follows, Below
<1>9. ASSUME NEW n \in Entered, ~overlap, c \in viewers \ forgotten, n >= since[c],
             Todo(c)' = Todo(c)
      PROVE  Reached(c, n)'
  <2>1. Reached(c, n)
    BY <1>1, <1>9, GaplessIs
  <2> QED BY <1>1, <1>3, <1>9, <2>1 DEF Reached
<1>10. /\ c \notin viewers \cup forgotten => shown[c] = <<>>
       /\ pc[c] # "off"
  BY <1>1 DEF Requests
<1> QED BY <1>1, <1>2, <1>6, <1>7, <1>8, <1>9, <1>10, ViewerStep

\* A set of naturals that is not empty has a least element.
LEMMA LeastNat ==
  ASSUME NEW T, T \subseteq Nat, T # {}
  PROVE  \E x \in T : \A y \in T : x <= y
<1> DEFINE R == {r \in Nat \X Nat : r[1] < r[2]}
<1>1. IsWellFoundedOn(R, Nat)
  BY NatLessThanWellFounded, Zenon DEF OpToRel
<1>2. PICK x \in T : \A y \in T : ~(<<y, x>> \in R)
  BY <1>1, WFMin, Zenon
<1>3. ASSUME NEW y \in T, y < x PROVE <<y, x>> \in R
  BY <1>3
<1> HIDE DEF R
<1>4. \A y \in T : ~(y < x)
  BY <1>2, <1>3
<1> QED BY <1>4

\* The messages of an answer up to the first goodbye.
UpTo(msgs) == LET ends == {i \in 1..Len(msgs) : msgs[i] = Goodbye} IN
              IF ends = {} THEN msgs
              ELSE SubSeq(msgs, 1, (CHOOSE i \in ends : \A j \in ends : i <= j) - 1)
LEMMA UpToIs ==
  ASSUME NEW msgs \in Seq(Message)
  PROVE  /\ UpTo(msgs) \in Seq(Line) /\ LinesIn(UpTo(msgs)) \subseteq LinesIn(msgs)
         /\ Rising(msgs) => Rising(UpTo(msgs))
<1> DEFINE ends == {i \in 1..Len(msgs) : msgs[i] = Goodbye}
           k == CHOOSE i \in ends : \A j \in ends : i <= j
<1>1. Len(msgs) \in Nat /\ \A i \in 1..Len(msgs) : msgs[i] \in Message
  OBVIOUS
<1>2. CASE ends = {}
  <2>1. UpTo(msgs) = msgs
    BY <1>2 DEF UpTo
  <2>2. \A i \in 1..Len(msgs) : msgs[i] \in Line
    BY <1>1, <1>2, MessageIs
  <2> QED BY <1>1, <2>1, <2>2
<1>3. CASE ends # {}
  <2>1. k \in ends /\ \A j \in ends : k <= j
    <3>1. ends \subseteq Nat
      BY <1>1
    <3> HIDE DEF ends
    <3>2. \E i \in ends : \A j \in ends : i <= j
      BY <1>3, <3>1, LeastNat
    <3> QED BY <3>2
  <2>2. k \in 1..Len(msgs) /\ \A j \in 1..(k - 1) : j \in 1..Len(msgs) /\ j \notin ends
    <3>1. k \in 1..Len(msgs)
      BY <2>1
    <3> HIDE DEF k
    <3> QED BY <1>1, <2>1, <3>1
  <2>3. UpTo(msgs) = SubSeq(msgs, 1, k - 1)
    BY <1>3 DEF UpTo
  <2> HIDE DEF k
  <2>4. k - 1 \in 0..Len(msgs)
    BY <1>1, <2>2
  <2>5. /\ UpTo(msgs) \in Seq(Message) /\ Len(UpTo(msgs)) = k - 1
        /\ \A i \in 1..(k - 1) : UpTo(msgs)[i] = msgs[i]
        /\ LinesIn(UpTo(msgs)) \subseteq LinesIn(msgs)
        /\ Rising(msgs) => Rising(UpTo(msgs))
    BY <2>3, <2>4, CutLines
  <2>6. \A i \in 1..(k - 1) : UpTo(msgs)[i] \in Line
    BY <1>1, <2>2, <2>5, MessageIs
  <2> QED BY <2>5, <2>6
<1> QED BY <1>2, <1>3

\* The client shows the answer's messages up to a goodbye; the rest is missed.
LEMMA ClientShowsKeeps == ASSUME IInv, NEW c \in Client, ClientShows(c) PROVE IInv'
<1> DEFINE msgs == poll[c].msgs
           upTo == UpTo(msgs)
           rest == LinesIn(msgs) \ LinesIn(upTo)
<1>1. /\ poll[c].at = "answer"
      /\ shown' = [shown EXCEPT ![c] = @ \o upTo]
      /\ missed' = [missed EXCEPT ![c] = @ \cup rest]
      /\ \/ pc' = pc /\ poll' = [poll EXCEPT ![c] = [at |-> "sent", msgs |-> <<>>]]
         \/ /\ pc' = [pc EXCEPT ![c] = "done"]
            /\ poll' = [poll EXCEPT ![c] = [at |-> "none", msgs |-> <<>>]]
      /\ UNCHANGED <<fed, hosting, relayQ, push, live, recent, viewers, others, vq, stray>>
      /\ UNCHANGED <<since, lost, overlap, forgotten, faults>>
  BY DEF ClientShows, UpTo, Sent, NoPoll, hostVars, tunnel
<1>2. TypeOK /\ Requests /\ Ordered /\ Gapless
  BY DEF IInv
<1>3. /\ msgs \in Seq(Message) /\ shown[c] \in Seq(Line) /\ shown[c] \in Seq(Message)
  BY <1>2, TypesAre, ViewerIs
<1>4. /\ upTo \in Seq(Line) /\ upTo \in Seq(Message) /\ LinesIn(upTo) \subseteq LinesIn(msgs)
      /\ Rising(msgs) => Rising(upTo)
  <2>1. \A s \in Seq(Line) : s \in Seq(Message)
    BY DEF Message
  <2> QED BY <1>3, <2>1, UpToIs
<1> HIDE DEF upTo
<1>5. /\ shown[c] \o upTo \in Seq(Line)
      /\ LinesIn(shown[c] \o upTo) = LinesIn(shown[c]) \cup LinesIn(upTo)
      /\ Rising(shown[c]) /\ Rising(upTo) /\ Below(LinesIn(shown[c]), LinesIn(upTo))
           => Rising(shown[c] \o upTo)
  <2>1. shown[c] \o upTo \in Seq(Line)
    BY <1>3, <1>4
  <2> QED BY <1>3, <1>4, <2>1, ConcatLines
<1>6. rest \subseteq Line /\ LinesIn(msgs) \subseteq LinesIn(upTo) \cup rest
  <2>1. LinesIn(msgs) \subseteq Line
    BY DEF LinesIn
  <2> QED BY <2>1
<1> HIDE DEF msgs, rest
<1>7. /\ poll' \in [Client -> PollType] /\ poll'[c].msgs = <<>>
      /\ poll'[c].at \in {"sent", "none"} /\ \A k \in Client \ {c} : poll'[k] = poll[k]
  <2>1. /\ poll \in [Client -> PollType]
        /\ \A a \in {"sent", "none"} : [at |-> a, msgs |-> <<>>] \in PollType
    BY <1>2, ViewerIs DEF PollType
  <2>2. PICK a \in {"sent", "none"} : poll' = [poll EXCEPT ![c] = [at |-> a, msgs |-> <<>>]]
    BY <1>1
  <2>3. [at |-> a, msgs |-> <<>>].at = a /\ [at |-> a, msgs |-> <<>>].msgs = <<>>
    OBVIOUS
  <2> QED BY <2>1, <2>2, <2>3
<1>8. /\ pc' \in [Client -> {"off", "polling", "done"}] /\ pc'[c] # "off"
      /\ \A k \in Client \ {c} : pc'[k] = pc[k]
  BY <1>1, <1>2, ViewerIs DEF Requests
<1>9. /\ shown' \in [Client -> Seq(Line)] /\ shown'[c] = shown[c] \o upTo
      /\ \A k \in Client \ {c} : shown'[k] = shown[k]
  BY <1>1, <1>2, <1>5, ViewerIs
<1>10. /\ missed' \in [Client -> SUBSET Line] /\ missed'[c] = missed[c] \cup rest
       /\ \A k \in Client \ {c} : missed'[k] = missed[k]
  BY <1>1, <1>2, <1>6, ViewerIs
<1>11. Elsewhere(c)
  BY <1>1, <1>7, <1>8, <1>9, <1>10 DEF Elsewhere
<1>12. TypeOK'
  BY <1>1, <1>2, <1>7, <1>8, <1>9, <1>10, <1>11, ViewerTypes, ViewerIs
<1>13. ASSUME ~overlap, c \notin forgotten, Todo(c)' = Todo(c), Entered' = Entered
       PROVE  Follows(c)'
  <2>1. Follows(c) /\ \A p \in Pusher : Rising(push'[p].todo[c])
    BY <1>1, <1>2, <1>13 DEF Ordered, Follows
  <2>2. Below(LinesIn(shown[c]), LinesIn(upTo)) /\ Rising(upTo)
    BY <1>4, <2>1 DEF Follows, Below, msgs
  <2>3. Rising(shown'[c]) /\ LinesIn(shown'[c]) \subseteq LinesIn(shown[c]) \cup LinesIn(poll[c].msgs)
    BY <1>4, <1>5, <1>9, <2>1, <2>2 DEF Follows, msgs
  <2>4. /\ LinesIn(poll'[c].msgs) = {} /\ Rising(poll'[c].msgs) /\ vq'[c] = vq[c]
    BY <1>1, <1>7, NoLines
  <2> QED BY <1>13, <2>1, <2>3, <2>4 DEF Follows, Below
<1>14. ASSUME NEW n \in Entered, ~overlap, c \in viewers \ forgotten, n >= since[c],
              Todo(c)' = Todo(c)
       PROVE  Reached(c, n)'
  <2>1. Reached(c, n)
    BY <1>2, <1>14, GaplessIs
  <2> QED BY <1>1, <1>5, <1>6, <1>9, <1>10, <1>14, <2>1 DEF Reached, msgs
<1>15. c \notin viewers \cup forgotten => shown'[c] = <<>>
  <2> SUFFICES ASSUME c \notin viewers \cup forgotten PROVE shown'[c] = <<>>
    OBVIOUS
  <2>1. msgs = <<>> /\ shown[c] = <<>>
    BY <1>2 DEF Requests, msgs
  <2>2. upTo = <<>>
    <3>1. 1..Len(<<>>) = {}
      OBVIOUS
    <3> QED BY <2>1, <3>1 DEF upTo, UpTo
  <2>3. <<>> \o <<>> = <<>>
    OBVIOUS
  <2> QED BY <1>9, <2>1, <2>2, <2>3
<1> QED BY <1>1, <1>7, <1>8, <1>11, <1>12, <1>13, <1>14, <1>15, ViewerStep

-----------------------------------------------------------------------------
(* The theorems *)

LEMMA InitHolds == Init => IInv
<1> SUFFICES ASSUME Init PROVE IInv
  OBVIOUS
<1> USE DEF Init
<1>1. TypeOK
  <2>1. /\ fed \in 0..MaxLine /\ faults \in 0..MaxFault
        /\ 0 <= QueueMax /\ 0 <= BatchMax /\ 0 <= RecentMax /\ 0 <= ViewerMax
    BY BoundsAssumption
  <2>2. /\ viewers \subseteq Client /\ IsFiniteSet(viewers)
        /\ others \in Nat /\ Cardinality(viewers) + others <= MaxViewers
    BY BoundsAssumption, FS_EmptySet
  <2>3. /\ push \in [Pusher -> [at : {"none", "sent", "put"}, msgs : Seq(Message),
                                todo : [Client -> Seq(Message)]]]
        /\ \A p \in Pusher : Len(push[p].msgs) <= BatchMax
    BY <2>1 DEF NoPush
  <2>4. poll \in [Client -> [at : {"none", "sent", "wait", "answer"}, msgs : Seq(Message)]]
        /\ stray \in [Client -> [at : {"none", "wait"}, msgs : {<<>>}]]
    BY DEF NoPoll
  <2>5. /\ vq \in [Client -> Seq(Message)]
        /\ \A c \in Client : Len(vq[c]) <= ViewerMax /\ (c \notin viewers => vq[c] = <<>>)
    BY <2>1
  <2>6. /\ relayQ \in Seq(Line) /\ Len(relayQ) <= QueueMax
        /\ recent \in Seq(Line) /\ Len(recent) <= RecentMax
    BY <2>1
  <2>7. /\ hosting \in BOOLEAN /\ live \in BOOLEAN /\ overlap \in BOOLEAN
        /\ lost \subseteq Line /\ forgotten \subseteq Client
    OBVIOUS
  <2>8. /\ pc \in [Client -> {"off", "polling", "done"}] /\ shown \in [Client -> Seq(Line)]
        /\ since \in [Client -> Nat]
    OBVIOUS
  <2>9. missed \in [Client -> SUBSET Line]
    OBVIOUS
  <2> QED BY ONLY <2>1, <2>2, <2>3, <2>4, <2>5, <2>6, <2>7, <2>8, <2>9 DEF TypeOK
<1>2. Pushes
  <2>1. \A p \in Pusher : push[p] = NoPush
    OBVIOUS
  <2>2. /\ NoPush.at = "none" /\ NoPush.msgs = <<>> /\ <<>> \in Seq(Line)
        /\ \A c \in Client : NoPush.todo[c] = <<>>
    BY DEF NoPush
  <2> QED BY ONLY <2>1, <2>2 DEF Pushes, PushOK
<1>3. Requests
  BY DEF Requests, NoPoll
<1>4. 1..fed = {} /\ Entered = {}
  BY DEF Entered
<1>5. /\ SentLines = {} /\ \A c \in Client : Todo(c) = {}
  BY NoLines DEF SentLines, Todo, NoPush
<1>6. HostSide
  <2>1. push["worker"].at = "none" /\ \A p \in Pusher : push[p].msgs = <<>>
    BY DEF NoPush, Pusher
  <2> QED BY <1>4, <1>5, <2>1, NoLines DEF HostSide, Below
<1>7. Backlog
  BY <1>4, NoLines DEF Backlog
<1>8. \A c \in Client : Follows(c)
  <2>1. /\ \A c \in Client : shown[c] = <<>> /\ poll[c].msgs = <<>> /\ vq[c] = <<>>
        /\ \A p \in Pusher, c \in Client : push[p].todo[c] = <<>>
    BY DEF NoPush, NoPoll
  <2> QED BY <1>5, <2>1, NoLines DEF Follows, Below
<1>9. Gapless
  BY <1>4 DEF Gapless
<1> QED BY <1>1, <1>2, <1>3, <1>6, <1>7, <1>8, <1>9 DEF IInv, Ordered

LEMMA StepHolds == ASSUME IInv, [Next]_vars PROVE IInv'
<1>1. CASE FeedLine
  BY <1>1, FeedLineKeeps
<1>2. CASE WorkerPosts
  BY <1>2, WorkerPostsKeeps
<1>3. CASE WorkerGivesUp
  BY <1>3, WorkerGivesUpKeeps
<1>4. CASE StopShare
  BY <1>4, StopShareKeeps
<1>5. CASE \E p \in Pusher : PushFails(p)
  BY <1>5, PushFailsKeeps
<1>6. CASE Relay
  BY <1>6, PushEntersKeeps, PushEndsKeeps, PushPutsKeeps DEF Relay
<1>7. CASE Expire \/ OthersChange \/ UNCHANGED vars
  BY <1>7, ExpireKeeps
<1>8. CASE \E c \in Client : Polls(c)
  BY <1>8, PollEntersKeeps, PollRefusedKeeps, PollDrainsKeeps, StrayDrainsKeeps DEF Polls
<1>9. CASE \E c \in Client : Viewer(c)
  BY <1>9, ClientStartsKeeps, ClientShowsKeeps, ClientRetriesKeeps, ClientFinds404Keeps DEF Viewer
<1> QED BY <1>1, <1>2, <1>3, <1>4, <1>5, <1>6, <1>7, <1>8, <1>9 DEF Next

\* IInv is an inductive invariant of the relayed share.
THEOREM Invariance == Spec => []IInv
<1>1. Init => IInv
  BY InitHolds
<1>2. IInv /\ [Next]_vars => IInv'
  BY StepHolds
<1> QED BY <1>1, <1>2, PTL DEF Spec

\* The queues of the host and the relay keep their limits, and every variable its type.
THEOREM TypeCorrect == Spec => []TypeOK
<1>1. IInv => TypeOK
  BY DEF IInv
<1> QED BY <1>1, Invariance, PTL

\* A viewer sees the lines in the order they were fed and none of them twice, unless
\* a push outlived its timeout or the relay forgot the viewer.
THEOREM LinesInOrder == Spec => []InOrder
<1>1. IInv => InOrder
  <2> SUFFICES ASSUME IInv, NEW c \in Client \ forgotten, ~overlap,
                      NEW i \in 1..Len(shown[c]), NEW j \in 1..Len(shown[c]), i < j
               PROVE  shown[c][i] < shown[c][j]
    BY DEF InOrder
  <2>1. Rising(shown[c]) /\ shown[c] \in Seq(Line)
    BY ViewerIs DEF IInv, Ordered, Follows
  <2>2. shown[c][i] \in Line /\ shown[c][j] \in Line
    BY <2>1
  <2>3. shown[c][i] # Goodbye /\ shown[c][j] # Goodbye
    BY <2>2, BoundsAssumption DEF Line, Goodbye
  <2> QED BY <2>1, <2>3 DEF Rising
<1> QED BY <1>1, Invariance, PTL

\* From the first line a viewer is owed, every line that entered the relay has been seen,
\* is on its way, or was taken by a full queue or a lost answer.
THEOREM NothingSkipped == Spec => []Gapless
<1>1. IInv => Gapless
  BY DEF IInv
<1> QED BY <1>1, Invariance, PTL

-----------------------------------------------------------------------------
(* ShareCode: the threads of the host *)

\* Shares are numbered in the order they start, and only the last may run; a
\* thread gives its worker a server when it ends.
Numbered ==
  /\ server \in {0, shares} /\ late \subseteq 1..shares
  /\ \A s \in Share : s > shares => stage[s] = "none"
  /\ \A s \in Share : /\ stage[s] # "end" => worker[s] = NoWorker
                      /\ worker[s].server <= shares
                      /\ worker[s].code = "unread" => worker[s].server # 0

\* A share that met no earlier registration is alone: the other threads have
\* ended without a worker for it, and a code in the dialog is its own, which its
\* worker posts to in the end.
Alone ==
  server # 0 /\ server \notin late =>
    /\ \A s \in Share \ {server} : stage[s] \in {"none", "end", "raised"} /\ worker[s].server # server
    /\ label.text \in Code =>
         /\ label = [text |-> got[server], by |-> server]
         /\ stage[server] \in {"shown", "relay", "end"}
         /\ stage[server] = "end" => /\ worker[server].server = server
                                     /\ worker[server].code \in {"unread", got[server]}
                                     /\ relayCode[server] = got[server]

CodeInv == CodeTypeOK /\ Numbered /\ Alone

-----------------------------------------------------------------------------
(* ShareCode: the steps *)

LEMMA Numbers == {TTL, MaxSessions, MaxPerIp, MaxTime, MaxShare} \subseteq Nat
  BY LimitsAssumption
LEMMA LimitsNat == TTL \in Nat /\ MaxTime \in Nat /\ MaxShare \in Nat
  BY Numbers

\* The types of the relay and the viewer, and those of the host.
Rooms ==
  /\ now \in 0..MaxTime
  /\ sessions \in [Code -> [by : Request \cup {0}, src : Source \cup {"none"}, expires : Nat]]
  /\ viewer \in Code \cup {NoCode}
Threads ==
  /\ server \in 0..shares /\ shares \in 0..MaxShare
  /\ stage \in [Request -> Stages] /\ got \in [Request -> Code \cup {NoCode}]
  /\ label \in [text : Code \cup {"none", "Detecting", "Not available"}, by : 0..MaxShare]
  /\ relayCode \in [Share -> Code \cup {NoCode}] /\ late \subseteq Share
  /\ worker \in [Share -> [server : 0..MaxShare, code : Code \cup {NoCode, "unread"}]]
Host == Threads /\ Numbered /\ Alone

LEMMA InvParts == CodeInv <=> Rooms /\ Host
  BY DEF CodeInv, CodeTypeOK, Rooms, Threads, Host

LEMMA NextInvParts == Rooms' /\ Host' => CodeInv'
  BY DEF CodeInv, CodeTypeOK, Rooms, Threads, Host
LEMMA ServerShare == Threads /\ server # 0 => server \in Share
<1> SUFFICES ASSUME Threads, server # 0 PROVE server \in Share
  OBVIOUS
<1>1. server \in 0..shares /\ shares \in 0..MaxShare
  BY DEF Threads
<1> QED BY <1>1, LimitsNat DEF Share

LEMMA Shares == /\ Share \subseteq Request /\ Share \subseteq Nat \ {0} /\ Share \cap Stranger = {}
                /\ \A r \in Request : Src(r) \in Source
<1>1. Stranger \subseteq Nat \ 0..MaxShare
  BY LimitsAssumption
<1> QED BY <1>1, LimitsNat DEF Share, Request, Src, Source

LEMMA NotBeyond ==
  ASSUME Threads, Numbered, NEW s \in Share, stage[s] # "none"
  PROVE  s <= shares
<1>1. ~(s > shares)
  BY DEF Numbered
<1>2. shares \in 0..MaxShare
  BY DEF Threads
<1>3. s \in Nat /\ shares \in Nat
  BY <1>2, Shares, LimitsNat
<1> QED BY <1>1, <1>3

LEMMA CodeStart == CodeInit => CodeInv
<1> SUFFICES ASSUME CodeInit PROVE CodeInv
  OBVIOUS
<1>2. Rooms
  BY LimitsNat DEF CodeInit, Rooms, NoSession
<1>3. Threads
  BY LimitsNat DEF CodeInit, Threads, NoWorker, Stages
<1>4. Numbered
  <2>1. \A s \in Share : stage[s] = "none" /\ worker[s] = [server |-> 0, code |-> "none"]
    BY Shares DEF CodeInit, NoWorker, NoCode, Share, Request
  <2>2. \A s \in Share : worker[s].server = 0 /\ worker[s].code = "none"
    BY <2>1
  <2> QED BY <2>1, <2>2 DEF CodeInit, Numbered, NoWorker, NoCode
<1>5. Alone
  BY DEF CodeInit, Alone
<1> QED BY <1>2, <1>3, <1>4, <1>5, InvParts DEF Host

\* The host does not notice what the relay and the viewer do.
LEMMA HostStays ==
  ASSUME CodeInv, UNCHANGED <<server, shares, label, relayCode, worker, late, stage, got>>
  PROVE  Host'
  BY InvParts DEF Host, Threads, Numbered, Alone

\* A request goes on at the relay: it does not end, and is not answered twice.
LEMMA RequestGoesOn ==
  ASSUME CodeInv, NEW r \in Request, stage[r] \in {"rate", "clean", "create"},
         NEW to \in {"clean", "create", "answered", "refused"},
         stage' = [stage EXCEPT ![r] = to],
         got' \in [Request -> Code \cup {NoCode}],
         \A q \in Request \ {r} : got'[q] = got[q],
         UNCHANGED <<server, shares, label, relayCode, worker, late>>
  PROVE  Host'
<1> USE DEF Host
<1>0. Threads /\ Numbered /\ Alone
  BY InvParts
<1>1. Threads'
  BY <1>0 DEF Threads, Stages
<1>2. \A q \in Request : stage'[q] = IF q = r THEN to ELSE stage[q]
  BY <1>0 DEF Threads
<1>3. Numbered'
  <2>1. \A s \in Share : s \in Request /\ (s > shares => s # r)
    BY <1>0, Shares DEF Numbered
  <2> QED BY <2>1, <1>0, <1>2 DEF Numbered
<1>4. Alone'
  <2> SUFFICES ASSUME server # 0, server \notin late PROVE Alone'
    BY DEF Alone
  <2>1. server \in Share
    BY <1>0, ServerShare
  <2>2. \A s \in Share \ {server} : s # r /\ s \in Request /\ stage'[s] = stage[s]
    BY <1>0, <1>2, Shares, <2>1 DEF Alone
  <2>3. label.text \in Code => server # r /\ stage'[server] = stage[server] /\ got'[server] = got[server]
    BY <1>0, <1>2, Shares, <2>1 DEF Alone
  <2> QED BY <1>0, <2>2, <2>3, Zenon DEF Alone
<1> QED BY <1>1, <1>3, <1>4

LEMMA RelayStep ==
  ASSUME CodeInv, NEW r \in Request, Handles(r)
  PROVE  CodeInv'
<1>0. Rooms /\ Threads /\ Src(r) \in Source
  BY InvParts, Shares DEF Host
<1>1. CASE Arrives(r)
  <2>2. Rooms'
    BY <1>0, <1>1 DEF Arrives, Rooms
  <2>3. /\ stage[r] = "rate" /\ got' = got /\ UNCHANGED <<server, shares, label, relayCode, worker, late>>
        /\ \E to \in {"clean", "refused"} : stage' = [stage EXCEPT ![r] = to]
    BY <1>1 DEF Arrives, hostPart, To
  <2>4. Host'
    BY <2>3, <1>0, RequestGoesOn DEF Threads
  <2> QED BY <2>2, <2>4, NextInvParts
<1>2. CASE Clean(r)
  <2>2. Rooms'
    <3>1. NoSession \in [by : Request \cup {0}, src : Source \cup {"none"}, expires : Nat]
      BY DEF NoSession
    <3> HIDE DEF NoSession
    <3> QED BY <3>1, <1>0, <1>2 DEF Clean, Rooms
  <2>3. /\ stage[r] = "clean" /\ got' = got /\ UNCHANGED <<server, shares, label, relayCode, worker, late>>
        /\ stage' = [stage EXCEPT ![r] = "create"]
    BY <1>2 DEF Clean, hostPart, To
  <2>4. Host'
    BY <2>3, <1>0, RequestGoesOn DEF Threads
  <2> QED BY <2>2, <2>4, NextInvParts
<1>3. CASE Create(r)
  <2>2. Rooms'
    <3>1. CASE Room(Src(r))
      <4>1. PICK c \in Code : sessions' = [sessions EXCEPT ![c] = [by |-> r, src |-> Src(r), expires |-> now + TTL]]
        BY <1>3, <3>1 DEF Create
      <4>2. now + TTL \in Nat /\ now' = now /\ viewer' = viewer
        BY <1>0, <1>3, LimitsNat DEF Create, Rooms
      <4> QED BY <4>1, <4>2, <1>0 DEF Rooms
    <3>2. CASE ~Room(Src(r))
      BY <3>2, <1>0, <1>3 DEF Create, Rooms
    <3> QED BY <3>1, <3>2
  <2>3. Host'
    <3>1. stage[r] = "create" /\ UNCHANGED <<server, shares, label, relayCode, worker, late>>
      BY <1>3 DEF Create, hostPart
    <3>2. CASE Room(Src(r))
      <4>1. PICK c \in Code : got' = [got EXCEPT ![r] = c] /\ stage' = [stage EXCEPT ![r] = "answered"]
        BY <1>3, <3>2 DEF Create, To
      <4>2. got' \in [Request -> Code \cup {NoCode}] /\ \A q \in Request \ {r} : got'[q] = got[q]
        BY <4>1, <1>0 DEF Threads
      <4> QED BY <3>1, <4>1, <4>2, RequestGoesOn
    <3>3. CASE ~Room(Src(r))
      <4>1. got' = got /\ stage' = [stage EXCEPT ![r] = "refused"]
        BY <1>3, <3>3 DEF Create, To
      <4> QED BY <3>1, <4>1, <1>0, RequestGoesOn DEF Threads
    <3> QED BY <3>2, <3>3
  <2> QED BY <2>2, <2>3, NextInvParts
<1> QED BY <1>1, <1>2, <1>3 DEF Handles

LEMMA TickStep ==
  ASSUME CodeInv, Tick
  PROVE  CodeInv'
<1>1. Rooms'
  BY InvParts, LimitsNat DEF Tick, Rooms
<1>2. Host'
  BY HostStays DEF Tick, hostPart
<1> QED BY <1>1, <1>2, NextInvParts

LEMMA JoinStep ==
  ASSUME CodeInv, Lookup \/ FirstPoll
  PROVE  CodeInv'
<1>1. Rooms'
  BY InvParts DEF Lookup, FirstPoll, Rooms
<1>2. Host'
  BY HostStays DEF Lookup, FirstPoll, hostPart
<1> QED BY <1>1, <1>2, NextInvParts

LEMMA ButtonStep ==
  ASSUME CodeInv, BeginShare \/ EndShare
  PROVE  CodeInv'
<1>0. Rooms /\ Threads /\ Numbered /\ Alone
  BY InvParts DEF Host
<1>2. Rooms'
  BY <1>0 DEF BeginShare, EndShare, Rooms
<1>3. CASE EndShare
  <2>1. server' = 0 /\ UNCHANGED <<shares, label, relayCode, worker, late, stage, got>>
    BY <1>3 DEF EndShare
  <2>2. Threads'
    <3>2. shares \in 0..MaxShare
      BY <1>0 DEF Threads
    <3>1. 0 \in 0..shares
      BY <3>2
    <3> QED BY <3>1, <2>1, <1>0 DEF Threads
  <2>3. Numbered'
    BY <2>1, <1>0 DEF Numbered
  <2>4. Alone'
    BY <2>1 DEF Alone
  <2> QED BY <1>2, <2>2, <2>3, <2>4, NextInvParts DEF Host
<1>4. CASE BeginShare
  <2> DEFINE n == shares + 1
  <2>1. /\ shares \in 0..MaxShare /\ n \in Share /\ n \in Request /\ n # 0 /\ n \in 0..MaxShare
        /\ n \in 1..n
    <3>1. shares \in 0..MaxShare /\ shares < MaxShare
      BY <1>0, <1>4 DEF BeginShare, Threads
    <3>2. n \in Share
      BY <3>1, LimitsNat DEF Share
    <3>3. n \in Request
      BY <3>2, Shares
    <3> QED BY <3>1, <3>2, <3>3, LimitsNat
  <2>2. /\ shares' = n /\ server' = n /\ stage' = [stage EXCEPT ![n] = "stun"]
        /\ label' = [text |-> "Detecting", by |-> 0]
        /\ late' = IF \E s \in Share : Running(s) THEN late \cup {n} ELSE late
        /\ UNCHANGED <<got, relayCode, worker>>
    BY <1>4 DEF BeginShare, To
  <2>3. \A s \in Share : s <= shares => s <= n /\ s # n
    BY <2>1, Shares
  <2>4. stage[n] = "none" /\ worker[n] = NoWorker
    <3>1. n > shares
      BY <2>1
    <3>2. stage[n] = "none"
      BY <3>1, <2>1, <1>0 DEF Numbered
    <3> QED BY <3>2, <2>1, <1>0 DEF Numbered
  <2>5. Threads'
    <3>1. 0 \in 0..MaxShare /\ n \in 0..n
      BY <2>1, LimitsNat
    <3>2. late' \subseteq Share
      BY <2>1, <2>2, <1>0 DEF Threads
    <3> HIDE DEF n
    <3>3. "stun" \in Stages
      BY DEF Stages
    <3>4. stage' \in [Request -> Stages]
      BY <3>3, <2>1, <2>2, <1>0 DEF Threads
    <3>5. label' \in [text : Code \cup {"none", "Detecting", "Not available"}, by : 0..MaxShare]
      BY <3>1, <2>2
    <3> QED BY <3>1, <3>2, <3>4, <3>5, <2>1, <2>2, <1>0 DEF Threads
  <2>6. Numbered'
    <3>1. \A s \in Share : s > n => s > shares /\ s # n /\ s \in Request
      BY <2>1, Shares
    <3>2. late' \subseteq 1..n
      <4>1. 1..shares \subseteq 1..n
        BY <2>1
      <4> HIDE DEF n
      <4> QED BY <4>1, <2>1, <2>2, <1>0 DEF Numbered
    <3>3. \A s \in Share : stage'[s] # "end" => worker'[s] = NoWorker
      <4> HIDE DEF n
      <4> QED BY <2>1, <2>2, <2>4, <1>0, Shares DEF Numbered, Threads
    <3>4. \A s \in Share : worker'[s].server <= n
      <4>1. \A s \in Share : worker[s].server <= shares /\ worker[s].server \in 0..MaxShare
        BY <1>0 DEF Numbered, Threads
      <4>2. \A k \in 0..MaxShare : k <= shares => k <= n
        BY <2>1
      <4> HIDE DEF n
      <4> QED BY <4>1, <4>2, <2>2
    <3>6. \A s \in Share : worker[s].code = "unread" => worker[s].server # 0
      BY <1>0 DEF Numbered
    <3>5. \A s \in Share : s > n => stage'[s] = "none"
      <4> HIDE DEF n
      <4> QED BY <3>1, <2>1, <2>2, <1>0 DEF Numbered, Threads
    <3> HIDE DEF n
    <3> QED BY <3>2, <3>3, <3>4, <3>5, <3>6, <2>2 DEF Numbered
  <2>7. Alone'
    <3> SUFFICES ASSUME n \notin late' PROVE Alone'
      BY <2>2 DEF Alone
    <3>1. \A s \in Share : stage[s] \in {"none", "end", "raised"}
      <4> HIDE DEF n
      <4> QED BY <2>2 DEF Running
    <3>2. \A s \in Share : worker[s].server # n
      <4>1. \A s \in Share : worker[s].server <= shares /\ worker[s].server \in 0..MaxShare
        BY <1>0 DEF Numbered, Threads
      <4>2. \A k \in 0..MaxShare : k <= shares => k # n
        BY <2>1
      <4> HIDE DEF n
      <4> QED BY <4>1, <4>2
    <3>3. label'.text \notin Code
      BY <2>2, CodeAssumption
    <3> HIDE DEF n
    <3>4. \A s \in Share \ {n} : stage'[s] = stage[s]
      BY <2>1, <2>2, <1>0, Shares DEF Threads
    <3> QED BY <3>1, <3>2, <3>3, <3>4, <2>2 DEF Alone
  <2>8. Host'
    BY <2>5, <2>6, <2>7 DEF Host
  <2> QED BY <1>2, <2>8, NextInvParts
<1> QED BY <1>3, <1>4

\* A registration thread goes from one stage to another, without giving its worker a
\* server; what is in the dialog now is no code, or its own.
LEMMA ThreadGoesOn ==
  ASSUME CodeInv, NEW s \in Share, stage[s] \notin {"none", "end", "raised"},
         NEW to \in Stages \ {"none"}, stage' = [stage EXCEPT ![s] = to],
         label' \in [text : Code \cup {"none", "Detecting", "Not available"}, by : 0..MaxShare],
         \/ label'.text \notin Code
         \/ label' = [text |-> got[s], by |-> s] /\ to = "shown"
         \/ /\ server # 0 /\ server \notin late => to \in {"relay"} \/ stage[s] \notin {"shown", "relay"}
            /\ label' = label,
         UNCHANGED <<server, shares, got, relayCode, worker, late>>
  PROVE  Host'
<1>0. Threads /\ Numbered /\ Alone
  BY InvParts DEF Host
<1>1. s \in Request /\ s <= shares
  <2>1. s \in Request
    BY Shares
  <2>2. stage[s] # "none"
    OBVIOUS
  <2> QED BY <2>1, <2>2, <1>0, NotBeyond, Zenon
<1>2. Threads'
  BY <1>0, <1>1 DEF Threads
<1>3. \A q \in Share : stage'[q] = IF q = s THEN to ELSE stage[q]
  BY <1>0, Shares DEF Threads
<1>4. Numbered'
  <2>1. \A q \in Share : q > shares => q # s
    BY <1>0 DEF Numbered
  <2> QED BY <2>1, <1>0, <1>3 DEF Numbered
<1>5. Alone'
  <2> SUFFICES ASSUME server # 0, server \notin late PROVE Alone'
    BY DEF Alone
  <2>1. server \in Share
    BY <1>0, ServerShare
  <2>2. s = server
    BY <1>0 DEF Alone
  <2>3. \A q \in Share \ {server} : stage'[q] \in {"none", "end", "raised"} /\ worker'[q].server # server
    BY <1>0, <1>3, <2>2 DEF Alone
  <2>4. CASE label'.text \notin Code
    BY <2>3, <2>4, Zenon DEF Alone
  <2>5. CASE label' = [text |-> got[s], by |-> s] /\ to = "shown"
    <3>1. stage'[server] = "shown"
      BY <2>5, <2>2, <1>3
    <3> QED BY <3>1, <2>2, <2>3, <2>5 DEF Alone
  <2>6. CASE to = "relay" /\ label' = label
    <3>1. stage'[server] = "relay"
      BY <2>6, <2>2, <1>3
    <3> QED BY <3>1, <1>0, <2>3, <2>6 DEF Alone
  <2>7. CASE stage[s] \notin {"shown", "relay"} /\ label' = label
    <3>1. label.text \notin Code
      BY <1>0, <2>2, <2>7 DEF Alone
    <3> QED BY <3>1, <2>3, <2>7 DEF Alone
  <2> QED BY <2>4, <2>5, <2>6, <2>7
<1> QED BY <1>2, <1>4, <1>5 DEF Host

LEMMA GivesUpStep ==
  ASSUME CodeInv, NEW s \in Share, stage[s] \notin {"none", "end", "raised"}, GivesUp(s)
  PROVE  CodeInv'
<1>1. /\ stage' = [stage EXCEPT ![s] = "end"] /\ label' = [text |-> "Not available", by |-> 0]
      /\ UNCHANGED <<now, sessions, server, shares, got, relayCode, worker, late, viewer>>
  BY DEF GivesUp, To, Shows
<1>2. label'.text \notin Code
  BY <1>1, CodeAssumption
<1>3. label' \in [text : Code \cup {"none", "Detecting", "Not available"}, by : 0..MaxShare]
  <2>1. 0 \in 0..MaxShare
    BY LimitsNat
  <2> QED BY <1>1, <2>1
<1>4. Host'
  <2>1. "end" \in Stages \ {"none"}
    BY DEF Stages
  <2> QED BY <2>1, <1>1, <1>2, <1>3, ThreadGoesOn
<1>6. Rooms'
  BY <1>1, InvParts DEF Rooms
<1> QED BY <1>4, <1>6, NextInvParts

LEMMA RegistryStays ==
  ASSUME CodeInv, UNCHANGED <<now, sessions, viewer>>
  PROVE  Rooms'
  BY InvParts DEF Rooms

LEMMA RegisterStep ==
  ASSUME CodeInv, NEW s \in Share, Registers(s)
  PROVE  CodeInv'
<1>0. Threads /\ Numbered /\ Alone
  BY InvParts DEF Host
<1>1. CASE AsksStun(s)
  <2>1. stage[s] \notin {"none", "end", "raised"} /\ stage[s] \notin {"shown", "relay"}
    BY <1>1 DEF AsksStun
  <2>2. CASE GivesUp(s)
    BY <2>1, <2>2, GivesUpStep
  <2>3. CASE ~GivesUp(s)
    <3>1. PICK to \in {"rate", "refused", "raised"} : stage' = [stage EXCEPT ![s] = to]
      BY <1>1, <2>3 DEF AsksStun, To
    <3>2. UNCHANGED <<now, sessions, hostPart, got, viewer>>
      BY <1>1, <2>3 DEF AsksStun
    <3>3. UNCHANGED <<server, shares, got, relayCode, worker, late>> /\ label' = label
      BY <3>2 DEF hostPart
    <3>4. label \in [text : Code \cup {"none", "Detecting", "Not available"}, by : 0..MaxShare]
      BY <1>0 DEF Threads
    <3>5. to \in Stages \ {"none"}
      BY DEF Stages
    <3>6. Host'
      BY <2>1, <3>1, <3>3, <3>4, <3>5, ThreadGoesOn
    <3> QED BY <3>2, <3>6, RegistryStays, NextInvParts
  <2> QED BY <2>2, <2>3
<1>2. CASE Fails(s)
  BY <1>2, GivesUpStep DEF Fails
<1>3. CASE ShowsCode(s)
  <2>1. /\ stage[s] = "answered" /\ stage' = [stage EXCEPT ![s] = "shown"]
        /\ label' = [text |-> got[s], by |-> s]
        /\ UNCHANGED <<now, sessions, server, shares, got, relayCode, worker, late, viewer>>
    BY <1>3 DEF ShowsCode, To, Shows
  <2>2. "shown" \in Stages \ {"none"} /\ s \in 0..MaxShare
    BY LimitsNat DEF Stages, Share
  <2>3. got[s] \in Code \cup {"none"}
    BY <1>0, Shares DEF Threads, NoCode
  <2>4. label' \in [text : Code \cup {"none", "Detecting", "Not available"}, by : 0..MaxShare]
    BY <2>1, <2>2, <2>3
  <2>5. Host'
    BY <2>1, <2>2, <2>4, ThreadGoesOn
  <2> QED BY <2>1, <2>5, RegistryStays, NextInvParts
<1>4. CASE LooksForServer(s)
  <2>1. /\ stage[s] = "shown" /\ label' = label
        /\ UNCHANGED <<now, sessions, server, shares, got, relayCode, worker, late, viewer>>
    BY <1>4 DEF LooksForServer, hostPart
  <2>2. PICK to \in {"end", "relay"} : stage' = [stage EXCEPT ![s] = to] /\ (server # 0 => to = "relay")
    BY <1>4 DEF LooksForServer, To
  <2>3. label \in [text : Code \cup {"none", "Detecting", "Not available"}, by : 0..MaxShare]
    BY <1>0 DEF Threads
  <2>4. to \in Stages \ {"none"}
    BY DEF Stages
  <2>5. Host'
    BY <2>1, <2>2, <2>3, <2>4, ThreadGoesOn
  <2> QED BY <2>1, <2>5, RegistryStays, NextInvParts
<1>5. CASE SetsRelay(s)
  <2>1. stage[s] = "relay"
    BY <1>5 DEF SetsRelay
  <2>2. CASE server = 0
    BY <1>5, <2>1, <2>2, GivesUpStep DEF SetsRelay
  <2>3. CASE server # 0
    <3>1. /\ stage' = [stage EXCEPT ![s] = "end"] /\ relayCode' = [relayCode EXCEPT ![server] = got[s]]
          /\ worker' = [worker EXCEPT ![s] = [server |-> server, code |-> "unread"]]
          /\ UNCHANGED <<now, sessions, server, shares, label, late, got, viewer>>
      BY <1>5, <2>3 DEF SetsRelay, To
    <3>2. server \in Share /\ server \in 0..MaxShare /\ server = shares
      <4>1. server \in Share
        BY <1>0, <2>3, ServerShare
      <4>2. server = shares /\ shares \in 0..MaxShare
        BY <1>0, <2>3 DEF Numbered, Threads
      <4> QED BY <4>1, <4>2
    <3>3. s \in Request /\ got[s] \in Code \cup {NoCode} /\ "end" \in Stages
      BY <1>0, Shares DEF Threads, Stages
    <3>4. Threads'
      <4>1. stage' \in [Request -> Stages]
        BY <1>0, <3>1, <3>3 DEF Threads
      <4>2. relayCode' \in [Share -> Code \cup {NoCode}]
        BY <1>0, <3>1, <3>3 DEF Threads
      <4>3. worker' \in [Share -> [server : 0..MaxShare, code : Code \cup {NoCode, "unread"}]]
        BY <1>0, <3>1, <3>2 DEF Threads
      <4> QED BY <4>1, <4>2, <4>3, <1>0, <3>1 DEF Threads
    <3>5. /\ \A q \in Share : stage'[q] = IF q = s THEN "end" ELSE stage[q]
          /\ \A q \in Share : worker'[q] = IF q = s THEN [server |-> server, code |-> "unread"] ELSE worker[q]
          /\ \A q \in Share : relayCode'[q] = IF q = server THEN got[s] ELSE relayCode[q]
      BY <1>0, <3>1, <3>3, Shares DEF Threads
    <3>6. Numbered'
      <4>1. \A q \in Share : q > shares => q # s
        BY <1>0, <2>1 DEF Numbered
      <4>2. server <= shares
        BY <3>2
      <4>3. \A q \in Share : worker'[q].server <= shares
        BY <4>2, <3>5, <1>0 DEF Numbered
      <4>4. \A q \in Share : worker'[q].code = "unread" => worker'[q].server # 0
        <5>1. \A q \in Share : q = s => worker'[q].server = server
          BY <3>5
        <5> QED BY <5>1, <2>3, <3>5, <1>0 DEF Numbered
      <4>5. \A q \in Share : stage'[q] # "end" => worker'[q] = NoWorker
        BY <3>5, <1>0 DEF Numbered
      <4>6. \A q \in Share : q > shares => stage'[q] = "none"
        BY <4>1, <3>5, <1>0 DEF Numbered
      <4> QED BY <4>3, <4>4, <4>5, <4>6, <1>0, <3>1 DEF Numbered
    <3>7. Alone'
      <4> SUFFICES ASSUME server # 0, server \notin late PROVE Alone'
        BY <3>1 DEF Alone
      <4>1. s = server
        BY <1>0, <2>1 DEF Alone
      <4> QED BY <1>0, <4>1, <3>1, <3>2, <3>5 DEF Alone
    <3>8. Host'
      BY <3>4, <3>6, <3>7 DEF Host
    <3> QED BY <3>1, <3>8, RegistryStays, NextInvParts
  <2> QED BY <2>2, <2>3
<1> QED BY <1>1, <1>2, <1>3, <1>4, <1>5 DEF Registers

LEMMA WorkerStep ==
  ASSUME CodeInv, NEW s \in Share, WorkerBegins(s)
  PROVE  CodeInv'
<1>0. Threads /\ Numbered /\ Alone
  BY InvParts DEF Host
<1> DEFINE at == worker[s].server
<1>1. /\ worker[s].code = "unread" /\ worker' = [worker EXCEPT ![s].code = relayCode[at]]
      /\ UNCHANGED <<now, sessions, server, shares, label, relayCode, late, stage, got, viewer>>
  BY DEF WorkerBegins
<1>2. stage[s] = "end"
  BY <1>0, <1>1 DEF Numbered, NoWorker, NoCode
<1>3. worker \in [Share -> [server : 0..MaxShare, code : Code \cup {NoCode, "unread"}]]
  BY <1>0 DEF Threads
<1>4. at \in 0..MaxShare
  BY <1>3
<1>5. \A q \in Share : /\ worker'[q].server = worker[q].server
                       /\ worker'[q].code = IF q = s THEN relayCode[at] ELSE worker[q].code
                       /\ q # s => worker'[q] = worker[q]
  BY <1>1, <1>3
<1>6. Numbered'
  BY <1>0, <1>1, <1>2, <1>5 DEF Numbered
<1>7. Alone'
  <2> SUFFICES ASSUME server # 0, server \notin late PROVE Alone'
    BY <1>1 DEF Alone
  <2>1. server \in Share
    BY <1>0, ServerShare
  <2> HIDE DEF at
  <2> QED BY <2>1, <1>0, <1>1, <1>5 DEF Alone, at
<1>9. at # 0
  BY <1>0, <1>1 DEF Numbered
<1>8. CASE at # 0
  <2>1. at \in Share
    BY <1>4, <1>8, LimitsNat DEF Share
  <2>2. relayCode[at] \in Code \cup {NoCode, "unread"}
    BY <2>1, <1>0 DEF Threads
  <2> HIDE DEF at
  <2>3. worker' \in [Share -> [server : 0..MaxShare, code : Code \cup {NoCode, "unread"}]]
    BY <2>2, <1>1, <1>3
  <2>4. Threads'
    BY <2>3, <1>0, <1>1 DEF Threads
  <2> QED BY <2>4, <1>1, <1>6, <1>7, RegistryStays, NextInvParts DEF Host
<1> QED BY <1>8, <1>9

-----------------------------------------------------------------------------
(* The theorems *)

LEMMA CodeStep == CodeInv /\ [CodeNext]_codeVars => CodeInv'
<1> SUFFICES ASSUME CodeInv, [CodeNext]_codeVars PROVE CodeInv'
  OBVIOUS
<1>1. CASE UNCHANGED codeVars
  <2>1. UNCHANGED <<now, sessions, viewer>> /\ UNCHANGED hostPart /\ UNCHANGED <<stage, got>>
    BY <1>1 DEF codeVars
  <2> QED BY <2>1, RegistryStays, HostStays, NextInvParts DEF hostPart
<1>2. ASSUME NEW r \in Request, Handles(r) PROVE CodeInv'
  BY <1>2, RelayStep
<1>3. ASSUME NEW s \in Share, Registers(s) PROVE CodeInv'
  BY <1>3, RegisterStep
<1>4. ASSUME NEW s \in Share, WorkerBegins(s) PROVE CodeInv'
  BY <1>4, WorkerStep
<1> QED BY <1>1, <1>2, <1>3, <1>4, TickStep, JoinStep, ButtonStep DEF CodeNext

THEOREM CodeAlways == CodeSpec => []CodeInv
  BY CodeStart, CodeStep, PTL DEF CodeSpec

\* The types of the session code, for every number of shares and codes, and every limit.
THEOREM CodeTypeCorrect == CodeSpec => []CodeTypeOK
<1>1. CodeInv => CodeTypeOK
  BY DEF CodeInv
<1> QED BY <1>1, CodeAlways, PTL

\* The code in the share dialog, once its registration is over, is the code that the
\* worker of this share, and no other, posts to; unless an earlier share's registration
\* was still under way when this one began.
THEOREM ShownCode == CodeSpec => []ShownCodeServed
<1>1. ASSUME CodeInv, server # 0, server \notin late, label.text \in Code, stage[label.by] = "end"
      PROVE  /\ \E s \in Share : worker[s].server = server
             /\ \A s \in Share : worker[s].server = server => worker[s].code \in {"unread", label.text}
  <2>1. Threads /\ Alone
    BY <1>1, InvParts DEF Host
  <2>2. server \in Share
    BY <1>1, <2>1, ServerShare
  <2>3. label = [text |-> got[server], by |-> server]
    BY <1>1, <2>1 DEF Alone
  <2>4. label.by = server /\ label.text = got[server]
    BY <2>3
  <2>5. worker[server].server = server /\ worker[server].code \in {"unread", got[server]}
    BY <1>1, <2>1, <2>4 DEF Alone
  <2>6. \A s \in Share \ {server} : worker[s].server # server
    BY <1>1, <2>1 DEF Alone
  <2> QED BY <2>2, <2>4, <2>5, <2>6, Zenon
<1>2. CodeInv => ShownCodeServed
  BY <1>1, Zenon DEF ShownCodeServed
<1> QED BY <1>2, CodeAlways, PTL

-----------------------------------------------------------------------------
(* RateLimit: what pruning leaves *)

LEMMA WindowNat == Window \in Nat /\ RateMax \in Nat /\ MaxClock \in Nat
<1>1. {Window, RateMax, MaxClock} \subseteq Nat
  BY RateAssumption
<1> QED BY <1>1

\* The index m is the first of x that counts at the time t.
FirstIn(x, t, m) ==
  /\ m \in 1..Len(x) /\ x[m] + Window >= t
  /\ \A i \in 1..Len(x) : x[i] + Window >= t => m <= i

\* What pruning leaves: nothing if nothing counts, else what starts with the first that does.
LEMMA PrunedNone ==
  ASSUME NEW x \in Seq(Nat), NEW t \in Nat, \A i \in 1..Len(x) : ~(x[i] + Window >= t)
  PROVE  Pruned(x, t) = <<>>
<1>1. {i \in 1..Len(x) : x[i] + Window >= t} = {}
  OBVIOUS
<1> QED BY <1>1, Zenon DEF Pruned
LEMMA PrunedFrom ==
  ASSUME NEW x \in Seq(Nat), NEW t \in Nat, NEW k \in 1..Len(x), x[k] + Window >= t
  PROVE  \E m : FirstIn(x, t, m) /\ Pruned(x, t) = SubSeq(x, m, Len(x))
<1> DEFINE in == {i \in 1..Len(x) : x[i] + Window >= t}
<1>1. in # {} /\ in \subseteq Nat
  OBVIOUS
<1>2. FirstIn(x, t, Min(in))
  <2>1. \E m \in in : \A i \in in : m <= i
    BY <1>1, LeastNat, Zenon
  <2>2. Min(in) \in in /\ \A i \in in : Min(in) <= i
    <3> HIDE DEF in
    <3> QED BY <2>1, Zenon DEF Min
  <2> QED BY <2>2 DEF FirstIn
<1>3. Pruned(x, t) = SubSeq(x, Min(in), Len(x))
  BY <1>1, Zenon DEF Pruned
<1> QED BY <1>2, <1>3, Zenon

\* The part of a sequence from m on, and the part of that.
LEMMA Rest ==
  ASSUME NEW x \in Seq(Nat), NEW m \in 1..Len(x)
  PROVE  /\ SubSeq(x, m, Len(x)) \in Seq(Nat)
         /\ Len(SubSeq(x, m, Len(x))) = Len(x) - m + 1
         /\ \A i \in 1..(Len(x) - m + 1) : SubSeq(x, m, Len(x))[i] = x[m + i - 1]
  BY SubSeqProperties
LEMMA RestOfRest ==
  ASSUME NEW x \in Seq(Nat), NEW m \in 1..Len(x), NEW k \in 1..(Len(x) - m + 1)
  PROVE  SubSeq(SubSeq(x, m, Len(x)), k, Len(SubSeq(x, m, Len(x)))) = SubSeq(x, m + k - 1, Len(x))
<1> DEFINE y == SubSeq(x, m, Len(x))
           z == SubSeq(y, k, Len(y))
           w == SubSeq(x, m + k - 1, Len(x))
<1>1. /\ y \in Seq(Nat) /\ Len(y) = Len(x) - m + 1
      /\ \A i \in 1..(Len(x) - m + 1) : y[i] = x[m + i - 1]
  BY Rest
<1>2. m + k - 1 \in 1..Len(x) /\ Len(x) \in Nat /\ m \in Nat /\ k \in Nat
  OBVIOUS
<1>3. /\ w \in Seq(Nat) /\ Len(w) = Len(x) - (m + k - 1) + 1
      /\ \A i \in 1..(Len(x) - (m + k - 1) + 1) : w[i] = x[m + k - 1 + i - 1]
  BY <1>2, Rest
<1> HIDE DEF y, w
<1>4. k \in 1..Len(y)
  BY <1>1
<1>5. /\ z \in Seq(Nat) /\ Len(z) = Len(y) - k + 1
      /\ \A i \in 1..(Len(y) - k + 1) : z[i] = y[k + i - 1]
  BY <1>1, <1>4, Rest
<1> HIDE DEF z
<1>6. Len(z) = Len(w)
  BY <1>1, <1>2, <1>3, <1>5
<1>7. ASSUME NEW i \in 1..Len(z) PROVE z[i] = w[i]
  <2>1. i \in 1..(Len(y) - k + 1) /\ i \in 1..(Len(x) - (m + k - 1) + 1) /\ k + i - 1 \in 1..(Len(x) - m + 1)
    BY <1>1, <1>2, <1>3, <1>5
  <2>2. z[i] = y[k + i - 1] /\ y[k + i - 1] = x[m + (k + i - 1) - 1] /\ w[i] = x[m + k - 1 + i - 1]
    BY <2>1, <1>1, <1>3, <1>5
  <2>3. m + (k + i - 1) - 1 = m + k - 1 + i - 1
    BY <1>2
  <2> QED BY <2>2, <2>3
<1>8. z = w
  BY <1>3, <1>5, <1>6, <1>7, SeqEqual
<1> QED BY <1>8 DEF y, z, w

LEMMA NonePruned == \A t \in Nat : Pruned(<<>>, t) = <<>>
<1> SUFFICES ASSUME NEW t \in Nat PROVE Pruned(<<>>, t) = <<>>
  OBVIOUS
<1>1. <<>> \in Seq(Nat) /\ \A i \in 1..Len(<<>>) : ~(<<>>[i] + Window >= t)
  OBVIOUS
<1> QED BY <1>1, PrunedNone

\* To prune again later is to prune later.
LEMMA PrunedTwice ==
  ASSUME NEW x \in Seq(Nat), NEW t \in Nat, NEW u \in Nat, t <= u
  PROVE  Pruned(Pruned(x, t), u) = Pruned(x, u)
<1> USE WindowNat
<1>1. CASE \A i \in 1..Len(x) : ~(x[i] + Window >= t)
  <2>1. \A i \in 1..Len(x) : ~(x[i] + Window >= u)
    BY <1>1
  <2> QED BY <1>1, <2>1, PrunedNone, NonePruned
<1>2. ASSUME NEW k \in 1..Len(x), x[k] + Window >= t PROVE Pruned(Pruned(x, t), u) = Pruned(x, u)
  <2>1. PICK m : FirstIn(x, t, m) /\ Pruned(x, t) = SubSeq(x, m, Len(x))
    BY <1>2, PrunedFrom
  <2>2. m \in 1..Len(x)
    BY <2>1 DEF FirstIn
  <2> DEFINE y == SubSeq(x, m, Len(x))
  <2>3. /\ y \in Seq(Nat) /\ Len(y) = Len(x) - m + 1
        /\ \A i \in 1..(Len(x) - m + 1) : y[i] = x[m + i - 1]
    BY <2>2, Rest
  <2>4. CASE \A i \in 1..Len(x) : ~(x[i] + Window >= u)
    <3>1. Pruned(x, u) = <<>>
      BY <2>4, PrunedNone
    <3> HIDE DEF y
    <3>2. ASSUME NEW i \in 1..Len(y) PROVE ~(y[i] + Window >= u)
      <4>1. i \in 1..(Len(x) - m + 1) /\ m + i - 1 \in 1..Len(x)
        BY <2>2, <2>3
      <4> QED BY <4>1, <2>3, <2>4
    <3>3. Pruned(y, u) = <<>>
      BY <3>2, <2>3, PrunedNone
    <3> QED BY <3>1, <3>3, <2>1 DEF y
  <2>5. ASSUME NEW j \in 1..Len(x), x[j] + Window >= u PROVE Pruned(Pruned(x, t), u) = Pruned(x, u)
    <3>1. PICK n : FirstIn(x, u, n) /\ Pruned(x, u) = SubSeq(x, n, Len(x))
      BY <2>5, PrunedFrom
    <3>2. n \in 1..Len(x) /\ x[n] + Window >= u /\ x[n] \in Nat
      <4>1. n \in 1..Len(x) /\ x[n] + Window >= u
        BY <3>1 DEF FirstIn
      <4> QED BY <4>1
    <3>3. m <= n
      <4>1. x[n] + Window >= t
        BY <3>2
      <4> QED BY <4>1, <3>2, <2>1 DEF FirstIn
    <3> HIDE DEF y
    <3> DEFINE l == n - m + 1
    <3>4. l \in 1..Len(y) /\ m + l - 1 = n /\ l \in 1..(Len(x) - m + 1)
      BY <2>2, <2>3, <3>2, <3>3
    <3>5. y[l] = x[n]
      BY <3>4, <2>3
    <3> HIDE DEF l
    <3>6. y[l] + Window >= u
      BY <3>5, <3>2
    <3>7. PICK k1 : FirstIn(y, u, k1) /\ Pruned(y, u) = SubSeq(y, k1, Len(y))
      BY <3>4, <3>6, <2>3, PrunedFrom
    <3>8. k1 \in 1..Len(y) /\ k1 <= l /\ y[k1] + Window >= u
      BY <3>7, <3>4, <3>6 DEF FirstIn
    <3>9. m + k1 - 1 \in 1..Len(x) /\ k1 \in 1..(Len(x) - m + 1)
      BY <3>8, <2>2, <2>3
    <3>10. n <= m + k1 - 1
      <4>1. x[m + k1 - 1] + Window >= u
        BY <3>8, <3>9, <2>3
      <4> QED BY <4>1, <3>9, <3>1 DEF FirstIn
    <3>11. m + k1 - 1 = n
      BY <3>10, <3>8, <3>4, <3>2, <2>2
    <3>12. SubSeq(y, k1, Len(y)) = SubSeq(x, n, Len(x))
      BY <3>11, <3>9, <2>2, RestOfRest DEF y
    <3> QED BY <3>12, <3>7, <3>1, <2>1 DEF y
  <2> QED BY <2>4, <2>5
<1> QED BY <1>1, <1>2

\* What pruning leaves is a part of the bucket: its times were in it, in the same order.
LEMMA PrunedPart ==
  ASSUME NEW x \in Seq(Nat), NEW t \in Nat
  PROVE  /\ Pruned(x, t) \in Seq(Nat) /\ Len(Pruned(x, t)) <= Len(x)
         /\ \E d \in Nat : \A i \in 1..Len(Pruned(x, t)) :
              i + d \in 1..Len(x) /\ Pruned(x, t)[i] = x[i + d]
<1>1. CASE \A i \in 1..Len(x) : ~(x[i] + Window >= t)
  <2>1. Pruned(x, t) = <<>>
    BY <1>1, PrunedNone
  <2>2. /\ <<>> \in Seq(Nat) /\ Len(<<>>) <= Len(x) /\ 0 \in Nat
        /\ \A i \in 1..Len(<<>>) : i + 0 \in 1..Len(x) /\ <<>>[i] = x[i + 0]
    OBVIOUS
  <2> QED BY <2>1, <2>2, Zenon
<1>2. ASSUME NEW k \in 1..Len(x), x[k] + Window >= t
      PROVE  /\ Pruned(x, t) \in Seq(Nat) /\ Len(Pruned(x, t)) <= Len(x)
             /\ \E d \in Nat : \A i \in 1..Len(Pruned(x, t)) :
                  i + d \in 1..Len(x) /\ Pruned(x, t)[i] = x[i + d]
  <2>1. PICK m : FirstIn(x, t, m) /\ Pruned(x, t) = SubSeq(x, m, Len(x))
    BY <1>2, PrunedFrom
  <2>2. m \in 1..Len(x)
    BY <2>1 DEF FirstIn
  <2> DEFINE y == Pruned(x, t)
  <2>3. /\ y \in Seq(Nat) /\ Len(y) = Len(x) - m + 1
        /\ \A i \in 1..(Len(x) - m + 1) : y[i] = x[m + i - 1]
    BY <2>1, <2>2, Rest
  <2> HIDE DEF y
  <2>4. m - 1 \in Nat /\ Len(y) <= Len(x)
    BY <2>2, <2>3
  <2>5. ASSUME NEW i \in 1..Len(y) PROVE i + (m - 1) \in 1..Len(x) /\ y[i] = x[i + (m - 1)]
    <3>1. i \in 1..(Len(x) - m + 1) /\ i + (m - 1) = m + i - 1 /\ m + i - 1 \in 1..Len(x)
      BY <2>2, <2>3
    <3>2. y[i] = x[m + i - 1]
      BY <3>1, <2>3
    <3> QED BY <3>1, <3>2
  <2> QED BY <2>3, <2>4, <2>5 DEF y
<1> QED BY <1>1, <1>2

LEMMA UpToNext ==
  ASSUME NEW k \in Nat
  PROVE  \A i : i \in 1..(k + 1) <=> i \in 1..k \/ i = k + 1
OBVIOUS

\* A sequence with one number more.
LEMMA OneMore ==
  ASSUME NEW z \in Seq(Nat), NEW n \in Nat
  PROVE  /\ Append(z, n) \in Seq(Nat) /\ Len(Append(z, n)) = Len(z) + 1 /\ Len(z) \in Nat
         /\ Append(z, n)[Len(z) + 1] = n
         /\ \A i \in 1..Len(z) : Append(z, n)[i] = z[i]
BY SMTT(60)

\* One time more: what is left then follows from what was left before.
LEMMA PrunedAppend ==
  ASSUME NEW x \in Seq(Nat), NEW y \in Seq(Nat), NEW n \in Nat, NEW t \in Nat,
         Pruned(x, t) = Pruned(y, t)
  PROVE  Pruned(Append(x, n), t) = Pruned(Append(y, n), t)
<1> DEFINE After(p) == IF p = <<>> /\ ~(n + Window >= t) THEN <<>> ELSE Append(p, n)
<1>1. ASSUME NEW z \in Seq(Nat) PROVE Pruned(Append(z, n), t) = After(Pruned(z, t))
  <2> DEFINE a == Append(z, n)
  <2>1. /\ a \in Seq(Nat) /\ Len(a) = Len(z) + 1 /\ Len(z) \in Nat /\ a[Len(z) + 1] = n
        /\ \A i \in 1..Len(z) : a[i] = z[i]
    BY OneMore, Zenon
  <2> HIDE DEF a
  <2>2. \A i : i \in 1..Len(a) <=> i \in 1..Len(z) \/ i = Len(z) + 1
    BY <2>1, UpToNext, Zenon
  <2>3. CASE \A i \in 1..Len(z) : ~(z[i] + Window >= t)
    <3>1. Pruned(z, t) = <<>>
      BY <2>3, PrunedNone
    <3>2. CASE ~(n + Window >= t)
      <4>1. \A i \in 1..Len(a) : ~(a[i] + Window >= t)
        BY <2>1, <2>2, <2>3, <3>2
      <4>2. Pruned(a, t) = <<>>
        BY <4>1, <2>1, PrunedNone
      <4> QED BY <3>1, <3>2, <4>2 DEF a
    <3>3. CASE n + Window >= t
      <4>1. Len(a) \in 1..Len(a) /\ a[Len(a)] = n
        BY <2>1
      <4>2. PICK m : FirstIn(a, t, m) /\ Pruned(a, t) = SubSeq(a, m, Len(a))
        BY <4>1, <3>3, <2>1, PrunedFrom
      <4>3. m \in 1..Len(a) /\ a[m] + Window >= t
        BY <4>2 DEF FirstIn
      <4>4. m = Len(a)
        BY <4>3, <2>1, <2>2, <2>3
      <4> DEFINE w == SubSeq(a, m, Len(a))
      <4>5. /\ w \in Seq(Nat) /\ Len(w) = Len(a) - m + 1
            /\ \A i \in 1..(Len(a) - m + 1) : w[i] = a[m + i - 1]
        BY <4>3, <2>1, Rest
      <4> HIDE DEF w
      <4>6. Len(w) = 1 /\ w[1] = n
        <5>1. Len(a) - m + 1 = 1 /\ m + 1 - 1 = Len(a)
          BY <4>4, <2>1
        <5>2. 1 \in 1..(Len(a) - m + 1)
          BY <5>1
        <5> QED BY <5>1, <5>2, <4>1, <4>5
      <4>7. <<n>> \in Seq(Nat) /\ Len(<<n>>) = 1 /\ <<n>>[1] = n
        OBVIOUS
      <4>8. w = <<n>>
        <5>1. \A i \in 1..Len(w) : w[i] = <<n>>[i]
          BY <4>6, <4>7
        <5> QED BY <5>1, <4>5, <4>6, <4>7, SeqEqual
      <4>9. Append(<<>>, n) = <<n>>
        OBVIOUS
      <4> QED BY <4>2, <4>8, <4>9, <3>1, <3>3 DEF w, a
    <3> QED BY <3>2, <3>3
  <2>4. ASSUME NEW k \in 1..Len(z), z[k] + Window >= t PROVE Pruned(a, t) = After(Pruned(z, t))
    <3>1. PICK m : FirstIn(z, t, m) /\ Pruned(z, t) = SubSeq(z, m, Len(z))
      BY <2>4, PrunedFrom
    <3>2. m \in 1..Len(z) /\ z[m] + Window >= t /\ \A i \in 1..Len(z) : z[i] + Window >= t => m <= i
      BY <3>1 DEF FirstIn
    <3>3. k \in 1..Len(a) /\ a[k] + Window >= t
      BY <2>1, <2>2, <2>4
    <3>4. PICK l : FirstIn(a, t, l) /\ Pruned(a, t) = SubSeq(a, l, Len(a))
      BY <3>3, <2>1, PrunedFrom
    <3>5. l \in 1..Len(a) /\ a[l] + Window >= t /\ \A i \in 1..Len(a) : a[i] + Window >= t => l <= i
      BY <3>4 DEF FirstIn
    <3>6. l = m
      <4>1. m \in 1..Len(a) /\ a[m] + Window >= t
        BY <3>2, <2>1, <2>2
      <4>2. l <= m
        BY <4>1, <3>5
      <4>3. l \in 1..Len(z)
        BY <4>2, <3>2, <3>5, <2>1
      <4>5. a[l] = z[l] /\ z[l] + Window >= t
        BY <4>3, <3>5, <2>1
      <4>4. m <= l
        BY <4>3, <4>5, <3>2
      <4> QED BY <4>2, <4>4, <3>2, <4>3
    <3> DEFINE u == SubSeq(a, m, Len(a))
               v == SubSeq(z, m, Len(z))
    <3>7. /\ u \in Seq(Nat) /\ Len(u) = Len(a) - m + 1
          /\ \A i \in 1..(Len(a) - m + 1) : u[i] = a[m + i - 1]
      BY <3>5, <3>6, <2>1, Rest
    <3>8. /\ v \in Seq(Nat) /\ Len(v) = Len(z) - m + 1
          /\ \A i \in 1..(Len(z) - m + 1) : v[i] = z[m + i - 1]
      BY <3>2, Rest
    <3> HIDE DEF u, v
    <3> DEFINE w == Append(v, n)
    <3>9. /\ w \in Seq(Nat) /\ Len(w) = Len(v) + 1 /\ w[Len(v) + 1] = n
          /\ \A i \in 1..Len(v) : w[i] = v[i]
      BY <3>8
    <3> HIDE DEF w
    <3>10. Len(u) = Len(w)
      BY <3>2, <3>7, <3>8, <3>9, <2>1
    <3>11. ASSUME NEW i \in 1..Len(u) PROVE u[i] = w[i]
      <4>1. u[i] = a[m + i - 1]
        BY <3>7
      <4>2. CASE i \in 1..Len(v)
        <5>1. m + i - 1 \in 1..Len(z) /\ i \in 1..(Len(z) - m + 1)
          BY <4>2, <3>2, <3>8, <2>1
        <5>2. w[i] = v[i] /\ v[i] = z[m + i - 1] /\ a[m + i - 1] = z[m + i - 1]
          BY <5>1, <4>2, <3>8, <3>9, <2>1
        <5> QED BY <4>1, <5>2
      <4>3. CASE i = Len(v) + 1
        <5>1. m + i - 1 = Len(z) + 1
          BY <4>3, <3>2, <3>8, <2>1
        <5> QED BY <5>1, <4>1, <4>3, <3>9, <2>1
      <4>4. i \in 1..Len(v) \/ i = Len(v) + 1
        BY <3>8, <3>9, <3>10
      <4> QED BY <4>2, <4>3, <4>4
    <3>12. u = w
      BY <3>7, <3>9, <3>10, <3>11, SeqEqual
    <3>13. v # <<>>
      BY <3>2, <3>8, <2>1
    <3> QED BY <3>1, <3>4, <3>6, <3>12, <3>13 DEF u, v, w
  <2> QED BY <2>3, <2>4 DEF a
<1> HIDE DEF After
<1> QED BY <1>1

-----------------------------------------------------------------------------
(* RateLimit: a bucket and what was let through *)

\* At the time t, with handlers that were held up for g at most: a bucket h holds
\* RateMax times at most, a time in it is at most g older than those before it, and
\* what counts in it, less g, is what counts of the times a that were let through.
Near(x, t, g) == /\ \A i \in 1..Len(x) : x[i] <= t
                 /\ \A i, j \in 1..Len(x) : i <= j => x[i] <= x[j] + g
Bucket(h, a, t, g) == /\ h \in Seq(Nat) /\ a \in Seq(Nat) /\ Len(h) <= RateMax
                      /\ Near(h, t, g)
                      /\ Pruned(h, t + g) = Pruned(a, t + g)

LEMMA BucketKept ==
  ASSUME NEW t \in Nat, NEW g \in Nat, NEW u \in Nat, NEW k \in Nat, t <= u, g <= k,
         NEW h, NEW a, Bucket(h, a, t, g)
  PROVE  Bucket(h, a, u, k)
<1>1. h \in Seq(Nat) /\ a \in Seq(Nat) /\ Len(h) <= RateMax /\ Near(h, t, g)
  BY DEF Bucket
<1>2. t + g \in Nat /\ u + k \in Nat /\ t + g <= u + k
  OBVIOUS
<1>3. Pruned(h, t + g) = Pruned(a, t + g)
  BY DEF Bucket
<1>4. Pruned(h, u + k) = Pruned(a, u + k)
  <2>1. Pruned(Pruned(h, t + g), u + k) = Pruned(h, u + k)
    BY <1>1, <1>2, PrunedTwice
  <2>2. Pruned(Pruned(a, t + g), u + k) = Pruned(a, u + k)
    BY <1>1, <1>2, PrunedTwice
  <2> QED BY <1>3, <2>1, <2>2, Zenon
<1>5. \A i \in 1..Len(h) : h[i] \in Nat
  BY <1>1
<1>6. Near(h, u, k)
  <2>1. ASSUME NEW i \in 1..Len(h) PROVE h[i] <= u
    <3>1. h[i] \in Nat /\ h[i] <= t
      BY <1>1, <1>5, Zenon DEF Near
    <3> QED BY <3>1
  <2>2. ASSUME NEW i \in 1..Len(h), NEW j \in 1..Len(h), i <= j PROVE h[i] <= h[j] + k
    <3>1. h[i] \in Nat /\ h[j] \in Nat /\ h[i] <= h[j] + g
      BY <1>1, <1>5, <2>2, Zenon DEF Near
    <3> QED BY <3>1
  <2> QED BY <2>1, <2>2, Zenon DEF Near
<1> QED BY <1>1, <1>4, <1>6, Zenon DEF Bucket

LEMMA BucketPruned ==
  ASSUME NEW t \in Nat, NEW g \in Nat, NEW n \in Nat, n <= t, NEW h, NEW a, Bucket(h, a, t, g)
  PROVE  Bucket(Pruned(h, n), a, t, g)
<1>1. h \in Seq(Nat) /\ a \in Seq(Nat) /\ Len(h) <= RateMax /\ Near(h, t, g)
  BY DEF Bucket
<1> DEFINE p == Pruned(h, n)
<1>2. p \in Seq(Nat) /\ Len(p) <= Len(h)
  BY <1>1, PrunedPart
<1>3. PICK d \in Nat : \A i \in 1..Len(p) : i + d \in 1..Len(h) /\ p[i] = h[i + d]
  BY <1>1, PrunedPart
<1>4. Pruned(p, t + g) = Pruned(a, t + g)
  <2>1. t + g \in Nat /\ n <= t + g
    OBVIOUS
  <2>2. Pruned(p, t + g) = Pruned(h, t + g)
    BY <1>1, <2>1, PrunedTwice
  <2> QED BY <2>2, Zenon DEF Bucket
<1> HIDE DEF p
<1>5. Near(p, t, g)
  <2>1. ASSUME NEW i \in 1..Len(p) PROVE p[i] <= t
    BY <1>1, <1>3 DEF Near
  <2>2. ASSUME NEW i \in 1..Len(p), NEW j \in 1..Len(p), i <= j PROVE p[i] <= p[j] + g
    <3>1. i + d \in 1..Len(h) /\ j + d \in 1..Len(h) /\ i + d <= j + d
      BY <1>3, <2>2
    <3>2. h[i + d] <= h[j + d] + g
      BY <3>1, <1>1 DEF Near
    <3>3. p[i] = h[i + d] /\ p[j] = h[j + d]
      BY <1>3
    <3> QED BY <3>2, <3>3
  <2> QED BY <2>1, <2>2 DEF Near
<1>6. Len(p) <= RateMax
  BY <1>1, <1>2, WindowNat
<1> QED BY <1>1, <1>2, <1>4, <1>5, <1>6, Zenon DEF Bucket, p

LEMMA BucketAdds ==
  ASSUME NEW t \in Nat, NEW g \in Nat, NEW n \in Nat, n <= t, t <= n + g,
         NEW h, NEW a, Bucket(h, a, t, g), Len(h) < RateMax
  PROVE  Bucket(Append(h, n), Append(a, n), t, g)
<1>1. h \in Seq(Nat) /\ a \in Seq(Nat) /\ Near(h, t, g) /\ Pruned(h, t + g) = Pruned(a, t + g)
  BY DEF Bucket
<1>2. t + g \in Nat
  OBVIOUS
<1>3. Pruned(Append(h, n), t + g) = Pruned(Append(a, n), t + g)
  BY <1>1, <1>2, PrunedAppend
<1>4. Append(a, n) \in Seq(Nat)
  BY <1>1
<1> DEFINE y == Append(h, n)
<1>5. /\ y \in Seq(Nat) /\ Len(y) = Len(h) + 1 /\ Len(h) \in Nat /\ y[Len(h) + 1] = n
      /\ \A i \in 1..Len(h) : y[i] = h[i] /\ h[i] \in Nat
  BY <1>1
<1> HIDE DEF y
<1>6. \A i \in 1..Len(y) : i \in 1..Len(h) \/ i = Len(h) + 1
  BY <1>5
<1>7. \A i \in 1..Len(y) : y[i] <= t /\ y[i] \in Nat
  BY <1>1, <1>5, <1>6 DEF Near
<1>8. ASSUME NEW i \in 1..Len(y), NEW j \in 1..Len(y), i <= j PROVE y[i] <= y[j] + g
  <2>1. CASE j = Len(h) + 1
    BY <2>1, <1>5, <1>7
  <2>2. CASE j \in 1..Len(h)
    <3>1. i \in 1..Len(h)
      BY <2>2, <1>6, <1>8, <1>5
    <3> QED BY <3>1, <2>2, <1>1, <1>5, <1>8 DEF Near
  <2> QED BY <2>1, <2>2, <1>6
<1>9. Near(y, t, g)
  BY <1>7, <1>8 DEF Near
<1>10. Len(y) <= RateMax
  BY <1>5, WindowNat
<1> QED BY <1>3, <1>4, <1>5, <1>9, <1>10, Zenon DEF Bucket, y

\* A bucket whose last time is out of the window: so are the others, less g.
LEMMA BucketThrown ==
  ASSUME NEW t \in Nat, NEW g \in Nat, NEW n \in Nat, n <= t,
         NEW h, NEW a, Bucket(h, a, t, g), Stale(h, n)
  PROVE  Bucket(<<>>, a, t, g)
<1> USE WindowNat
<1>1. h \in Seq(Nat) /\ a \in Seq(Nat) /\ Near(h, t, g) /\ Pruned(h, t + g) = Pruned(a, t + g)
  BY DEF Bucket
<1>2. h # <<>> /\ h[Len(h)] + Window < n
  BY DEF Stale
<1>3. Len(h) \in 1..Len(h) /\ \A i \in 1..Len(h) : i <= Len(h) /\ h[i] \in Nat
  BY <1>1, <1>2
<1>4. \A i \in 1..Len(h) : h[i] <= h[Len(h)] + g
  BY <1>1, <1>3, Zenon DEF Near
<1>5. t + g \in Nat /\ \A i \in 1..Len(h) : ~(h[i] + Window >= t + g)
  BY <1>2, <1>3, <1>4
<1>6. Pruned(h, t + g) = <<>>
  BY <1>1, <1>5, PrunedNone
<1>7. Pruned(<<>>, t + g) = <<>>
  BY <1>5, NonePruned
<1>8. <<>> \in Seq(Nat) /\ Len(<<>>) <= RateMax /\ Near(<<>>, t, g)
  BY DEF Near
<1> QED BY <1>1, <1>6, <1>7, <1>8, Zenon DEF Bucket

\* What does not count any more is forgotten.
LEMMA BucketForgets ==
  ASSUME NEW t \in Nat, NEW g \in Nat, NEW h, NEW a, Bucket(h, a, t, g)
  PROVE  Bucket(h, Pruned(a, t), t, g)
<1>1. a \in Seq(Nat) /\ t + g \in Nat /\ t <= t + g
  BY DEF Bucket
<1>2. Pruned(Pruned(a, t), t + g) = Pruned(a, t + g)
  BY <1>1, PrunedTwice
<1>3. Pruned(a, t) \in Seq(Nat)
  BY <1>1, PrunedPart
<1> QED BY <1>2, <1>3, Zenon DEF Bucket

-----------------------------------------------------------------------------
(* RateLimit: the steps *)

Buckets == \A ip \in Ip : Bucket(hits[ip], admitted[ip], time, lag)
Clocks  == \A h \in Handler : clock[h] <= time
RateInv == LimitTypeOK /\ Clocks /\ Buckets

LEMMA RateTypes ==
  ASSUME RateInv
  PROVE  /\ time \in Nat /\ time \in 0..MaxClock /\ lag \in Nat /\ Buckets /\ Clocks
         /\ hits \in [Ip -> Seq(Nat)] /\ admitted \in [Ip -> Seq(Nat)]
         /\ doing \in [Handler -> {"idle", "limit", "clean", "sweep"}]
         /\ clock \in [Handler -> Nat] /\ \A h \in Handler : clock[h] \in Nat
<1>1. time \in 0..MaxClock /\ clock \in [Handler -> Nat]
  BY DEF RateInv, LimitTypeOK
<1>2. time \in Nat /\ \A h \in Handler : clock[h] \in Nat
  BY <1>1
<1> QED BY <1>1, <1>2, Zenon DEF RateInv, LimitTypeOK

LEMMA RateStart == LimitInit => RateInv
<1> SUFFICES ASSUME LimitInit PROVE RateInv
  OBVIOUS
<1>1. Bucket(<<>>, <<>>, 0, 0)
  BY WindowNat DEF Bucket, Near
<1>2. Buckets
  <2>1. \A ip \in Ip : hits[ip] = <<>> /\ admitted[ip] = <<>>
    BY DEF LimitInit
  <2>2. time = 0 /\ lag = 0
    BY DEF LimitInit
  <2> QED BY <1>1, <2>1, <2>2, Zenon DEF Buckets
<1>3. LimitTypeOK /\ Clocks
  BY WindowNat DEF LimitInit, LimitTypeOK, Clocks
<1> QED BY <1>2, <1>3 DEF RateInv

LEMMA RatePasses == ASSUME RateInv, TimePasses PROVE RateInv'
<1>0. /\ time \in Nat /\ lag \in Nat /\ Buckets /\ Clocks /\ hits \in [Ip -> Seq(Nat)]
      /\ admitted \in [Ip -> Seq(Nat)] /\ clock \in [Handler -> Nat]
  BY RateTypes
<1>1. /\ time < MaxClock /\ time' = time + 1 /\ time' \in Nat /\ time <= time' /\ time' \in 0..MaxClock
      /\ admitted' = [ip \in Ip |-> Pruned(admitted[ip], time')]
      /\ UNCHANGED <<hits, doing, clock, lag>>
  BY <1>0, WindowNat DEF TimePasses
<1>2. ASSUME NEW ip \in Ip PROVE Bucket(hits'[ip], admitted'[ip], time', lag')
  <2>1. Bucket(hits[ip], admitted[ip], time, lag)
    BY <1>0, Zenon DEF Buckets
  <2>2. lag <= lag
    BY <1>0
  <2>3. Bucket(hits[ip], admitted[ip], time', lag)
    BY <1>0, <1>1, <2>1, <2>2, BucketKept
  <2>4. Bucket(hits[ip], Pruned(admitted[ip], time'), time', lag)
    BY <1>0, <1>1, <2>3, BucketForgets
  <2>5. admitted'[ip] = Pruned(admitted[ip], time') /\ hits'[ip] = hits[ip] /\ lag' = lag
    BY <1>1, Zenon
  <2> QED BY <2>4, <2>5, Zenon
<1>3. Buckets'
  BY <1>2, Zenon DEF Buckets, Bucket, Near, Pruned
<1>4. Clocks'
  BY <1>0, <1>1 DEF Clocks
<1>5. LimitTypeOK'
  <2>1. \A ip \in Ip : Pruned(admitted[ip], time') \in Seq(Nat)
    <3>1. \A ip \in Ip : admitted[ip] \in Seq(Nat)
      BY <1>0
    <3> QED BY <3>1, <1>1, PrunedPart
  <2>2. admitted' \in [Ip -> Seq(Nat)]
    BY <2>1, <1>1, Zenon
  <2>3. LimitTypeOK
    BY DEF RateInv
  <2> QED BY <2>2, <2>3, <1>1, Zenon DEF LimitTypeOK
<1> QED BY <1>3, <1>4, <1>5 DEF RateInv

\* A handler's step, which leaves the clock of the relay alone.
LEMMA HandlerStep ==
  ASSUME RateInv, time' = time, lag' \in Nat,
         NEW h \in Handler, NEW d \in {"idle", "limit", "clean", "sweep"}, NEW n \in Nat, n <= time,
         doing' = [doing EXCEPT ![h] = d], clock' = [clock EXCEPT ![h] = n],
         hits' \in [Ip -> Seq(Nat)], admitted' \in [Ip -> Seq(Nat)],
         \A ip \in Ip : Bucket(hits'[ip], admitted'[ip], time, lag')
  PROVE  RateInv'
<1>0. /\ time \in 0..MaxClock /\ Clocks /\ clock \in [Handler -> Nat]
      /\ doing \in [Handler -> {"idle", "limit", "clean", "sweep"}]
  BY RateTypes
<1>1. Buckets'
  BY Zenon DEF Buckets, Bucket, Near, Pruned
<1>2. Clocks'
  BY <1>0 DEF Clocks
<1>3. doing' \in [Handler -> {"idle", "limit", "clean", "sweep"}] /\ clock' \in [Handler -> Nat]
  BY <1>0
<1>4. LimitTypeOK'
  BY <1>0, <1>3, Zenon DEF LimitTypeOK
<1> QED BY <1>1, <1>2, <1>4 DEF RateInv

LEMMA RateReads == ASSUME RateInv, NEW h \in Handler, ReadsClock(h) PROVE RateInv'
<1>0. /\ time \in Nat /\ lag \in Nat /\ Buckets
      /\ hits \in [Ip -> Seq(Nat)] /\ admitted \in [Ip -> Seq(Nat)]
  BY RateTypes
<1>1. PICK d \in {"limit", "sweep"} : doing' = [doing EXCEPT ![h] = d]
  BY DEF ReadsClock, Goes
<1>2. /\ clock' = [clock EXCEPT ![h] = time]
      /\ time' = time /\ hits' = hits /\ admitted' = admitted /\ lag' = lag
  BY DEF ReadsClock
<1>3. time <= time
  BY <1>0
<1>4. \A ip \in Ip : Bucket(hits'[ip], admitted'[ip], time, lag')
  BY <1>0, <1>2, Zenon DEF Buckets
<1> QED BY <1>0, <1>1, <1>2, <1>3, <1>4, HandlerStep

\* The larger of two numbers.
LEMMA MaxOfTwo ==
  ASSUME NEW a \in Nat, NEW b \in Nat
  PROVE  Max({a, b}) \in Nat /\ a <= Max({a, b}) /\ b <= Max({a, b})
<1>1. \E x \in {a, b} : \A y \in {a, b} : x >= y
  OBVIOUS
<1>2. Max({a, b}) \in {a, b} /\ \A y \in {a, b} : Max({a, b}) >= y
  BY <1>1, Zenon DEF Max
<1> HIDE DEF Max
<1> QED BY <1>2

LEMMA AtMostSum ==
  ASSUME NEW a \in Nat, NEW b \in Nat, NEW c \in Nat, a - b <= c
  PROVE  a <= b + c /\ a <= a
OBVIOUS

LEMMA RateLimited == ASSUME RateInv, NEW h \in Handler, Limited(h) PROVE RateInv'
<1>0. /\ time \in Nat /\ lag \in Nat /\ Buckets /\ clock[h] \in Nat /\ clock[h] <= time
      /\ hits \in [Ip -> Seq(Nat)] /\ admitted \in [Ip -> Seq(Nat)]
  BY RateTypes DEF Clocks
<1>1. PICK ip \in Ip : Let(h, ip) \/ Refuse(h, ip)
  BY DEF Limited
<1>2. clock' = [clock EXCEPT ![h] = 0] /\ time' = time
  BY DEF Limited
<1> DEFINE p == Pruned(hits[ip], clock[h])
<1>3. Bucket(hits[ip], admitted[ip], time, lag)
  BY <1>0, Zenon DEF Buckets
<1>4. Bucket(p, admitted[ip], time, lag)
  BY <1>0, <1>3, BucketPruned
<1>5. p \in Seq(Nat) /\ admitted[ip] \in Seq(Nat)
  BY <1>4, Zenon DEF Bucket
<1> HIDE DEF p
<1>8. 0 \in Nat /\ 0 <= time
  BY <1>0
<1>6. CASE Refuse(h, ip)
  <2>1. /\ hits' = [hits EXCEPT ![ip] = p] /\ doing' = [doing EXCEPT ![h] = "idle"]
        /\ admitted' = admitted /\ lag' = lag
    BY <1>6 DEF Refuse, Recent, Goes, p
  <2>2. hits' \in [Ip -> Seq(Nat)]
    BY <1>0, <1>5, <2>1
  <2>3. ASSUME NEW q \in Ip PROVE Bucket(hits'[q], admitted'[q], time, lag')
    <3>1. CASE q = ip
      <4>1. hits'[q] = p /\ admitted'[q] = admitted[ip]
        BY <3>1, <1>0, <2>1
      <4> QED BY <4>1, <1>4, <2>1, Zenon
    <3>2. CASE q # ip
      <4>1. hits'[q] = hits[q] /\ admitted'[q] = admitted[q]
        BY <3>2, <1>0, <2>1
      <4> QED BY <4>1, <1>0, <2>1, Zenon DEF Buckets
    <3> QED BY <3>1, <3>2
  <2>4. admitted' \in [Ip -> Seq(Nat)] /\ lag' \in Nat
    BY <1>0, <2>1
  <2> QED BY <1>2, <1>8, <2>1, <2>2, <2>3, <2>4, HandlerStep
<1>7. CASE Let(h, ip)
  <2> DEFINE n == clock[h]
  <2>1. /\ Len(p) < RateMax /\ hits' = [hits EXCEPT ![ip] = Append(p, n)]
        /\ admitted' = [admitted EXCEPT ![ip] = Append(admitted[ip], n)]
        /\ lag' = Max({lag, time - n})
    BY <1>7 DEF Let, Recent, p
  <2>2. PICK d \in {"idle", "clean"} : doing' = [doing EXCEPT ![h] = d]
    BY <1>7 DEF Let, Goes
  <2>3. n \in Nat /\ n <= time /\ time - n \in Nat
    BY <1>0
  <2> HIDE DEF n
  <2>4. lag' \in Nat /\ lag <= lag' /\ time - n <= lag'
    BY <1>0, <2>1, <2>3, MaxOfTwo
  <2>5. time <= n + lag' /\ time <= time
    <3>1. time \in Nat /\ n \in Nat /\ lag' \in Nat /\ time - n <= lag'
      BY <1>0, <2>3, <2>4, Zenon
    <3> QED BY <3>1, AtMostSum
  <2>6. Bucket(p, admitted[ip], time, lag')
    BY <1>0, <1>4, <2>4, <2>5, BucketKept
  <2>7. Bucket(Append(p, n), Append(admitted[ip], n), time, lag')
    BY <1>0, <2>1, <2>3, <2>4, <2>5, <2>6, BucketAdds
  <2>8. hits' \in [Ip -> Seq(Nat)] /\ admitted' \in [Ip -> Seq(Nat)]
    <3>1. Append(p, n) \in Seq(Nat) /\ Append(admitted[ip], n) \in Seq(Nat)
      BY <2>7, Zenon DEF Bucket
    <3> QED BY <3>1, <1>0, <2>1
  <2>9. ASSUME NEW q \in Ip PROVE Bucket(hits'[q], admitted'[q], time, lag')
    <3>1. CASE q = ip
      <4>1. hits'[q] = Append(p, n) /\ admitted'[q] = Append(admitted[ip], n)
        BY <3>1, <1>0, <2>1
      <4> QED BY <4>1, <2>7, Zenon
    <3>2. CASE q # ip
      <4>1. hits'[q] = hits[q] /\ admitted'[q] = admitted[q]
        BY <3>2, <1>0, <2>1
      <4>2. Bucket(hits[q], admitted[q], time, lag)
        BY <1>0, Zenon DEF Buckets
      <4>3. Bucket(hits[q], admitted[q], time, lag')
        BY <4>2, <1>0, <2>4, <2>5, BucketKept
      <4> QED BY <4>1, <4>3, Zenon
    <3> QED BY <3>1, <3>2
  <2> QED BY <1>2, <1>8, <2>2, <2>4, <2>8, <2>9, HandlerStep
<1> QED BY <1>1, <1>6, <1>7

LEMMA RateCleans == ASSUME RateInv, NEW h \in Handler, Cleans(h) PROVE RateInv'
<1>0. /\ time \in Nat /\ lag \in Nat /\ Buckets /\ clock[h] \in Nat /\ clock[h] <= time
      /\ hits \in [Ip -> Seq(Nat)] /\ admitted \in [Ip -> Seq(Nat)]
  BY RateTypes DEF Clocks
<1>1. /\ hits' = [ip \in Ip |-> IF Stale(hits[ip], clock[h]) THEN <<>> ELSE hits[ip]]
      /\ doing' = [doing EXCEPT ![h] = "idle"] /\ clock' = [clock EXCEPT ![h] = 0]
      /\ time' = time /\ admitted' = admitted /\ lag' = lag
  BY DEF Cleans, Goes
<1>2. ASSUME NEW ip \in Ip PROVE Bucket(hits'[ip], admitted'[ip], time, lag')
  <2>1. Bucket(hits[ip], admitted[ip], time, lag)
    BY <1>0, Zenon DEF Buckets
  <2>2. CASE Stale(hits[ip], clock[h])
    <3>1. Bucket(<<>>, admitted[ip], time, lag)
      BY <1>0, <2>1, <2>2, BucketThrown
    <3>2. hits'[ip] = <<>>
      BY <1>1, <2>2, Zenon
    <3> QED BY <3>1, <3>2, <1>1, Zenon
  <2>3. CASE ~Stale(hits[ip], clock[h])
    <3>1. hits'[ip] = hits[ip]
      BY <1>1, <2>3, Zenon
    <3> QED BY <3>1, <2>1, <1>1, Zenon
  <2> QED BY <2>2, <2>3
<1>3. hits' \in [Ip -> Seq(Nat)]
  <2>1. <<>> \in Seq(Nat)
    OBVIOUS
  <2> QED BY <2>1, <1>0, <1>1
<1>4. 0 \in Nat /\ 0 <= time /\ admitted' \in [Ip -> Seq(Nat)] /\ lag' \in Nat
  BY <1>0, <1>1
<1>5. \A ip \in Ip : Bucket(hits'[ip], admitted'[ip], time, lag')
  BY <1>1, <1>2, Zenon
<1> QED BY <1>1, <1>3, <1>4, <1>5, HandlerStep

LEMMA RateStep == RateInv /\ [LimitNext]_limitVars => RateInv'
<1> SUFFICES ASSUME RateInv, [LimitNext]_limitVars PROVE RateInv'
  OBVIOUS
<1>1. CASE UNCHANGED limitVars
  BY <1>1 DEF limitVars, RateInv, LimitTypeOK, Clocks, Buckets, Bucket, Near, Pruned
<1>2. ASSUME NEW h \in Handler, Serves(h) PROVE RateInv'
  BY <1>2, RateReads, RateLimited, RateCleans DEF Serves
<1> QED BY <1>1, <1>2, RatePasses DEF LimitNext

THEOREM RateAlways == LimitSpec => []RateInv
  BY RateStart, RateStep, PTL DEF LimitSpec

\* The relay's limit (relay/server.py, _rate_ok) lets no address through more than
\* RateMax times within a window less the longest that a handler was held up between
\* its clock and its lock, in whatever order handlers take the lock and whatever _clean
\* removes under them.
THEOREM RateHolds == LimitSpec => []RateHonest
<1>1. ASSUME RateInv, NEW ip \in Ip PROVE Len(Pruned(admitted[ip], time + lag)) <= RateMax
  <2>1. Bucket(hits[ip], admitted[ip], time, lag) /\ time \in Nat /\ lag \in Nat
    BY <1>1, RateTypes, Zenon DEF Buckets
  <2>2. hits[ip] \in Seq(Nat) /\ Len(hits[ip]) <= RateMax /\ time + lag \in Nat
    BY <2>1 DEF Bucket
  <2> DEFINE p == Pruned(hits[ip], time + lag)
  <2>3. p \in Seq(Nat) /\ Len(p) <= Len(hits[ip])
    BY <2>2, PrunedPart
  <2>4. p = Pruned(admitted[ip], time + lag)
    BY <2>1, Zenon DEF Bucket
  <2> HIDE DEF p
  <2>5. Len(p) <= RateMax
    BY <2>2, <2>3, WindowNat
  <2> QED BY <2>4, <2>5
<1>2. RateInv => RateHonest
  BY <1>1, Zenon DEF RateHonest
<1> QED BY <1>2, RateAlways, PTL
=============================================================================
