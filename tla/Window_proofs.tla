--------------------------- MODULE Window_proofs ---------------------------
(***************************************************************************)
(* For every number of tabs, saved sessions, ports and URLs: the SSH       *)
(* session that Connect opens is a saved one and the one shown, or one     *)
(* called like it, and a tab comes back with its target.  For every set of *)
(* names and every limit:                                                  *)
(* the chart, the event columns and the indicators show the channels that  *)
(* ask for it and no other.                                                *)
(***************************************************************************)
EXTENDS Toolbar, LineViews, SequenceTheorems, FiniteSetTheorems, WellFoundedInduction, TLAPS

-----------------------------------------------------------------------------
(* Toolbar: the strengthening *)

\* What a combo of that kind is when it has just been filled from the sessions ss:
\* the active session is saved, and its name is the one shown.
Honest(kind, text_, p, ss) ==
  kind = "SSH" => \A s \in ToSet(ss) : text_ = Label(s) => p.name = s.name
Filled(kind, c, ss) ==
  /\ c.items \in Seq(Texts) /\ c.text \in Texts /\ c.params \in Session \cup {NoSession}
  /\ c.params # NoSession => c.params \in ToSet(ss)
  /\ Honest(kind, c.text, c.params, ss)

NameShown ==
  transport = "SSH" /\ items = SshItems(sessions) /\ ~foreign
    => \A s \in ToSet(sessions) : text = Label(s) => params.name = s.name

IInv == TypeOK /\ OpensSaved /\ NameShown

-----------------------------------------------------------------------------
(* Sequences *)

\* A set of naturals that is not empty has a least element.
LEMMA LeastNat ==
  ASSUME NEW T, T \subseteq Nat, T # {}
  PROVE  \E x \in T : \A y \in T : x <= y
<1> DEFINE R == {r \in Nat \X Nat : r[1] < r[2]}
<1>1. IsWellFoundedOn(R, Nat)
  BY NatLessThanWellFounded, Zenon DEF OpToRel
<1>2. PICK x \in T : \A y \in T : ~(<<y, x>> \in R)
  BY <1>1, WFMin, Zenon
<1>3. ASSUME NEW y \in T, y < x PROVE <<y, x>> \in R
  BY <1>3
<1> HIDE DEF R
<1>4. \A y \in T : ~(y < x)
  BY <1>2, <1>3
<1> QED BY <1>4

LEMMA MinIs ==
  ASSUME NEW T, T \subseteq Nat, T # {}
  PROVE  Min(T) \in T
BY LeastNat DEF Min

\* The session called n is the first with the name, or there is none.
LEMMA NamedIs ==
  ASSUME NEW ss \in Seq(Session), NEW n
  PROVE  \/ Named(ss, n) = 0 /\ \A i \in 1..Len(ss) : ss[i].name # n
         \/ Named(ss, n) \in 1..Len(ss) /\ Named(ss, n) # 0 /\ ss[Named(ss, n)].name = n
<1> DEFINE T == {i \in 1..Len(ss) : ss[i].name = n}
<1>1. Named(ss, n) = IF T # {} THEN Min(T) ELSE 0
  BY DEF Named, SelectInSeq
<1>2. T \subseteq Nat /\ 0 \notin T
  OBVIOUS
<1> HIDE DEF T
<1>3. CASE T = {}
  BY <1>1, <1>3 DEF T
<1>4. CASE T # {}
  <2>1. Named(ss, n) \in T
    BY <1>1, <1>2, <1>4, MinIs
  <2> QED BY <1>2, <2>1 DEF T
<1> QED BY <1>3, <1>4

\* The entry shown is an entry, or one past the end.
LEMMA CurrentIs ==
  ASSUME TypeOK
  PROVE  Current \subseteq Nat \ {0}
<1>1. Len(items) \in Nat
  BY DEF TypeOK
<1> QED BY <1>1 DEF Current

\* What is left of the sessions when one is deleted.
LEMMA RemoveSession ==
  ASSUME NEW ss \in Seq(Session), NEW i \in 1..Len(ss)
  PROVE  LET t == RemoveAt(ss, i) IN
         /\ t \in Seq(Session) /\ Len(t) = Len(ss) - 1
         /\ \A s \in ToSet(ss) : s # ss[i] => s \in ToSet(t)
<1> DEFINE a == SubSeq(ss, 1, i - 1)
           b == SubSeq(ss, i + 1, Len(ss))
           t == RemoveAt(ss, i)
           old(j) == IF j < i THEN j ELSE j + 1
<1>1. a \in Seq(Session) /\ Len(a) = i - 1 /\ \A j \in 1..i - 1 : a[j] = ss[j]
  OBVIOUS
<1>2. b \in Seq(Session) /\ Len(b) = Len(ss) - i /\ \A j \in 1..Len(ss) - i : b[j] = ss[i + j]
  OBVIOUS
<1>3. t = a \o b
  BY DEF RemoveAt
<1> HIDE DEF a, b, t
<1>4. Len(ss) \in Nat /\ Len(a) \in Nat /\ Len(b) \in Nat
  BY <1>1, <1>2
<1>5. /\ t \in Seq(Session) /\ Len(t) = Len(a) + Len(b)
      /\ \A j \in 1..Len(a) + Len(b) : t[j] = IF j <= Len(a) THEN a[j] ELSE b[j - Len(a)]
  <2>1. /\ a \o b \in Seq(Session) /\ Len(a \o b) = Len(a) + Len(b)
        /\ \A j \in 1..Len(a) + Len(b) :
             (a \o b)[j] = IF j <= Len(a) THEN a[j] ELSE b[j - Len(a)]
    <3>1. a \in Seq(Session) /\ b \in Seq(Session)
      BY <1>1, <1>2
    <3> QED BY ONLY <3>1
  <2> QED BY <1>3, <2>1
<1>6. Len(t) = Len(ss) - 1 /\ DOMAIN t = 1..Len(t) /\ DOMAIN ss = 1..Len(ss)
  BY <1>1, <1>2, <1>5
<1>7. ASSUME NEW j \in 1..Len(t)  PROVE old(j) \in 1..Len(ss) /\ old(j) # i /\ t[j] = ss[old(j)]
  <2>1. CASE j < i
    <3>1. j <= Len(a) /\ j \in 1..i - 1 /\ j \in 1..Len(a) + Len(b)
      BY <1>1, <1>4, <1>5, <2>1
    <3> QED BY <1>1, <1>4, <1>5, <2>1, <3>1
  <2>2. CASE ~(j < i)
    <3>1. /\ j \in 1..Len(a) + Len(b) /\ ~(j <= Len(a)) /\ j - Len(a) \in 1..Len(ss) - i
          /\ i + (j - Len(a)) = j + 1 /\ j + 1 \in 1..Len(ss) /\ j + 1 # i
      BY <1>1, <1>2, <1>4, <1>5, <2>2
    <3>2. t[j] = b[j - Len(a)]
      BY <1>5, <3>1
    <3> QED BY <1>2, <2>2, <3>1, <3>2
  <2> QED BY <2>1, <2>2
<1>8. ASSUME NEW k \in 1..Len(ss), k # i  PROVE \E j \in 1..Len(t) : old(j) = k
  <2>1. CASE k < i
    <3>1. k \in 1..Len(t) /\ old(k) = k
      BY <1>4, <1>6, <2>1
    <3> QED BY <3>1
  <2>2. CASE k > i
    <3>1. k - 1 \in 1..Len(t) /\ old(k - 1) = k
      BY <1>4, <1>6, <2>2
    <3> QED BY <3>1
  <2> QED BY <1>8, <2>1, <2>2
<1>9. ASSUME NEW s \in ToSet(ss), s # ss[i]  PROVE s \in ToSet(t)
  <2>1. PICK k \in 1..Len(ss) : ss[k] = s
    BY <1>6 DEF ToSet
  <2>2. PICK j \in 1..Len(t) : old(j) = k
    BY <1>8, <1>9, <2>1
  <2>3. t[j] = s
    BY <1>7, <2>1, <2>2
  <2> QED BY <1>6, <2>3 DEF ToSet
<1> QED BY <1>5, <1>6, <1>9 DEF t

-----------------------------------------------------------------------------
(* What the combo is filled with *)

\* No two kinds of entries look alike, and no two sessions.
LEMMA TextsAre ==
  /\ \A s \in Session : Label(s) \in Texts /\ Label(s) # AddSession /\ s.name # ""
  /\ \A s, t \in Session : Label(s) = Label(t) => s.name = t.name
  /\ \A p \in Port : PortText(p) \in Texts /\ PortText(p) # AddSession
  /\ NoPorts # AddSession /\ {AddSession, NoPorts, NoUrl} \subseteq Texts
  /\ NoSession.name = ""
<1>1. \A s \in Session : s.name # ""
  <2> SUFFICES ASSUME NEW s \in Session PROVE s.name # ""
    OBVIOUS
  <2>1. s \in [name : STRING \ {""}, host : STRING, port : STRING]
    BY SessionAssumption
  <2> QED BY <2>1
<1>2. \A s \in Session : Label(s) # AddSession
  BY DEF Label, AddSession
<1>3. \A s, t \in Session : Label(s) = Label(t) => s.name = t.name
  BY DEF Label
<1>4. NoPorts # AddSession /\ \A p \in Port : PortText(p) # AddSession
  BY DEF NoPorts, AddSession, PortText
<1> QED BY <1>1, <1>2, <1>3, <1>4 DEF Texts, NoSession

\* The ports there are, or the entry that says there is none; never the sessions.
LEMMA PortItemsIs ==
  ASSUME plugged \subseteq Port
  PROVE  /\ PortItems \in Seq(Texts) /\ Len(PortItems) \in Nat \ {0}
         /\ \A i \in 1..Len(PortItems) : PortItems[i] # AddSession
<1> DEFINE P == {PortText(p) : p \in plugged}
<1>1. CASE plugged = {}
  <2>1. PortItems = <<NoPorts>> /\ NoPorts \in Texts
    BY <1>1, TextsAre DEF PortItems
  <2>2. NoPorts # AddSession
    BY TextsAre
  <2> HIDE DEF NoPorts
  <2>3. <<NoPorts>> \in Seq(Texts) /\ Len(<<NoPorts>>) = 1 /\ <<NoPorts>>[1] = NoPorts
    BY <2>1
  <2> QED BY <2>1, <2>2, <2>3
<1>2. CASE plugged # {}
  <2>1. IsFiniteSet(P)
    <3>1. IsFiniteSet(plugged)
      BY PortAssumption, FS_Subset
    <3>2. [p \in plugged |-> PortText(p)] \in Surjection(plugged, P)
      BY DEF Surjection
    <3> QED BY <3>1, <3>2, FS_Surjection
  <2>2. PICK n \in Nat : ExistsBijection(1..n, P)
    BY <2>1, FS_NatBijection
  <2>3. Cardinality(P) = n
    BY <2>2, FS_CountingElements
  <2>4. \E f \in [1..n -> P] : IsInjective(f)
    BY <2>2 DEF ExistsBijection, Bijection, Injection, IsInjective
  <2>5. SetToSeq(P) \in [1..n -> P]
    BY <2>3, <2>4 DEF SetToSeq
  <2>6. n # 0
    <3>1. P # {}
      BY <1>2
    <3> QED BY <2>1, <2>3, <3>1, FS_EmptySet
  <2>7. PortItems \in [1..n -> P]
    BY <1>2, <2>5 DEF PortItems
  <2>8. \A t \in P : t \in Texts /\ t # AddSession
    BY TextsAre
  <2> HIDE DEF P
  <2>9. PortItems \in Seq(Texts) /\ Len(PortItems) = n
    BY <2>7, <2>8
  <2> QED BY <2>6, <2>7, <2>8, <2>9
<1> QED BY <1>1, <1>2

\* The entry of a port that is shown is one of the entries.
LEMMA PortShownIs ==
  ASSUME TypeOK, NEW saved, NEW current
  PROVE  PortShown(saved, current) \in Texts
<1>1. PortItems \in Seq(Texts) /\ Len(PortItems) \in Nat \ {0}
  BY PortItemsIs DEF TypeOK
<1>2. PortItems[1] \in Texts /\ \A t \in ToSet(PortItems) : t \in Texts
  BY <1>1 DEF ToSet
<1>3. \A p \in plugged : PortText(p) \in Texts
  BY TextsAre DEF TypeOK
<1> QED BY <1>2, <1>3 DEF PortShown

\* The entries of the sessions, the last one of which is never a port's.
LEMMA SshItemsAre ==
  ASSUME NEW ss \in Seq(Session)
  PROVE  /\ SshItems(ss) \in Seq(Texts) /\ Len(SshItems(ss)) = Len(ss) + 1
         /\ \A i \in 1..Len(ss) : SshItems(ss)[i] = Label(ss[i])
         /\ SshItems(ss)[Len(ss) + 1] = AddSession
<1> DEFINE l == [i \in DOMAIN ss |-> Label(ss[i])]
<1>1. DOMAIN ss = 1..Len(ss) /\ Len(ss) \in Nat /\ \A i \in 1..Len(ss) : Label(ss[i]) \in Texts
  <2>1. \A i \in 1..Len(ss) : ss[i] \in Session
    OBVIOUS
  <2>2. \A s \in Session : Label(s) \in Texts
    BY TextsAre
  <2> QED BY <2>1, <2>2
<1>2. l \in Seq(Texts) /\ Len(l) = Len(ss) /\ \A i \in 1..Len(ss) : l[i] = Label(ss[i])
  BY <1>1
<1>3. SshItems(ss) = Append(l, AddSession) /\ AddSession \in Texts
  BY TextsAre DEF SshItems
<1> HIDE DEF l
<1> QED BY <1>1, <1>2, <1>3

LEMMA PortsAreNotSessions ==
  ASSUME plugged \subseteq Port, NEW ss \in Seq(Session)
  PROVE  PortItems # SshItems(ss)
<1>1. SshItems(ss)[Len(ss) + 1] = AddSession /\ Len(SshItems(ss)) = Len(ss) + 1
  BY SshItemsAre
<1>2. \A i \in 1..Len(PortItems) : PortItems[i] # AddSession
  BY PortItemsIs
<1>3. Len(ss) + 1 \in 1..(Len(ss) + 1)
  OBVIOUS
<1> QED BY <1>1, <1>2, <1>3

\* A combo filled from the sessions shows the active one, which is saved.
LEMMA PopulatedIs ==
  ASSUME NEW ss \in Seq(Session), NEW p \in Session \cup {NoSession},
         p # NoSession => p \in ToSet(ss)
  PROVE  Filled("SSH", Populated(ss, p), ss)
<1> DEFINE i == Named(ss, p.name)
           c == Populated(ss, p)
<1>1. /\ c.items = SshItems(ss) /\ c.text = SshItems(ss)[IF i = 0 THEN 1 ELSE i]
      /\ c.params = IF i = 0 /\ ss # <<>> THEN ss[1] ELSE p
  BY DEF Populated
<1>2. \/ i = 0 /\ \A j \in 1..Len(ss) : ss[j].name # p.name
      \/ i \in 1..Len(ss) /\ i # 0 /\ ss[i].name = p.name
  BY NamedIs
<1> HIDE DEF i, c
<1>3. /\ SshItems(ss) \in Seq(Texts) /\ Len(SshItems(ss)) = Len(ss) + 1
      /\ \A j \in 1..Len(ss) : SshItems(ss)[j] = Label(ss[j])
      /\ SshItems(ss)[Len(ss) + 1] = AddSession
  BY SshItemsAre
<1>4. DOMAIN ss = 1..Len(ss) /\ Len(ss) \in Nat /\ \A j \in 1..Len(ss) : ss[j] \in Session
  OBVIOUS
<1>5. \A s : s \in ToSet(ss) <=> \E j \in 1..Len(ss) : ss[j] = s
  BY <1>4 DEF ToSet
<1>6. CASE i # 0
  <2>1. i \in 1..Len(ss) /\ ss[i].name = p.name /\ c.params = p /\ c.text = Label(ss[i])
    BY <1>1, <1>2, <1>3, <1>6
  <2>2. ss[i] \in Session /\ ss[i].name # ""
    BY <1>4, <2>1, TextsAre
  <2>3. p # NoSession
    BY <2>1, <2>2, TextsAre
  <2>4. \A s \in ToSet(ss) : c.text = Label(s) => s.name = ss[i].name
    BY ZenonT(40), <1>4, <1>5, <2>1, <2>2, TextsAre
  <2>5. c.text \in Texts /\ c.items \in Seq(Texts)
    BY <1>1, <1>3, <2>1, <2>2, TextsAre
  <2> QED BY <2>1, <2>3, <2>4, <2>5 DEF Filled, Honest, c
<1>7. CASE i = 0 /\ ss # <<>>
  <2>1. 1 \in 1..Len(ss) /\ c.params = ss[1] /\ c.text = SshItems(ss)[1]
    BY <1>1, <1>4, <1>7
  <2>2. ss[1] \in Session /\ c.text = Label(ss[1])
    BY <1>3, <1>4, <2>1
  <2>3. \A s \in ToSet(ss) : c.text = Label(s) => s.name = ss[1].name
    BY <1>4, <1>5, <2>2, TextsAre
  <2>4. c.text \in Texts /\ c.items \in Seq(Texts)
    BY <1>1, <1>3, <2>2, TextsAre
  <2>5. c.params \in ToSet(ss)
    BY <1>5, <2>1
  <2> QED BY <2>1, <2>2, <2>3, <2>4, <2>5 DEF Filled, Honest, c
<1>8. CASE ss = <<>>
  <2>1. i = 0 /\ c.params = p /\ Len(ss) = 0 /\ c.text = SshItems(ss)[1]
    BY <1>1, <1>2, <1>8
  <2>2. c.text = AddSession /\ AddSession \in Texts
    <3>1. Len(ss) + 1 = 1
      BY <2>1
    <3> QED BY <1>3, <2>1, <3>1, TextsAre
  <2>3. ToSet(ss) = {}
    BY <1>8 DEF ToSet
  <2> QED BY <1>1, <1>3, <2>1, <2>2, <2>3 DEF Filled, Honest, c
<1> QED BY <1>6, <1>7, <1>8

\* A change of transport fills the combo anew.
LEMMA ChangedIs ==
  ASSUME TypeOK, NEW kind \in Transport, NEW saved, NEW url \in Texts,
         NEW ss \in Seq(Session), NEW p \in Session \cup {NoSession},
         p # NoSession => p \in ToSet(ss)
  PROVE  LET c == Changed(kind, saved, url, ss, p) IN
         Filled(kind, c, ss) /\ c = [items |-> c.items, text |-> c.text, params |-> c.params]
<1>1. CASE kind = "Network"
  <2>1. Changed(kind, saved, url, ss, p) = [items |-> <<>>, text |-> url, params |-> p]
    BY <1>1 DEF Changed
  <2>2. kind # "SSH" /\ <<>> \in Seq(Texts)
    BY <1>1
  <2> QED BY <2>1, <2>2 DEF Filled, Honest
<1>2. CASE kind = "SSH"
  <2>1. Changed(kind, saved, url, ss, p) = Populated(ss, p)
    BY <1>2 DEF Changed
  <2>2. Filled(kind, Populated(ss, p), ss)
    BY <1>2, PopulatedIs
  <2> QED BY <2>1, <2>2 DEF Populated
<1>3. CASE kind = "Serial"
  <2>1. PortItems \in Seq(Texts) /\ PortShown(saved, NoUrl) \in Texts
    BY PortItemsIs, PortShownIs DEF TypeOK
  <2> QED BY <1>3, <2>1 DEF Changed, Filled, Honest
<1> QED BY <1>1, <1>2, <1>3 DEF Transport

-----------------------------------------------------------------------------
(* The actions *)

\* What TypeOK says of the tabs and of the rest, which most actions leave alone.
TabsOK == /\ conns \subseteq 1..MaxConn /\ active \in conns
          /\ toolbar \in [1..MaxConn -> [transport : Transport, target : Texts] \cup {NoToolbar}]
RestOK == /\ plugged \subseteq Port /\ {netUrl, restore} \subseteq Texts /\ foreign \in BOOLEAN

\* The combo is filled for the transport it is for.
LEMMA FillKeeps ==
  ASSUME TabsOK', RestOK', transport' \in Transport,
         sessions' \in Seq(Session), Len(sessions') <= MaxSession,
         NEW c, Shows(c), Filled(transport', c, sessions')
  PROVE  IInv'
<1>1. /\ items' \in Seq(Texts) /\ text' \in Texts /\ params' \in Session \cup {NoSession}
      /\ params' # NoSession => params' \in ToSet(sessions')
      /\ transport' = "SSH" => \A s \in ToSet(sessions') : text' = Label(s) => params'.name = s.name
  BY DEF Shows, Filled, Honest
<1>2. TypeOK'
  BY <1>1 DEF TypeOK, TabsOK, RestOK
<1> QED BY <1>1, <1>2 DEF IInv, OpensSaved, NameShown

LEMMA PartsAre ==
  ASSUME IInv
  PROVE  /\ TypeOK /\ TabsOK /\ RestOK /\ transport \in Transport /\ text \in Texts
         /\ netUrl \in Texts /\ restore \in Texts /\ items \in Seq(Texts)
         /\ sessions \in Seq(Session) /\ Len(sessions) <= MaxSession
         /\ params \in Session \cup {NoSession}
         /\ (params # NoSession => params \in ToSet(sessions))
BY DEF IInv, TypeOK, TabsOK, RestOK, OpensSaved

LEMMA SelectTransportKeeps ==
  ASSUME IInv, NEW kind \in Transport, SelectTransport(kind)
  PROVE  IInv'
<1> DEFINE c == Changed(kind, restore, netUrl, sessions, params)
<1>1. Filled(kind, c, sessions)
  BY PartsAre, ChangedIs
<1>2. /\ Shows(c) /\ transport' = kind /\ foreign' = FALSE /\ UNCHANGED sessions
      /\ UNCHANGED <<plugged, conns, active, toolbar, restore>>
      /\ netUrl' = netUrl \/ netUrl' = text
  BY DEF SelectTransport, LeavesUrl, env, tabs
<1> HIDE DEF c
<1>3. TabsOK' /\ RestOK'
  BY <1>2, PartsAre DEF TabsOK, RestOK
<1>4. /\ sessions' \in Seq(Session) /\ Len(sessions') <= MaxSession
      /\ Filled(transport', c, sessions')
  BY <1>1, <1>2, PartsAre
<1> QED BY <1>2, <1>3, <1>4, FillKeeps

\* A session is added or edited in the dialog: it is the active one then.
LEMMA EntersKeeps ==
  ASSUME IInv, NEW i \in Nat \ {0}, NEW s \in Session, transport = "SSH", Enters(i, s)
  PROVE  IInv'
<1> DEFINE list == IF i > Len(sessions) THEN Append(sessions, s) ELSE [sessions EXCEPT ![i] = s]
<1>1. /\ Len(list) <= MaxSession
      /\ sessions' = list /\ foreign' = FALSE /\ Shows(Populated(list, s))
      /\ UNCHANGED <<plugged, conns, active, toolbar, transport, netUrl, restore>>
  BY DEF Enters, env, tabs
<1>2. list \in Seq(Session) /\ s \in ToSet(list)
  <2>1. sessions \in Seq(Session) /\ Len(sessions) \in Nat
    BY PartsAre
  <2>2. CASE i > Len(sessions)
    <3>1. /\ Append(sessions, s) \in Seq(Session) /\ Append(sessions, s)[Len(sessions) + 1] = s
          /\ Len(sessions) + 1 \in DOMAIN Append(sessions, s)
      BY <2>1
    <3> QED BY <2>2, <3>1 DEF ToSet
  <2>3. CASE ~(i > Len(sessions))
    <3>1. i \in 1..Len(sessions) /\ DOMAIN sessions = 1..Len(sessions)
      BY <2>1, <2>3
    <3>2. /\ [sessions EXCEPT ![i] = s] \in Seq(Session) /\ [sessions EXCEPT ![i] = s][i] = s
          /\ i \in DOMAIN [sessions EXCEPT ![i] = s]
      BY <2>1, <3>1
    <3> QED BY <2>3, <3>2 DEF ToSet
  <2> QED BY <2>2, <2>3
<1> HIDE DEF list
<1>3. Filled("SSH", Populated(list, s), list)
  BY <1>2, PopulatedIs
<1>4. TabsOK' /\ RestOK' /\ transport' \in Transport /\ transport' = "SSH"
  BY <1>1, PartsAre DEF TabsOK, RestOK
<1> QED BY <1>1, <1>2, <1>3, <1>4, FillKeeps

\* A session is deleted: when it was the active one, another takes its place.
LEMMA DeleteKeeps ==
  ASSUME IInv, NEW i \in 1..Len(sessions), transport = "SSH", Delete(i)
  PROVE  IInv'
<1> DEFINE list == RemoveAt(sessions, i)
           left == IF params.name = sessions[i].name THEN NoSession ELSE params
<1>1. /\ sessions' = list /\ foreign' = FALSE /\ Shows(Populated(list, left))
      /\ UNCHANGED <<plugged, conns, active, toolbar, transport, netUrl, restore>>
  BY DEF Delete, env, tabs
<1>2. /\ list \in Seq(Session) /\ Len(list) = Len(sessions) - 1
      /\ \A s \in ToSet(sessions) : s # sessions[i] => s \in ToSet(list)
  BY PartsAre, RemoveSession
<1>3. left \in Session \cup {NoSession} /\ (left # NoSession => left \in ToSet(list))
  BY <1>2, PartsAre
<1> HIDE DEF list, left
<1>4. Filled("SSH", Populated(list, left), list)
  BY <1>2, <1>3, PopulatedIs
<1>5. TabsOK' /\ RestOK' /\ transport' \in Transport /\ transport' = "SSH"
  BY <1>1, PartsAre DEF TabsOK, RestOK
<1>6. Len(sessions') <= MaxSession
  <2>1. Len(sessions) \in Nat /\ Len(sessions) <= MaxSession
    BY PartsAre
  <2> QED BY <1>1, <1>2, <2>1, BoundsAssumption
<1> QED BY <1>1, <1>2, <1>4, <1>5, <1>6, FillKeeps

\* Typing and connecting in the network, a rescan that lists the ports.
LEMMA BarKeeps ==
  ASSUME IInv, \/ \E u \in Url : Type(u)
               \/ ConnectNetwork \/ RefreshPorts \/ Replug \/ UNCHANGED vars
  PROVE  IInv'
<1>1. UNCHANGED <<conns, active, toolbar, transport, restore, sessions, params, foreign>>
  BY DEF Type, ConnectNetwork, RefreshPorts, Replug, vars, env, tabs, bar, ssh
<1>2. plugged' \subseteq Port
  BY PartsAre DEF Type, ConnectNetwork, RefreshPorts, Replug, vars, env, RestOK
<1>3. items' \in Seq(Texts) /\ text' \in Texts /\ netUrl' \in Texts
  <2>1. \A u \in Url : UrlText(u) \in Texts
    BY DEF Texts
  <2>2. PortItems \in Seq(Texts) /\ PortShown(restore, text) \in Texts
    BY PartsAre, PortItemsIs, PortShownIs DEF RestOK
  <2> QED BY <2>1, <2>2, PartsAre DEF Type, ConnectNetwork, RefreshPorts, Replug, vars, bar
<1>4. TypeOK'
  BY <1>1, <1>2, <1>3 DEF IInv, TypeOK
<1>5. OpensSaved'
  BY <1>1 DEF IInv, OpensSaved
<1>6. NameShown'
  <2>1. CASE RefreshPorts
    BY <1>1, <2>1, PartsAre, PortsAreNotSessions DEF RefreshPorts, NameShown, RestOK
  <2>2. CASE \/ \E u \in Url : Type(u)
             \/ ConnectNetwork
    <3>1. transport = "Network"
      BY <2>2 DEF Type, ConnectNetwork
    <3> QED BY <1>1, <3>1 DEF NameShown
  <2>3. CASE Replug \/ UNCHANGED vars
    <3>1. UNCHANGED <<transport, items, text, sessions, params, foreign>>
      BY <2>3 DEF Replug, vars, bar, ssh
    <3> QED BY <3>1 DEF IInv, NameShown, SshItems
  <2> QED BY <2>1, <2>2, <2>3
<1> QED BY <1>4, <1>5, <1>6 DEF IInv

\* An entry is picked.
LEMMA PickKeeps ==
  ASSUME IInv, NEW i \in 1..Len(items), Pick(i)
  PROVE  IInv'
<1>1. /\ text' = items[i] /\ foreign' = FALSE
      /\ params' = IF transport = "SSH" /\ i <= Len(sessions) THEN sessions[i] ELSE params
      /\ UNCHANGED <<plugged, conns, active, toolbar, transport, items, netUrl, restore, sessions>>
  BY DEF Pick, env, tabs
<1>2. DOMAIN sessions = 1..Len(sessions) /\ Len(sessions) \in Nat /\ items[i] \in Texts
      /\ \A j \in 1..Len(sessions) : sessions[j] \in Session /\ sessions[j] \in ToSet(sessions)
  BY PartsAre DEF ToSet
<1>3. i <= Len(sessions) => i \in 1..Len(sessions)
  BY <1>2
<1>4. params' \in Session \cup {NoSession} /\ (params' # NoSession => params' \in ToSet(sessions))
  BY <1>1, <1>2, <1>3, PartsAre
<1>5. TypeOK'
  BY <1>1, <1>2, <1>4 DEF IInv, TypeOK
<1>6. OpensSaved'
  BY <1>1, <1>4 DEF IInv, OpensSaved
<1>7. NameShown'
  <2> SUFFICES ASSUME transport = "SSH", items = SshItems(sessions),
                      NEW s \in ToSet(sessions), items[i] = Label(s)
               PROVE  params'.name = s.name
    BY <1>1 DEF NameShown, SshItems
  <2>1. s \in Session
    BY <1>2 DEF ToSet
  <2>2. /\ Len(items) = Len(sessions) + 1 /\ items[Len(sessions) + 1] = AddSession
        /\ \A j \in 1..Len(sessions) : items[j] = Label(sessions[j])
    BY PartsAre, SshItemsAre
  <2>3. i # Len(sessions) + 1
    BY <2>1, <2>2, TextsAre
  <2>4. i \in 1..Len(sessions) /\ i <= Len(sessions)
    BY <1>2, <2>2, <2>3
  <2>5. sessions[i].name = s.name
    BY <1>2, <2>1, <2>2, <2>4, TextsAre
  <2> QED BY <1>1, <2>4, <2>5
<1> QED BY <1>5, <1>6, <1>7 DEF IInv

\* A tab comes to the front: the toolbar stays for a new one; else the transport and,
\* as far as it is there, the target are put back.
LEMMA FrontsIs ==
  ASSUME IInv, NEW c \in 1..MaxConn, Fronts(c), UNCHANGED <<plugged, restore, sessions>>
  PROVE  /\ active' = c /\ transport' \in Transport /\ text' \in Texts /\ items' \in Seq(Texts)
         /\ netUrl' \in Texts /\ foreign' \in BOOLEAN /\ params' \in Session \cup {NoSession}
         /\ OpensSaved' /\ NameShown'
         /\ toolbar[c] # NoToolbar =>
              /\ transport' = toolbar[c].transport
              /\ transport' = "Network" \/ toolbar[c].target \in ToSet(items')
                   => text' = toolbar[c].target
<1> DEFINE back  == toolbar[c]
           moved == back.transport # transport
           new   == Changed(back.transport, restore, netUrl, sessions, params)
           old   == [items |-> items, text |-> text, params |-> params]
           combo == IF moved THEN new ELSE old
           found == back.transport = "Network" \/ back.target \in ToSet(combo.items)
           shows == [combo EXCEPT !.text = IF found THEN back.target ELSE @]
<1>1. /\ active' = c
      /\ IF back = NoToolbar THEN UNCHANGED <<bar, params, foreign>>
         ELSE /\ transport' = back.transport /\ Shows(shows)
              /\ IF moved THEN netUrl' = IF transport = "Network" THEN text ELSE netUrl
                          ELSE UNCHANGED netUrl
              /\ foreign' = (back.transport = "SSH"
                               /\ (shows.text # combo.text \/ (~moved /\ foreign)))
  BY DEF Fronts, LeavesUrl
<1>2. /\ TypeOK /\ OpensSaved /\ NameShown
      /\ back \in [transport : Transport, target : Texts] \cup {NoToolbar}
  BY DEF IInv, TypeOK
<1>3. CASE back = NoToolbar
  <2>1. UNCHANGED <<transport, items, text, netUrl, params, foreign>>
    BY <1>1, <1>3 DEF bar
  <2>2. /\ transport' \in Transport /\ text' \in Texts /\ items' \in Seq(Texts)
        /\ netUrl' \in Texts /\ foreign' \in BOOLEAN /\ params' \in Session \cup {NoSession}
    BY <1>2, <2>1 DEF TypeOK
  <2>3. OpensSaved' /\ NameShown'
    BY <1>2, <2>1 DEF OpensSaved, NameShown, SshItems
  <2> QED BY <1>1, <1>3, <2>2, <2>3
<1>4. CASE back # NoToolbar
  <2>1. back.transport \in Transport /\ back.target \in Texts
    BY <1>2, <1>4
  <2>2. Filled(back.transport, new, sessions) /\ new = [items |-> new.items, text |-> new.text, params |-> new.params]
    BY <2>1, PartsAre, ChangedIs
  <2> HIDE DEF new, back
  <2>3. /\ combo.items = IF moved THEN new.items ELSE items
        /\ combo.text = IF moved THEN new.text ELSE text
        /\ combo.params = IF moved THEN new.params ELSE params
        /\ combo = [items |-> combo.items, text |-> combo.text, params |-> combo.params]
    BY <2>2
  <2> HIDE DEF combo
  <2>4. /\ shows.items = combo.items /\ shows.params = combo.params
        /\ shows.text = IF found THEN back.target ELSE combo.text
    BY <2>3
  <2> HIDE DEF shows
  <2>5. /\ items' = combo.items /\ text' = (IF found THEN back.target ELSE combo.text)
        /\ params' = combo.params /\ transport' = back.transport
        /\ netUrl' \in {netUrl, text}
        /\ foreign' = (back.transport = "SSH"
                         /\ (shows.text # combo.text \/ (~moved /\ foreign)))
    BY <1>1, <1>4, <2>4 DEF Shows
  <2>6. /\ combo.items \in Seq(Texts) /\ combo.text \in Texts
        /\ combo.params \in Session \cup {NoSession}
        /\ combo.params # NoSession => combo.params \in ToSet(sessions)
    BY <2>2, <2>3, PartsAre DEF Filled
  <2>7. /\ text' \in Texts /\ items' \in Seq(Texts) /\ netUrl' \in Texts /\ transport' \in Transport
        /\ params' \in Session \cup {NoSession}
    BY <2>1, <2>5, <2>6, PartsAre
  <2>8. foreign' \in BOOLEAN
    BY <2>5
  <2>9. OpensSaved'
    BY <2>5, <2>6 DEF OpensSaved
  <2>10. NameShown'
    <3> SUFFICES ASSUME transport' = "SSH", items' = SshItems(sessions), ~foreign',
                        NEW s \in ToSet(sessions), text' = Label(s)
                 PROVE  params'.name = s.name
      BY DEF NameShown, SshItems
    <3>1. text' = combo.text /\ (moved \/ ~foreign)
      BY <2>4, <2>5
    <3>2. CASE moved
      BY <2>2, <2>3, <2>5, <3>1, <3>2 DEF Filled, Honest
    <3>3. CASE ~moved
      BY <1>2, <2>3, <2>5, <3>1, <3>3 DEF NameShown
    <3> QED BY <3>2, <3>3
  <2>11. /\ transport' = back.transport
         /\ transport' = "Network" \/ back.target \in ToSet(items') => text' = back.target
    BY <2>5
  <2> QED BY <1>1, <2>7, <2>8, <2>9, <2>10, <2>11 DEF back
<1> QED BY <1>3, <1>4

\* The toolbar that is left is saved for its tab; a tab is closed or comes anew.
LEMMA TabsKeep ==
  ASSUME IInv, NEW c \in 1..MaxConn, SwitchTo(c) \/ AddConnection(c) \/ Close(c)
  PROVE  IInv'
<1>1. UNCHANGED <<plugged, restore, sessions>>
  BY DEF SwitchTo, AddConnection, Close, env
<1>2. /\ conns \subseteq 1..MaxConn /\ active \in conns /\ active \in 1..MaxConn
      /\ toolbar \in [1..MaxConn -> [transport : Transport, target : Texts] \cup {NoToolbar}]
      /\ Shown \in [transport : Transport, target : Texts]
  BY DEF IInv, TypeOK, Shown
<1>3. TabsOK'
  <2>1. CASE SwitchTo(c)
    <3>1. active' = c /\ c \in conns
      BY <1>1, <2>1, FrontsIs DEF SwitchTo
    <3> QED BY <1>2, <2>1, <3>1 DEF SwitchTo, TabsOK
  <2>2. CASE AddConnection(c)
    <3>1. active' = c
      BY <1>1, <2>2, FrontsIs DEF AddConnection
    <3> QED BY <1>2, <2>2, <3>1 DEF AddConnection, TabsOK
  <2>3. CASE Close(c)
    <3>1. active' \in conns \ {c}
      <4>1. CASE c = active
        <5>1. PICK d \in conns \ {c} : Fronts(d)
          BY <2>3, <4>1 DEF Close
        <5> QED BY <1>1, <1>2, <5>1, FrontsIs
      <4>2. CASE c # active
        BY <1>2, <2>3, <4>2 DEF Close
      <4> QED BY <4>1, <4>2
    <3>2. /\ conns' = conns \ {c}
          /\ toolbar' = [toolbar EXCEPT ![c] = NoToolbar, ![active'] = NoToolbar]
      BY <2>3 DEF Close
    <3>3. toolbar' \in [1..MaxConn -> [transport : Transport, target : Texts] \cup {NoToolbar}]
      BY <1>2, <3>2
    <3> QED BY <1>2, <3>1, <3>2, <3>3 DEF TabsOK
  <2> QED BY <2>1, <2>2, <2>3
<1>4. \/ \E d \in 1..MaxConn : Fronts(d)
      \/ UNCHANGED <<bar, params, foreign>>
  BY <1>2 DEF SwitchTo, AddConnection, Close
<1>5. /\ transport' \in Transport /\ text' \in Texts /\ items' \in Seq(Texts)
      /\ netUrl' \in Texts /\ foreign' \in BOOLEAN /\ params' \in Session \cup {NoSession}
      /\ OpensSaved' /\ NameShown'
  <2>1. CASE \E d \in 1..MaxConn : Fronts(d)
    BY <1>1, <2>1, FrontsIs
  <2>2. CASE UNCHANGED <<bar, params, foreign>>
    <3>1. UNCHANGED <<transport, items, text, netUrl, params, foreign, sessions>>
      BY <1>1, <2>2 DEF bar
    <3>2. /\ transport' \in Transport /\ text' \in Texts /\ items' \in Seq(Texts)
          /\ netUrl' \in Texts /\ foreign' \in BOOLEAN /\ params' \in Session \cup {NoSession}
      BY <3>1 DEF IInv, TypeOK
    <3> QED BY <3>1, <3>2 DEF IInv, OpensSaved, NameShown, SshItems
  <2> QED BY <1>4, <2>1, <2>2
<1>6. TypeOK'
  BY <1>1, <1>3, <1>5 DEF IInv, TypeOK, TabsOK
<1> QED BY <1>5, <1>6 DEF IInv

\* After a restart the combo lists the ports, and the active session is a saved one.
LEMMA RestartKeeps == ASSUME IInv, Restart PROVE IInv'
<1> DEFINE i    == Named(sessions, params.name)
           p    == IF i # 0 THEN sessions[i] ELSE IF sessions # <<>> THEN sessions[1] ELSE NoSession
           bars == IF transport = "Serial" THEN [items |-> <<>>, text |-> NoUrl, params |-> p]
                   ELSE Changed(transport, text, netUrl, sessions, p)
<1>1. /\ restore' = text /\ params' = bars.params
      /\ items' = PortItems /\ text' = PortShown(text, bars.text)
      /\ conns' = {1} /\ active' = 1 /\ toolbar' = [c \in 1..MaxConn |-> NoToolbar]
      /\ foreign' = FALSE /\ UNCHANGED <<plugged, transport, netUrl, sessions>>
  BY DEF Restart, Written, env
<1>2. p \in Session \cup {NoSession} /\ (p # NoSession => p \in ToSet(sessions))
  <2>1. sessions \in Seq(Session) /\ DOMAIN sessions = 1..Len(sessions) /\ Len(sessions) \in Nat
    BY PartsAre
  <2>2. \A j \in 1..Len(sessions) : sessions[j] \in Session /\ sessions[j] \in ToSet(sessions)
    BY <2>1 DEF ToSet
  <2>3. i = 0 \/ i \in 1..Len(sessions)
    BY <2>1, NamedIs
  <2>4. sessions # <<>> => 1 \in 1..Len(sessions)
    BY <2>1
  <2> HIDE DEF i
  <2> QED BY <2>2, <2>3, <2>4
<1> HIDE DEF p
<1>3. bars.params \in Session \cup {NoSession}
      /\ (bars.params # NoSession => bars.params \in ToSet(sessions))
  <2>1. CASE transport = "Serial"
    BY <1>2, <2>1
  <2>2. CASE transport # "Serial"
    <3>1. Filled(transport, Changed(transport, text, netUrl, sessions, p), sessions)
      BY <1>2, PartsAre, ChangedIs
    <3> QED BY <2>2, <3>1 DEF Filled
  <2> QED BY <2>1, <2>2
<1> HIDE DEF bars
<1>4. items' \in Seq(Texts) /\ text' \in Texts
  <2>1. plugged \subseteq Port
    BY PartsAre DEF RestOK
  <2> QED BY <1>1, <2>1, PartsAre, PortItemsIs, PortShownIs
<1>5. conns' \subseteq 1..MaxConn /\ active' \in conns'
      /\ toolbar' \in [1..MaxConn -> [transport : Transport, target : Texts] \cup {NoToolbar}]
  BY <1>1, BoundsAssumption
<1>6. TypeOK'
  BY <1>1, <1>3, <1>4, <1>5 DEF IInv, TypeOK
<1>7. OpensSaved'
  BY <1>1, <1>3 DEF IInv, OpensSaved
<1>8. NameShown'
  BY <1>1, PartsAre, PortsAreNotSessions DEF NameShown, RestOK
<1> QED BY <1>6, <1>7, <1>8 DEF IInv

-----------------------------------------------------------------------------
(* The theorems *)

LEMMA InitHolds == Init => IInv
<1> SUFFICES ASSUME Init PROVE IInv
  OBVIOUS
<1>1. /\ PortItems \in Seq(Texts) /\ Len(PortItems) \in Nat \ {0} /\ NoUrl \in Texts
  BY PortItemsIs, TextsAre DEF Init
<1>2. PortItems[1] \in Texts
  BY <1>1
<1>3. 1 \in 1..MaxConn /\ Len(<<>>) <= MaxSession /\ <<>> \in Seq(Session)
  BY BoundsAssumption
<1>4. toolbar \in [1..MaxConn -> [transport : Transport, target : Texts] \cup {NoToolbar}]
  BY DEF Init
<1>5. TypeOK
  BY <1>1, <1>2, <1>3, <1>4 DEF Init, TypeOK, Transport
<1>6. OpensSaved /\ NameShown
  BY DEF Init, OpensSaved, NameShown
<1> QED BY <1>5, <1>6 DEF IInv

LEMMA StepHolds == ASSUME IInv, [Next]_vars PROVE IInv'
<1>1. CASE \E kind \in Transport : SelectTransport(kind)
  BY <1>1, SelectTransportKeeps
<1>2. CASE (\E u \in Url : Type(u)) \/ RefreshPorts \/ ConnectNetwork \/ Replug \/ UNCHANGED vars
  BY <1>2, BarKeeps
<1>3. CASE DeleteShown
  <2>1. PICK i \in Current \cap DOMAIN sessions : Delete(i)
    BY <1>3 DEF DeleteShown
  <2>2. i \in 1..Len(sessions)
    BY <2>1, PartsAre
  <2> QED BY <1>3, <2>1, <2>2, DeleteKeeps DEF DeleteShown
<1>4. ASSUME NEW i \in 1..Len(items), Pick(i)  PROVE IInv'
  BY <1>4, PickKeeps
<1>5. ASSUME NEW i \in 1..Len(items), NEW s \in Session, PickAdds(i, s)  PROVE IInv'
  <2>1. i \in Nat \ {0}
    OBVIOUS
  <2> QED BY <1>5, <2>1, EntersKeeps DEF PickAdds
<1>6. ASSUME NEW s \in Session, EditShown(s)  PROVE IInv'
  <2>1. PICK i \in Current : Enters(i, s)
    BY <1>6 DEF EditShown
  <2>2. i \in Nat \ {0}
    BY <2>1, PartsAre, CurrentIs
  <2> QED BY <1>6, <2>1, <2>2, EntersKeeps DEF EditShown
<1>7. ASSUME NEW s \in Session, ConnectAsks(s)  PROVE IInv'
  <2>1. Len(sessions) + 1 \in Nat \ {0}
    BY PartsAre
  <2> QED BY <1>7, <2>1, EntersKeeps DEF ConnectAsks
<1>8. ASSUME NEW c \in 1..MaxConn, SwitchTo(c) \/ AddConnection(c) \/ Close(c)  PROVE IInv'
  BY <1>8, TabsKeep
<1>9. CASE Restart
  BY <1>9, RestartKeeps
<1> QED BY <1>1, <1>2, <1>3, <1>4, <1>5, <1>6, <1>7, <1>8, <1>9 DEF Next

\* IInv is an inductive invariant of the toolbar.
THEOREM Invariance == Spec => []IInv
<1>1. Init => IInv
  BY InitHolds
<1>2. IInv /\ [Next]_vars => IInv'
  BY StepHolds
<1> QED BY <1>1, <1>2, PTL DEF Spec

\* Every variable keeps its type: the target combo shows a port, a URL, a session or one
\* of its own entries, and the front tab is one that is open.
THEOREM TypeCorrect == Spec => []TypeOK
<1>1. IInv => TypeOK
  BY DEF IInv
<1> QED BY <1>1, Invariance, PTL

\* What Connect opens is a saved session.
THEOREM OpensWhatIsSaved == Spec => []OpensSaved
<1>1. IInv => OpensSaved
  BY DEF IInv
<1> QED BY <1>1, Invariance, PTL

\* The SSH session that is shown is the one Connect opens, or one of the same name,
\* unless a tab brought its label back or a rescan listed the ports.
THEOREM OpensWhatIsShown == Spec => []ShownIsOpened
<1>1. IInv => ShownIsOpened
  <2> SUFFICES ASSUME IInv, transport = "SSH", items = SshItems(sessions), ~foreign,
                      NEW s \in ToSet(sessions), text = Label(s)
               PROVE  /\ params.name = s.name
                      /\ (\A o \in ToSet(sessions) : o.name = s.name => o = s) => params = s
    BY DEF ShownIsOpened
  <2>1. params.name = s.name
    BY DEF IInv, NameShown
  <2>2. s \in Session
    BY PartsAre DEF ToSet
  <2>3. params # NoSession
    BY <2>1, <2>2, TextsAre
  <2>4. params \in ToSet(sessions)
    BY <2>3, PartsAre
  <2> QED BY <2>1, <2>4
<1> QED BY <1>1, Invariance, PTL

\* A tab that comes back to the front shows the transport and the target it was left with.
THEOREM TabComesBack == Spec => TabKeepsTarget
<1> DEFINE Kept == active' # active /\ conns' = conns /\ toolbar[active'] # NoToolbar =>
                     LET left == toolbar[active'] IN
                       /\ transport' = left.transport
                       /\ transport' = "Network" \/ left.target \in ToSet(items')
                            => text' = left.target
<1>1. IInv /\ [Next]_vars => [Kept]_vars
  <2> SUFFICES ASSUME IInv, Next, active' # active, conns' = conns PROVE Kept
    BY DEF vars, tabs
  <2>1. active \in conns /\ conns \subseteq 1..MaxConn
    BY DEF IInv, TypeOK
  <2>2. CASE \E c \in 1..MaxConn : SwitchTo(c)
    <3>1. PICK c \in 1..MaxConn : SwitchTo(c)
      BY <2>2
    <3>2. Fronts(c) /\ UNCHANGED <<plugged, restore, sessions>>
      BY <3>1 DEF SwitchTo, env
    <3> QED BY <3>2, FrontsIs
  <2>3. CASE \E c \in 1..MaxConn : AddConnection(c) \/ Close(c)
    BY <2>3 DEF AddConnection, Close
  <2>4. CASE Restart
    BY <2>1, <2>4 DEF Restart
  <2>5. \/ \E kind \in Transport : SelectTransport(kind)
        \/ \E u \in Url : Type(u)
        \/ RefreshPorts \/ ConnectNetwork \/ DeleteShown \/ Replug
        \/ \E i \in 1..Len(items) : Pick(i) \/ \E s \in Session : PickAdds(i, s)
        \/ \E s \in Session : EditShown(s) \/ ConnectAsks(s)
        => active' = active
    BY DEF SelectTransport, Type, RefreshPorts, ConnectNetwork, DeleteShown, Delete, Replug,
           Pick, PickAdds, EditShown, ConnectAsks, Enters, tabs
  <2> QED BY <2>2, <2>3, <2>4, <2>5 DEF Next
<1> QED BY <1>1, Invariance, PTL DEF Spec, TabKeepsTarget

-----------------------------------------------------------------------------
(* Recursion over a sequence *)

\* A set with 0 that is closed under successor has every natural.
LEMMA NatSet ==
  ASSUME NEW T, 0 \in T, \A n \in Nat : n \in T => n + 1 \in T
  PROVE  Nat \subseteq T
<1>1. SUFFICES ASSUME Nat \ T # {} PROVE FALSE
  OBVIOUS
<1>2. PICK x \in Nat \ T : \A y \in Nat \ T : x <= y
  BY <1>1, LeastNat
<1> QED BY <1>2

\* The same below a bound.
LEMMA UpTo ==
  ASSUME NEW N \in Nat, NEW T, 0 \in T, \A n \in 0..(N - 1) : n \in T => n + 1 \in T
  PROVE  0..N \subseteq T
<1> DEFINE U == {n \in Nat : n <= N => n \in T}
<1>1. 0 \in U
  OBVIOUS
<1>2. \A n \in Nat : n \in U => n + 1 \in U
  OBVIOUS
<1> HIDE DEF U
<1>3. Nat \subseteq U
  BY <1>1, <1>2, NatSet
<1> QED BY <1>3 DEF U

\* f is what the function G makes of base and the elements of a, one by one.
Solves(f, S, base, G, a) ==
  /\ f \in [0..Len(a) -> S] /\ f[0] = base
  /\ \A n \in 1..Len(a) : f[n] = G[<<f[n - 1], a[n]>>]

\* A recursion over a sequence has a solution.
LEMMA Recursion ==
  ASSUME NEW A, NEW S, NEW base \in S, NEW G \in [S \X A -> S], NEW a \in Seq(A)
  PROVE  \E f : Solves(f, S, base, G, a)
<1> DEFINE Good(f, n) == f \in [0..n -> S] /\ f[0] = base /\ \A k \in 1..n : f[k] = G[<<f[k - 1], a[k]>>]
           T == {n \in 0..Len(a) : \E f : Good(f, n)}
<1>1. 0 \in T
  <2>1. Good([n \in 0..0 |-> base], 0)
    OBVIOUS
  <2>2. \E f : Good(f, 0)
    BY <2>1, Zenon
  <2>3. 0 \in 0..Len(a)
    OBVIOUS
  <2> QED BY <2>2, <2>3, Zenon
<1>2. ASSUME NEW n \in 0..(Len(a) - 1), n \in T PROVE n + 1 \in T
  <2>1. PICK f : Good(f, n)
    BY <1>2
  <2>2. a[n + 1] \in A
    OBVIOUS
  <2> DEFINE g == [k \in 0..(n + 1) |-> IF k = n + 1 THEN G[<<f[n], a[n + 1]>>] ELSE f[k]]
  <2>3. G[<<f[n], a[n + 1]>>] \in S
    BY <2>1, <2>2
  <2>4. g \in [0..(n + 1) -> S] /\ g[0] = base
    BY <2>1, <2>3
  <2>6. g[n + 1] = G[<<f[n], a[n + 1]>>] /\ \A k \in 0..n : g[k] = f[k]
    OBVIOUS
  <2> HIDE DEF g
  <2>5. ASSUME NEW k \in 1..(n + 1) PROVE g[k] = G[<<g[k - 1], a[k]>>]
    <3>1. CASE k = n + 1
      <4>1. g[n] = f[n]
        BY <2>6
      <4> QED BY <3>1, <2>6, <4>1
    <3>2. CASE k # n + 1
      <4>1. k \in 1..n /\ k - 1 \in 0..n /\ k \in 0..n
        BY <3>2
      <4>2. g[k] = f[k] /\ g[k - 1] = f[k - 1]
        BY <4>1, <2>6
      <4> QED BY <4>1, <4>2, <2>1
    <3> QED BY <3>1, <3>2
  <2>7. \E h : Good(h, n + 1)
    BY <2>4, <2>5
  <2> QED BY <2>7
<1> HIDE DEF T
<1>3. Len(a) \in T
  <2>1. Len(a) \in Nat /\ Len(a) \in 0..Len(a)
    OBVIOUS
  <2>2. 0..Len(a) \subseteq T
    BY <1>1, <1>2, <2>1, UpTo, Zenon
  <2> QED BY <2>1, <2>2
<1>4. PICK f : Good(f, Len(a))
  BY <1>3 DEF T
<1> QED BY <1>4 DEF Solves

-----------------------------------------------------------------------------
(* LineViews: the strengthening *)

\* The members of a sequence.
Elems(s) == {s[i] : i \in 1..Len(s)}
\* A channel is told by its name.
OneEach(S) == \A c, d \in S : c.name = d.name => c = d

\* The views v show the channels of S: as series and column those that are charted,
\* as indicator those that have a card; Quick Plot draws none of their names, and none
\* that is hidden.
Agree(S, v) ==
  \A n \in Name :
    /\ v.series[n] = "set" <=> \E c \in S : c.name = n /\ c.chart
    /\ n \in v.columns <=> \E c \in S : c.name = n /\ c.chart
    /\ n \in v.cards <=> \E c \in S : c.name = n /\ c.card
    /\ (\E c \in S : c.name = n) => v.series[n] # "auto"
    /\ n \in v.hidden => v.series[n] = "none"

AutosOf(v) == {n \in Name : v.series[n] = "auto"}

ViewsInv ==
  /\ ViewsTypeOK
  /\ editor = "row" => was = channels[editing].name
  /\ Cardinality(Autos) <= MaxAuto
  /\ ~torn => ~Clash(channels) /\ Agree(Elems(channels), Display)

-----------------------------------------------------------------------------
(* Sequences of channels *)

LEMMA FunctionIsSeq ==
  ASSUME NEW S, NEW n \in Nat, NEW f \in [1..n -> S]
  PROVE  f \in Seq(S) /\ Len(f) = n
<1>1. DOMAIN f = 1..n
  OBVIOUS
<1>2. f \in Seq(S)
  BY DEF Seq
<1> QED BY <1>1, <1>2, LenProperties

LEMMA RemoveSeq ==
  ASSUME NEW S, NEW cs \in Seq(S), NEW i \in 1..Len(cs)
  PROVE  /\ RemoveAt(cs, i) \in Seq(S) /\ Len(RemoveAt(cs, i)) = Len(cs) - 1
         /\ \A k \in 1..(Len(cs) - 1) : RemoveAt(cs, i)[k] = IF k < i THEN cs[k] ELSE cs[k + 1]
<1> DEFINE a == SubSeq(cs, 1, i - 1)
           b == SubSeq(cs, i + 1, Len(cs))
<1>1. a \in Seq(S) /\ Len(a) = i - 1 /\ \A k \in 1..(i - 1) : a[k] = cs[k]
  BY SubSeqProperties
<1>2. b \in Seq(S) /\ Len(b) = Len(cs) - i /\ \A k \in 1..(Len(cs) - i) : b[k] = cs[i + k]
  BY SubSeqProperties
<1>3. RemoveAt(cs, i) = a \o b
  BY DEF RemoveAt
<1>6. Len(cs) \in Nat /\ i \in Nat
  OBVIOUS
<1> HIDE DEF a, b
<1>4. a \o b \in Seq(S) /\ Len(a \o b) = Len(cs) - 1
  BY <1>1, <1>2, <1>6
<1>5. ASSUME NEW k \in 1..(Len(cs) - 1) PROVE (a \o b)[k] = IF k < i THEN cs[k] ELSE cs[k + 1]
  <2>1. CASE k < i
    <3>1. k \in 1..Len(a) /\ k \in 1..(i - 1)
      BY <2>1, <1>1, <1>6
    <3>2. (a \o b)[k] = a[k]
      BY <3>1, <1>1, <1>2
    <3> QED BY <3>1, <3>2, <2>1, <1>1
  <2>2. CASE ~(k < i)
    <3>1. k - (i - 1) \in 1..(Len(cs) - i) /\ k \in (Len(a) + 1)..(Len(a) + Len(b))
          /\ i + (k - (i - 1)) = k + 1
      BY <2>2, <1>1, <1>2, <1>6
    <3>2. (a \o b)[k] = b[k - Len(a)]
      BY <3>1, <1>1, <1>2, <1>6
    <3>3. b[k - (i - 1)] = cs[i + (k - (i - 1))]
      BY <3>1, <1>2
    <3> QED BY <3>1, <3>2, <3>3, <2>2, <1>1
  <2> QED BY <2>1, <2>2
<1> QED BY <1>3, <1>4, <1>5

LEMMA ViewNumbers == MaxAuto \in Nat /\ MaxChannel \in Nat /\ IsFiniteSet(Name)
  BY NamesAssumption, ChannelsAssumption

LEMMA PairIs == ASSUME NEW a, NEW b PROVE <<a>> \o <<b>> = <<a, b>>
<1> DEFINE V == {a, b}
           x == <<a>>
           y == <<b>>
           z == <<a, b>>
<1>1. x \in Seq(V) /\ Len(x) = 1 /\ x[1] = a /\ y \in Seq(V) /\ Len(y) = 1 /\ y[1] = b
  OBVIOUS
<1>2. z \in Seq(V) /\ Len(z) = 2 /\ z[1] = a /\ z[2] = b
  OBVIOUS
<1> HIDE DEF V, x, y, z
<1>3. x \o y \in Seq(V) /\ Len(x \o y) = 2 /\ (x \o y)[1] = a /\ (x \o y)[2] = b
  <2>1. /\ x \o y \in Seq(V) /\ Len(x \o y) = Len(x) + Len(y)
        /\ \A i \in 1 .. Len(x) + Len(y) : (x \o y)[i] = IF i <= Len(x) THEN x[i] ELSE y[i - Len(x)]
    BY <1>1, ConcatProperties
  <2>2. 1 \in 1 .. Len(x) + Len(y) /\ 2 \in 1 .. Len(x) + Len(y)
    BY <1>1
  <2> QED BY <1>1, <2>1, <2>2
<1>4. \A i \in 1..Len(z) : (x \o y)[i] = z[i]
  BY <1>2, <1>3
<1>5. x \o y = z
  BY <1>2, <1>3, <1>4, SeqEqual
<1> QED BY <1>5 DEF x, y, z

LEMMA ChannelIs ==
  ASSUME NEW c \in Channel
  PROVE  c.name \in Name /\ c.enabled \in BOOLEAN /\ c.chart \in BOOLEAN /\ c.card \in BOOLEAN
  BY DEF Channel

LEMMA SeqIs ==
  ASSUME NEW S, NEW s \in Seq(S)
  PROVE  Len(s) \in Nat /\ DOMAIN s = 1..Len(s) /\ \A i \in 1..Len(s) : s[i] \in S
  OBVIOUS

LEMMA NoClash ==
  ASSUME NEW s \in Seq(Channel), ~Clash(s)
  PROVE  OneEach(Elems(s)) /\ Elems(s) \subseteq Channel
         /\ \A i, j \in 1..Len(s) : s[i].name = s[j].name => i = j
  BY SeqIs DEF Clash, OneEach, Elems

\* A channel at the end.
LEMMA AppendElems ==
  ASSUME NEW s \in Seq(Channel), NEW c \in Channel
  PROVE  /\ Append(s, c) \in Seq(Channel) /\ Len(Append(s, c)) = Len(s) + 1
         /\ Elems(Append(s, c)) = Elems(s) \cup {c}
<1> DEFINE r == Append(s, c)
<1>1. Len(s) \in Nat /\ r \in Seq(Channel) /\ Len(r) = Len(s) + 1
      /\ r[Len(s) + 1] = c /\ \A i \in 1..Len(s) : r[i] = s[i]
  OBVIOUS
<1> HIDE DEF r
<1>2. 1..Len(r) = (1..Len(s)) \cup {Len(s) + 1}
  BY <1>1
<1>3. Elems(r) = Elems(s) \cup {c}
  <2>1. ASSUME NEW e \in Elems(r) PROVE e \in Elems(s) \cup {c}
    BY <1>1, <1>2 DEF Elems
  <2>2. ASSUME NEW e \in Elems(s) \cup {c} PROVE e \in Elems(r)
    BY <1>1, <1>2 DEF Elems
  <2> QED BY <2>1, <2>2
<1> QED BY <1>1, <1>3 DEF r

\* A channel in the place of another, and a channel removed, when each has a name of
\* its own.
LEMMA ExceptElems ==
  ASSUME NEW s \in Seq(Channel), NEW i \in 1..Len(s), NEW c \in Channel
  PROVE  /\ [s EXCEPT ![i] = c] \in Seq(Channel) /\ Len([s EXCEPT ![i] = c]) = Len(s)
         /\ ~Clash(s) => Elems([s EXCEPT ![i] = c]) = {d \in Elems(s) : d.name # s[i].name} \cup {c}
<1> DEFINE r == [s EXCEPT ![i] = c]
<1>1. r \in Seq(Channel) /\ Len(r) = Len(s)
  <2>1. s \in [1..Len(s) -> Channel] /\ Len(s) \in Nat
    BY SeqIs
  <2>2. r \in [1..Len(s) -> Channel]
    BY <2>1
  <2> HIDE DEF r
  <2> QED BY <2>1, <2>2, FunctionIsSeq
<1>2. r[i] = c /\ \A j \in 1..Len(s) : j # i => r[j] = s[j]
  BY SeqIs
<1> HIDE DEF r
<1>3. ASSUME ~Clash(s) PROVE Elems(r) = {d \in Elems(s) : d.name # s[i].name} \cup {c}
  <2>1. \A j \in 1..Len(s) : s[j].name = s[i].name => j = i
    BY <1>3, NoClash
  <2>2. ASSUME NEW e \in Elems(r) PROVE e \in {d \in Elems(s) : d.name # s[i].name} \cup {c}
    <3>1. PICK j \in 1..Len(s) : e = r[j]
      BY <1>1 DEF Elems
    <3> QED BY <3>1, <1>2, <2>1 DEF Elems
  <2>3. ASSUME NEW e \in {d \in Elems(s) : d.name # s[i].name} \cup {c} PROVE e \in Elems(r)
    <3>1. CASE e = c
      BY <3>1, <1>1, <1>2 DEF Elems
    <3>2. CASE e # c
      <4>1. PICK j \in 1..Len(s) : e = s[j] /\ s[j].name # s[i].name
        BY <3>2 DEF Elems
      <4> QED BY <4>1, <1>1, <1>2 DEF Elems
    <3> QED BY <3>1, <3>2
  <2> QED BY <2>2, <2>3
<1> QED BY <1>1, <1>3 DEF r

LEMMA RemoveElems ==
  ASSUME NEW s \in Seq(Channel), NEW i \in 1..Len(s)
  PROVE  /\ RemoveAt(s, i) \in Seq(Channel) /\ Len(RemoveAt(s, i)) = Len(s) - 1
         /\ ~Clash(s) => Elems(RemoveAt(s, i)) = {d \in Elems(s) : d.name # s[i].name}
<1> DEFINE r == RemoveAt(s, i)
<1>1. /\ r \in Seq(Channel) /\ Len(r) = Len(s) - 1
      /\ \A k \in 1..(Len(s) - 1) : r[k] = IF k < i THEN s[k] ELSE s[k + 1]
  BY RemoveSeq, Zenon
<1> HIDE DEF r
<1>2. Len(s) \in Nat /\ i \in Nat
  BY SeqIs
<1>3. ASSUME ~Clash(s) PROVE Elems(r) = {d \in Elems(s) : d.name # s[i].name}
  <2>1. \A j \in 1..Len(s) : s[j].name = s[i].name => j = i
    BY <1>3, NoClash
  <2>2. ASSUME NEW e \in Elems(r) PROVE e \in {d \in Elems(s) : d.name # s[i].name}
    <3>1. PICK k \in 1..(Len(s) - 1) : e = r[k]
      BY <1>1 DEF Elems
    <3>2. CASE k < i
      <4>1. k \in 1..Len(s) /\ k # i /\ e = s[k]
        BY <3>1, <3>2, <1>1, <1>2
      <4> QED BY <4>1, <2>1 DEF Elems
    <3>3. CASE ~(k < i)
      <4>1. k + 1 \in 1..Len(s) /\ k + 1 # i /\ e = s[k + 1]
        BY <3>1, <3>3, <1>1, <1>2
      <4> QED BY <4>1, <2>1 DEF Elems
    <3> QED BY <3>2, <3>3
  <2>3. ASSUME NEW e \in {d \in Elems(s) : d.name # s[i].name} PROVE e \in Elems(r)
    <3>1. PICK j \in 1..Len(s) : e = s[j] /\ s[j].name # s[i].name
      BY DEF Elems
    <3>2. CASE j < i
      <4>1. j \in 1..(Len(s) - 1) /\ e = r[j]
        BY <3>1, <3>2, <1>1, <1>2
      <4> QED BY <4>1, <1>1 DEF Elems
    <3>3. CASE ~(j < i)
      <4>1. j # i
        BY <3>1
      <4>2. j - 1 \in 1..(Len(s) - 1) /\ ~(j - 1 < i) /\ (j - 1) + 1 = j
        BY <3>3, <4>1, <1>2
      <4>3. e = r[j - 1]
        BY <3>1, <4>2, <1>1
      <4> QED BY <4>2, <4>3, <1>1 DEF Elems
    <3> QED BY <3>2, <3>3
  <2> QED BY <2>2, <2>3
<1> QED BY <1>1, <1>3 DEF r

-----------------------------------------------------------------------------
(* What a request does *)

\* A request changes its own name, and no other.
LEMMA FollowIs ==
  ASSUME NEW v \in Views, NEW r \in Request
  PROVE  LET w == Follow(v, r) IN
           /\ w \in Views /\ w.quick = v.quick
           /\ \A n \in Name :
                /\ w.series[n] = IF n # r.name THEN v.series[n]
                                 ELSE IF r.chart THEN "set" ELSE "none"
                /\ n \in w.columns <=> IF n # r.name THEN n \in v.columns ELSE r.chart
                /\ n \in w.cards <=> IF n # r.name THEN n \in v.cards ELSE r.card
                /\ n # r.name => (n \in w.hidden <=> n \in v.hidden)
                /\ n = r.name /\ n \in w.hidden /\ r.chart =>
                     n \in v.hidden /\ v.series[n] # "none"
<1> DEFINE N == r.name
           a == [v EXCEPT !.series[N] = "set",
                          !.hidden = IF v.series[N] = "none" THEN @ \ {N} ELSE @]
           b == [v EXCEPT !.series[N] = "none",
                          !.hidden = IF v.series[N] = "auto" /\ v.quick THEN @ \cup {N} ELSE @]
           c == IF r.chart THEN a ELSE b
           w == [c EXCEPT !.columns = Columns(v, N, r.chart), !.cards = Cards(v, N, r.card)]
<1>1. N \in Name /\ r.chart \in BOOLEAN /\ r.card \in BOOLEAN
  BY DEF Request
<1>2. v.series \in [Name -> Series] /\ v.hidden \subseteq Name /\ v.quick \in BOOLEAN
      /\ v.columns \subseteq Name /\ v.cards \subseteq Name
  BY DEF Views
<1>3. Follow(v, r) = w
  BY Zenon DEF Follow, AddChannel, RemoveChannel
<1> HIDE DEF N
<1>4. a \in Views /\ a.series = [v.series EXCEPT ![N] = "set"] /\ a.quick = v.quick
      /\ a.hidden = IF v.series[N] = "none" THEN v.hidden \ {N} ELSE v.hidden
  BY <1>1, <1>2 DEF Views, Series
<1>5. b \in Views /\ b.series = [v.series EXCEPT ![N] = "none"] /\ b.quick = v.quick
      /\ b.hidden = IF v.series[N] = "auto" /\ v.quick THEN v.hidden \cup {N} ELSE v.hidden
  BY <1>1, <1>2 DEF Views, Series
<1>6. c \in Views /\ c.series = [v.series EXCEPT ![N] = IF r.chart THEN "set" ELSE "none"]
      /\ c.quick = v.quick
      /\ c.hidden = IF r.chart THEN IF v.series[N] = "none" THEN v.hidden \ {N} ELSE v.hidden
                    ELSE IF v.series[N] = "auto" /\ v.quick THEN v.hidden \cup {N} ELSE v.hidden
  <2> HIDE DEF a, b
  <2> QED BY <1>1, <1>4, <1>5
<1> HIDE DEF a, b, c
<1>7. w \in Views /\ w.series = c.series /\ w.quick = c.quick /\ w.hidden = c.hidden
      /\ w.columns = Columns(v, N, r.chart) /\ w.cards = Cards(v, N, r.card)
  <2>1. Columns(v, N, r.chart) \in SUBSET Name /\ Cards(v, N, r.card) \in SUBSET Name
    BY <1>1, <1>2 DEF Columns, Cards
  <2> QED BY <1>6, <2>1 DEF Views
<1> HIDE DEF w
<1>8. ASSUME NEW n \in Name
      PROVE  /\ w.series[n] = IF n # N THEN v.series[n] ELSE IF r.chart THEN "set" ELSE "none"
             /\ n \in w.columns <=> IF n # N THEN n \in v.columns ELSE r.chart
             /\ n \in w.cards <=> IF n # N THEN n \in v.cards ELSE r.card
             /\ n # N => (n \in w.hidden <=> n \in v.hidden)
             /\ n = N /\ n \in w.hidden /\ r.chart => n \in v.hidden /\ v.series[n] # "none"
  <2>1. w.series[n] = IF n # N THEN v.series[n] ELSE IF r.chart THEN "set" ELSE "none"
    BY <1>1, <1>2, <1>6, <1>7
  <2>2. /\ n \in w.columns <=> IF n # N THEN n \in v.columns ELSE r.chart
        /\ n \in w.cards <=> IF n # N THEN n \in v.cards ELSE r.card
    BY <1>1, <1>7 DEF Columns, Cards
  <2>3. /\ n # N => (n \in w.hidden <=> n \in v.hidden)
        /\ n = N /\ n \in w.hidden /\ r.chart => n \in v.hidden /\ v.series[n] # "none"
    BY <1>1, <1>2, <1>6, <1>7
  <2> QED BY <2>1, <2>2, <2>3
<1> QED BY <1>3, <1>6, <1>7, <1>8 DEF N

\* The views that showed S show T after a request for the name by which they differ.
LEMMA AskAgrees ==
  ASSUME NEW S \in SUBSET Channel, NEW T \in SUBSET Channel, NEW v \in Views, NEW r \in Request,
         Agree(S, v),
         \A c \in Channel : c.name # r.name => (c \in S <=> c \in T),
         \A c \in T : c.name = r.name => (c.chart <=> r.chart) /\ (c.card <=> r.card),
         r.chart \/ r.card => \E c \in T : c.name = r.name
  PROVE  Agree(T, Follow(v, r))
<1> DEFINE w == Follow(v, r)
<1>1. \A n \in Name :
        /\ w.series[n] = IF n # r.name THEN v.series[n] ELSE IF r.chart THEN "set" ELSE "none"
        /\ n \in w.columns <=> IF n # r.name THEN n \in v.columns ELSE r.chart
        /\ n \in w.cards <=> IF n # r.name THEN n \in v.cards ELSE r.card
        /\ n # r.name => (n \in w.hidden <=> n \in v.hidden)
        /\ n = r.name /\ n \in w.hidden /\ r.chart => n \in v.hidden /\ v.series[n] # "none"
  BY FollowIs, Zenon
<1>2. r.chart \in BOOLEAN /\ r.card \in BOOLEAN
  BY DEF Request
<1> HIDE DEF w
<1> SUFFICES ASSUME NEW n \in Name
             PROVE  /\ w.series[n] = "set" <=> \E c \in T : c.name = n /\ c.chart
                    /\ n \in w.columns <=> \E c \in T : c.name = n /\ c.chart
                    /\ n \in w.cards <=> \E c \in T : c.name = n /\ c.card
                    /\ (\E c \in T : c.name = n) => w.series[n] # "auto"
                    /\ n \in w.hidden => w.series[n] = "none"
  BY DEF Agree, w
<1>3. /\ v.series[n] = "set" <=> \E c \in S : c.name = n /\ c.chart
      /\ n \in v.columns <=> \E c \in S : c.name = n /\ c.chart
      /\ n \in v.cards <=> \E c \in S : c.name = n /\ c.card
      /\ (\E c \in S : c.name = n) => v.series[n] # "auto"
      /\ n \in v.hidden => v.series[n] = "none"
  BY DEF Agree
<1>4. CASE n # r.name
  <2>1. \A c \in Channel : c.name = n => (c \in S <=> c \in T)
    BY <1>4
  <2>2. /\ (\E c \in S : c.name = n) <=> (\E c \in T : c.name = n)
        /\ (\E c \in S : c.name = n /\ c.chart) <=> (\E c \in T : c.name = n /\ c.chart)
        /\ (\E c \in S : c.name = n /\ c.card) <=> (\E c \in T : c.name = n /\ c.card)
    BY <2>1
  <2> QED BY <1>1, <1>3, <1>4, <2>2
<1>5. CASE n = r.name
  <2>1. /\ r.chart <=> \E c \in T : c.name = n /\ c.chart
        /\ r.card <=> \E c \in T : c.name = n /\ c.card
    BY <1>5
  <2>2. /\ w.series[n] = IF r.chart THEN "set" ELSE "none"
        /\ n \in w.columns <=> r.chart
        /\ n \in w.cards <=> r.card
        /\ n \in w.hidden /\ r.chart => n \in v.hidden /\ v.series[n] # "none"
    BY <1>1, <1>5
  <2> QED BY <1>2, <1>3, <2>1, <2>2
<1> QED BY <1>4, <1>5

\* A request makes no series of Quick Plot's.
LEMMA FollowAutos ==
  ASSUME NEW v \in Views, NEW r \in Request
  PROVE  AutosOf(Follow(v, r)) \subseteq AutosOf(v)
<1> DEFINE w == Follow(v, r)
<1>1. \A n \in Name :
        /\ w.series[n] = IF n # r.name THEN v.series[n] ELSE IF r.chart THEN "set" ELSE "none"
        /\ n \in w.columns <=> IF n # r.name THEN n \in v.columns ELSE r.chart
        /\ n \in w.cards <=> IF n # r.name THEN n \in v.cards ELSE r.card
        /\ n # r.name => (n \in w.hidden <=> n \in v.hidden)
        /\ n = r.name /\ n \in w.hidden /\ r.chart => n \in v.hidden /\ v.series[n] # "none"
  BY FollowIs, Zenon
<1> HIDE DEF w
<1> QED BY <1>1 DEF AutosOf, w

\* A list of requests, one after the other.
LEMMA FollowedIs ==
  ASSUME NEW v \in Views, NEW reqs \in Seq(Request)
  PROVE  \E f \in [0..Len(reqs) -> Views] :
           /\ f[0] = v /\ \A n \in 1..Len(reqs) : f[n] = Follow(f[n - 1], reqs[n])
           /\ Followed(v, reqs) = f[Len(reqs)]
<1> DEFINE f == CHOOSE g : g = [n \in 0..Len(reqs) |-> IF n = 0 THEN v ELSE Follow(g[n - 1], reqs[n])]
           G == [p \in Views \X Request |-> Follow(p[1], p[2])]
<1>1. Len(reqs) \in Nat /\ \A n \in 1..Len(reqs) : reqs[n] \in Request
  BY SeqIs
<1>2. \A x \in Views, r \in Request : Follow(x, r) \in Views
  BY FollowIs
<1>3. G \in [Views \X Request -> Views]
  BY <1>2
<1>4. Followed(v, reqs) = f[Len(reqs)]
  BY Zenon DEF Followed
<1> HIDE DEF f
<1>5. PICK d : Solves(d, Views, v, G, reqs)
  <2> HIDE DEF G
  <2> QED BY <1>3, Recursion, Zenon
<1>6. d \in [0..Len(reqs) -> Views] /\ d[0] = v
  BY <1>5 DEF Solves
<1>7. ASSUME NEW n \in 1..Len(reqs) PROVE d[n] = Follow(d[n - 1], reqs[n])
  <2>1. d[n - 1] \in Views /\ reqs[n] \in Request /\ d[n] = G[<<d[n - 1], reqs[n]>>]
    <3> HIDE DEF G
    <3>1. n - 1 \in 0..Len(reqs)
      BY <1>1
    <3>2. d[n] = G[<<d[n - 1], reqs[n]>>]
      BY <1>5, Zenon DEF Solves
    <3> QED BY <3>1, <3>2, <1>1, <1>6
  <2> QED BY <2>1
<1> HIDE DEF G
<1>8. d = [n \in 0..Len(reqs) |-> IF n = 0 THEN v ELSE Follow(d[n - 1], reqs[n])]
  BY <1>1, <1>6, <1>7
<1>9. f = [n \in 0..Len(reqs) |-> IF n = 0 THEN v ELSE Follow(f[n - 1], reqs[n])]
  BY <1>8, Zenon DEF f
<1>10. f[0] = v /\ \A n \in 1..Len(reqs) : f[n] = Follow(f[n - 1], reqs[n])
  <2>1. 0 \in 0..Len(reqs) /\ \A n \in 1..Len(reqs) : n \in 0..Len(reqs) /\ n # 0
    BY <1>1
  <2> QED BY <1>9, <2>1, Zenon
<1> DEFINE T == {n \in 0..Len(reqs) : f[n] = d[n]}
<1>11. 0 \in T
  BY <1>1, <1>6, <1>10
<1>12. ASSUME NEW n \in 0..(Len(reqs) - 1), n \in T PROVE n + 1 \in T
  <2> DEFINE m == n + 1
  <2>1. m \in 1..Len(reqs) /\ m - 1 = n /\ m \in 0..Len(reqs)
    BY <1>1
  <2>2. f[n] = d[n]
    BY <1>12
  <2> HIDE DEF T, m
  <2>3. f[m] = d[m]
    BY <2>1, <2>2, <1>7, <1>10
  <2> QED BY <2>1, <2>3 DEF T, m
<1> HIDE DEF T
<1>13. 0..Len(reqs) \subseteq T /\ Len(reqs) \in 0..Len(reqs)
  <2>1. Len(reqs) \in 0..Len(reqs)
    BY <1>1
  <2> QED BY <2>1, <1>1, <1>11, <1>12, UpTo, Zenon
<1>14. Followed(v, reqs) = d[Len(reqs)]
  BY <1>4, <1>13 DEF T
<1> QED BY <1>6, <1>7, <1>14

LEMMA FollowedViews ==
  ASSUME NEW v \in Views, NEW reqs \in Seq(Request)
  PROVE  Followed(v, reqs) \in Views /\ AutosOf(Followed(v, reqs)) \subseteq AutosOf(v)
<1>1. PICK f \in [0..Len(reqs) -> Views] :
           /\ f[0] = v /\ \A n \in 1..Len(reqs) : f[n] = Follow(f[n - 1], reqs[n])
           /\ Followed(v, reqs) = f[Len(reqs)]
  BY FollowedIs, Zenon
<1>2. Len(reqs) \in Nat /\ \A n \in 1..Len(reqs) : reqs[n] \in Request
  BY SeqIs
<1> DEFINE T == {n \in 0..Len(reqs) : AutosOf(f[n]) \subseteq AutosOf(v)}
<1>3. 0 \in T
  BY <1>1, <1>2
<1>4. ASSUME NEW n \in 0..(Len(reqs) - 1), n \in T PROVE n + 1 \in T
  <2> DEFINE m == n + 1
  <2>1. m \in 1..Len(reqs) /\ m - 1 = n /\ m \in 0..Len(reqs) /\ n \in 0..Len(reqs)
    BY <1>2
  <2>2. AutosOf(f[n]) \subseteq AutosOf(v)
    BY <1>4
  <2> HIDE DEF T, m
  <2>3. f[m] = Follow(f[n], reqs[m]) /\ f[n] \in Views /\ reqs[m] \in Request
    BY <2>1, <1>1, <1>2
  <2>4. AutosOf(f[m]) \subseteq AutosOf(f[n])
    BY <2>3, FollowAutos
  <2>5. AutosOf(f[m]) \subseteq AutosOf(v)
    BY <2>2, <2>4
  <2> QED BY <2>1, <2>5 DEF T, m
<1> HIDE DEF T
<1>5. Len(reqs) \in 0..Len(reqs)
  BY <1>2
<1>6. Len(reqs) \in T
  BY <1>2, <1>3, <1>4, <1>5, UpTo, Zenon
<1> QED BY <1>1, <1>5, <1>6 DEF T

LEMMA FollowedOne ==
  ASSUME NEW v \in Views, NEW r \in Request
  PROVE  <<r>> \in Seq(Request) /\ Followed(v, <<r>>) = Follow(v, r)
<1> DEFINE q == <<r>>
<1>1. q \in Seq(Request) /\ Len(q) = 1 /\ q[1] = r
  OBVIOUS
<1> HIDE DEF q
<1>2. PICK f \in [0..Len(q) -> Views] :
           /\ f[0] = v /\ \A n \in 1..Len(q) : f[n] = Follow(f[n - 1], q[n])
           /\ Followed(v, q) = f[Len(q)]
  BY <1>1, FollowedIs, Zenon
<1>3. f[1] = Follow(f[1 - 1], q[1])
  BY <1>1, <1>2
<1>4. Followed(v, q) = Follow(v, r)
  BY <1>1, <1>2, <1>3
<1> QED BY <1>1, <1>4 DEF q

LEMMA FollowedTwo ==
  ASSUME NEW v \in Views, NEW r \in Request, NEW s \in Request
  PROVE  <<r, s>> \in Seq(Request) /\ Followed(v, <<r, s>>) = Follow(Follow(v, r), s)
<1> DEFINE q == <<r, s>>
<1>1. q \in Seq(Request) /\ Len(q) = 2 /\ q[1] = r /\ q[2] = s
  OBVIOUS
<1> HIDE DEF q
<1>2. PICK f \in [0..Len(q) -> Views] :
           /\ f[0] = v /\ \A n \in 1..Len(q) : f[n] = Follow(f[n - 1], q[n])
           /\ Followed(v, q) = f[Len(q)]
  BY <1>1, FollowedIs, Zenon
<1>3. f[1] = Follow(f[1 - 1], q[1]) /\ f[2] = Follow(f[2 - 1], q[2])
  BY <1>1, <1>2
<1>4. f[1] = Follow(v, r) /\ f[2] = Follow(f[1], s)
  BY <1>1, <1>2, <1>3
<1>5. Followed(v, q) = Follow(Follow(v, r), s)
  BY <1>1, <1>2, <1>4
<1> QED BY <1>1, <1>5 DEF q

LEMMA RequestIs ==
  ASSUME NEW n \in Name, NEW a \in BOOLEAN, NEW b \in BOOLEAN
  PROVE  /\ Req(n, a, b) \in Request
         /\ Req(n, a, b).name = n /\ Req(n, a, b).chart = a /\ Req(n, a, b).card = b
  BY DEF Req, Request

-----------------------------------------------------------------------------
(* The variables *)

LEMMA ViewsAre ==
  ASSUME NEW v \in Views
  PROVE  /\ v.series \in [Name -> Series] /\ v.hidden \subseteq Name /\ v.quick \in BOOLEAN
         /\ v.columns \subseteq Name /\ v.cards \subseteq Name
         /\ v = [series |-> v.series, hidden |-> v.hidden, quick |-> v.quick,
                 columns |-> v.columns, cards |-> v.cards]
  BY DEF Views

LEMMA DisplayIs ==
  ASSUME ViewsTypeOK
  PROVE  /\ Display \in Views /\ AutosOf(Display) = Autos
         /\ Display.series = series /\ Display.hidden = hidden /\ Display.quick = quick
         /\ Display.columns = columns /\ Display.cards = cards
  BY DEF ViewsTypeOK, Display, Views, AutosOf, Autos

LEMMA AutosBound ==
  ASSUME NEW S, NEW T, S \subseteq T, T \subseteq Name, Cardinality(T) <= MaxAuto
  PROVE  Cardinality(S) <= MaxAuto
<1>1. IsFiniteSet(T)
  BY ViewNumbers, FS_Subset
<1>2. IsFiniteSet(S) /\ Cardinality(S) <= Cardinality(T)
  BY <1>1, FS_Subset
<1>3. Cardinality(S) \in Nat /\ Cardinality(T) \in Nat
  BY <1>1, <1>2, FS_CardinalityType
<1> QED BY <1>2, <1>3, ViewNumbers

LEMMA PlotKept ==
  ASSUME NEW p \in Plot, NEW kept \in SUBSET Name
  PROVE  [p EXCEPT !.dirty = @ \cap kept, !.behind = @ \cap kept] \in Plot
<1>1. p.dirty \cap kept \in SUBSET Name /\ p.behind \cap kept \in SUBSET Name
  BY DEF Plot
<1> QED BY <1>1 DEF Plot

\* What the views show after a list of requests.
LEMMA ShowIs ==
  ASSUME ViewsInv, NEW reqs \in Seq(Request), Show(reqs)
  PROVE  /\ series' \in [Name -> Series] /\ hidden' \subseteq Name /\ quick' \in BOOLEAN
         /\ columns' \subseteq Name /\ cards' \subseteq Name /\ plot' \in Plot
         /\ Cardinality(Autos') <= MaxAuto
         /\ Display' = Followed(Display, reqs)
<1> DEFINE w == Followed(Display, reqs)
<1>1. w \in Views /\ AutosOf(w) \subseteq Autos
  BY DisplayIs, FollowedViews DEF ViewsInv
<1>2. /\ series' = w.series /\ hidden' = w.hidden /\ quick' = w.quick
      /\ columns' = w.columns /\ cards' = w.cards /\ SetPlot(plot, Keeps(w))
  BY DEF Show, SetChart
<1> HIDE DEF w
<1>3. Autos \subseteq Name /\ Cardinality(Autos) <= MaxAuto
  BY DEF ViewsInv, Autos
<1>4. Autos' = AutosOf(w)
  BY <1>2 DEF Autos, AutosOf
<1>5. Cardinality(Autos') <= MaxAuto
  BY <1>1, <1>3, <1>4, AutosBound, Zenon
<1>6. plot' \in Plot
  BY <1>2, PlotKept DEF SetPlot, Keeps, ViewsInv, ViewsTypeOK
<1>7. Display' = w
  BY <1>1, <1>2, ViewsAre DEF Display
<1> QED BY <1>1, <1>2, <1>5, <1>6, <1>7, ViewsAre DEF w

-----------------------------------------------------------------------------
(* The steps *)

\* A list of requests that goes with a new list of channels.
LEMMA AskStep ==
  ASSUME ViewsInv, NEW reqs \in Seq(Request), Show(reqs),
         NEW s \in Seq(Channel), Len(s) <= MaxChannel, SetChannels(s),
         ~torn /\ ~Clash(s) => Agree(Elems(s), Followed(Display, reqs)),
         editor' \in {"closed", "new", "stale"}, editing' = 0, was' = was
  PROVE  ViewsInv'
<1>1. /\ series' \in [Name -> Series] /\ hidden' \subseteq Name /\ quick' \in BOOLEAN
      /\ columns' \subseteq Name /\ cards' \subseteq Name /\ plot' \in Plot
      /\ Cardinality(Autos') <= MaxAuto
      /\ Display' = Followed(Display, reqs)
  BY ShowIs
<1>2. channels' = s /\ torn' = (torn \/ Clash(s))
  BY DEF SetChannels
<1>3. torn \in BOOLEAN /\ was \in Name
  BY DEF ViewsInv, ViewsTypeOK
<1>4. torn' \in BOOLEAN /\ (~torn' => ~torn /\ ~Clash(s))
  BY <1>2, <1>3 DEF Clash
<1>5. ViewsTypeOK'
  BY <1>1, <1>2, <1>3, <1>4 DEF ViewsTypeOK, Rows
<1>6. ~torn' => ~Clash(channels') /\ Agree(Elems(channels'), Display')
  BY <1>1, <1>2, <1>4, Zenon
<1> QED BY <1>1, <1>5, <1>6 DEF ViewsInv

\* A step that leaves the channels and what is shown of them.
LEMMA QuietStep ==
  ASSUME ViewsInv, UNCHANGED <<channels, series, hidden, quick, columns, cards, torn>>,
         plot' \in Plot, was' \in Name,
         \/ UNCHANGED <<editor, editing, was>>
         \/ editor' \in {"closed", "new"} /\ editing' = 0
         \/ editor' = "row" /\ editing' \in Rows /\ was' = channels[editing'].name
  PROVE  ViewsInv'
<1>1. ViewsTypeOK'
  <2>1. editor' \in {"closed", "new", "row", "stale"} /\ editing' \in Rows \cup {0}
        /\ (editor' = "row" <=> editing' # 0)
    <3>1. \A i \in Rows : i # 0
      BY DEF Rows
    <3> QED BY <3>1 DEF ViewsInv, ViewsTypeOK
  <2> QED BY <2>1 DEF ViewsInv, ViewsTypeOK, Rows
<1>2. editor' = "row" => was' = channels'[editing'].name
  BY DEF ViewsInv
<1>3. Autos' = Autos /\ Display' = Display
  BY DEF Autos, Display
<1>4. ~torn' => ~Clash(channels') /\ Agree(Elems(channels'), Display')
  BY <1>3, Zenon DEF ViewsInv
<1> QED BY <1>1, <1>2, <1>3, <1>4 DEF ViewsInv

LEMMA OpenStep == ASSUME ViewsInv, OpenEditor PROVE ViewsInv'
<1>1. \A i \in Rows : channels[i].name \in Name
  BY SeqIs, ChannelIs DEF ViewsInv, ViewsTypeOK, Rows
<1>2. plot' \in Plot /\ UNCHANGED <<channels, series, hidden, quick, columns, cards, torn>>
  BY DEF OpenEditor, chart, ViewsInv, ViewsTypeOK
<1>3. was' \in Name
  BY <1>1 DEF OpenEditor, ViewsInv, ViewsTypeOK
<1>4. \/ editor' \in {"closed", "new"} /\ editing' = 0
      \/ editor' = "row" /\ editing' \in Rows /\ was' = channels[editing'].name
  BY DEF OpenEditor
<1> QED BY <1>2, <1>3, <1>4, QuietStep

LEMMA CloseStep == ASSUME ViewsInv, CloseEditor PROVE ViewsInv'
<1>1. plot' \in Plot /\ UNCHANGED <<channels, series, hidden, quick, columns, cards, torn>>
      /\ was' \in Name /\ editor' \in {"closed", "new"} /\ editing' = 0
  BY DEF CloseEditor, chart, ViewsInv, ViewsTypeOK
<1> QED BY <1>1, QuietStep

LEMMA RedrawPlot == ASSUME NEW p \in Plot PROVE Redraw(p) \in Plot
  BY DEF Redraw, Plot

LEMMA MarkedPlot == ASSUME NEW p \in Plot PROVE MarkAll(p) \in Plot
<1>1. [p EXCEPT !.any = TRUE, !.dirty = Drawn] \in Plot
  BY DEF Plot, Drawn
<1> QED BY <1>1, RedrawPlot DEF MarkAll

LEMMA SampledPlot ==
  ASSUME NEW p \in Plot, NEW has \in SUBSET Name, NEW names
  PROVE  Sampled(p, has, names) \in Plot
<1>1. p.dirty \cup (has \cap names) \in SUBSET Name /\ p.behind \cup (has \cap names) \in SUBSET Name
  BY DEF Plot
<1> QED BY <1>1 DEF Sampled, Plot

LEMMA DrawStep == ASSUME ViewsInv, View \/ RedrawTimer PROVE ViewsInv'
<1>1. UNCHANGED <<channels, series, hidden, quick, columns, cards, torn>>
      /\ UNCHANGED <<editor, editing, was>>
  BY DEF View, RedrawTimer, panel, chart
<1>2. plot \in Plot /\ was' \in Name
  BY <1>1 DEF ViewsInv, ViewsTypeOK
<1>3. \A b \in BOOLEAN : [plot EXCEPT !.paused = b] \in Plot /\ [plot EXCEPT !.visible = b] \in Plot
  BY <1>2 DEF Plot
<1>4. plot' \in Plot
  BY <1>2, <1>3, RedrawPlot, MarkedPlot DEF View, RedrawTimer
<1> QED BY <1>1, <1>2, <1>4, QuietStep

\* The channel of the editor takes the place of its row.
LEMMA SaveAgrees ==
  ASSUME ViewsInv, NEW ch \in Channel, editor = "row", ~torn,
         NEW s, s = [channels EXCEPT ![editing] = ch], ~Clash(s)
  PROVE  /\ OldName(ch) \o <<Req(ch.name, ch.chart, ch.card)>> \in Seq(Request)
         /\ Agree(Elems(s), Followed(Display, OldName(ch) \o <<Req(ch.name, ch.chart, ch.card)>>))
<1> DEFINE r == Req(ch.name, ch.chart, ch.card)
           o == Req(was, FALSE, FALSE)
           S == Elems(channels)
           T == Elems(s)
           U == {d \in S : d.name # was}
<1>1. channels \in Seq(Channel) /\ editing \in 1..Len(channels) /\ was \in Name
      /\ was = channels[editing].name /\ ViewsTypeOK
  BY DEF ViewsInv, ViewsTypeOK, Rows
<1>2. ~Clash(channels) /\ Agree(S, Display) /\ S \in SUBSET Channel
  BY <1>1, NoClash DEF ViewsInv
<1>3. s \in Seq(Channel) /\ T = U \cup {ch}
  <2>1. s \in Seq(Channel) /\ T = {d \in S : d.name # channels[editing].name} \cup {ch}
    BY <1>1, <1>2, ExceptElems, Zenon
  <2> HIDE DEF S, T
  <2> QED BY <1>1, <2>1
<1>4. OneEach(T) /\ ch \in T /\ T \in SUBSET Channel /\ U \in SUBSET Channel
  BY <1>2, <1>3, NoClash
<1>5. r \in Request /\ r.name = ch.name /\ r.chart = ch.chart /\ r.card = ch.card
      /\ o \in Request /\ o.name = was /\ o.chart = FALSE /\ o.card = FALSE
  <2>1. r \in Request /\ r.name = ch.name /\ r.chart = ch.chart /\ r.card = ch.card
    BY ChannelIs, RequestIs
  <2>2. o \in Request /\ o.name = was /\ o.chart = FALSE /\ o.card = FALSE
    <3>1. FALSE \in BOOLEAN
      OBVIOUS
    <3> QED BY <1>1, <3>1, RequestIs, Zenon
  <2> QED BY <2>1, <2>2
<1>6. Display \in Views
  BY <1>1, DisplayIs
<1> HIDE DEF r, o, S, T
<1>7. \A c \in T : c.name = r.name => c = ch
  BY <1>4, <1>5 DEF OneEach
<1>8. CASE was = ch.name
  <2>1. OldName(ch) \o <<r>> = <<r>>
    BY <1>8 DEF OldName
  <2>2. \A c \in Channel : c.name # r.name => (c \in S <=> c \in T)
    BY <1>3, <1>5, <1>8
  <2> HIDE DEF U
  <2>3. Agree(T, Follow(Display, r))
    BY <1>2, <1>4, <1>5, <1>6, <1>7, <2>2, AskAgrees
  <2> QED BY <2>1, <2>3, <1>5, <1>6, FollowedOne DEF r, T
<1>9. CASE was # ch.name
  <2>1. OldName(ch) \o <<r>> = <<o, r>>
    <3>1. OldName(ch) = <<o>>
      BY <1>9, Zenon DEF OldName, o
    <3> QED BY <3>1, PairIs
  <2>2. Agree(U, Follow(Display, o))
    BY <1>2, <1>4, <1>5, <1>6, AskAgrees
  <2>3. Follow(Display, o) \in Views
    BY <1>5, <1>6, FollowIs
  <2>4. \A c \in Channel : c.name # r.name => (c \in U <=> c \in T)
    BY <1>3, <1>5
  <2> HIDE DEF U
  <2>5. Agree(T, Follow(Follow(Display, o), r))
    BY <1>4, <1>5, <1>7, <2>2, <2>3, <2>4, AskAgrees
  <2> QED BY ZenonT(40), <2>1, <2>5, <1>5, <1>6, FollowedTwo DEF r, T
<1> QED BY <1>8, <1>9

LEMMA SaveRequests ==
  ASSUME NEW ch \in Channel, was \in Name
  PROVE  OldName(ch) \in Seq(Request) /\ OldName(ch) \o <<Req(ch.name, ch.chart, ch.card)>> \in Seq(Request)
<1>1. Req(ch.name, ch.chart, ch.card) \in Request /\ Req(was, FALSE, FALSE) \in Request
  BY ChannelIs, RequestIs
<1>2. \A r \in Request : <<r>> \in Seq(Request)
  OBVIOUS
<1>3. <<>> \in Seq(Request)
  OBVIOUS
<1>4. OldName(ch) \in Seq(Request) /\ <<Req(ch.name, ch.chart, ch.card)>> \in Seq(Request)
  BY <1>1, <1>2, <1>3, Zenon DEF OldName
<1>5. \A a, b \in Seq(Request) : a \o b \in Seq(Request)
  OBVIOUS
<1> QED BY <1>4, <1>5, Zenon

\* A channel of a name that no channel has, at the end.
LEMMA AppendAgrees ==
  ASSUME ViewsInv, ~torn, NEW ch \in Channel, ~Clash(Append(channels, ch))
  PROVE  Agree(Elems(Append(channels, ch)), Follow(Display, Req(ch.name, ch.chart, ch.card)))
<1> DEFINE r == Req(ch.name, ch.chart, ch.card)
           S == Elems(channels)
           T == Elems(Append(channels, ch))
<1>1. channels \in Seq(Channel) /\ ViewsTypeOK /\ ~Clash(channels)
  BY DEF ViewsInv, ViewsTypeOK
<1>2. Agree(S, Display) /\ S \in SUBSET Channel
  BY <1>1, NoClash DEF ViewsInv
<1>3. Append(channels, ch) \in Seq(Channel) /\ T = S \cup {ch}
  BY <1>1, AppendElems
<1>4. OneEach(T) /\ T \in SUBSET Channel
  BY <1>3, NoClash
<1>5. r \in Request /\ r.name = ch.name /\ r.chart = ch.chart /\ r.card = ch.card
  BY ChannelIs, RequestIs
<1>6. Display \in Views
  BY <1>1, DisplayIs
<1> HIDE DEF r, S, T
<1>7. \A c \in T : c.name = r.name => c = ch
  BY <1>3, <1>4, <1>5 DEF OneEach
<1>8. \A c \in Channel : c.name # r.name => (c \in S <=> c \in T)
  BY <1>3, <1>5
<1>9. Agree(T, Follow(Display, r))
  BY <1>2, <1>3, <1>4, <1>5, <1>6, <1>7, <1>8, AskAgrees
<1> QED BY <1>9 DEF r, T

LEMMA SaveStep == ASSUME ViewsInv, NEW ch \in Channel, Save(ch) PROVE ViewsInv'
<1>1. editor' = "closed" /\ editing' = 0 /\ was' = was
  BY DEF Save
<1>2. channels \in Seq(Channel) /\ Len(channels) <= MaxChannel /\ was \in Name /\ ViewsTypeOK
  BY DEF ViewsInv, ViewsTypeOK
<1> DEFINE r == Req(ch.name, ch.chart, ch.card)
<1>3. CASE editor = "new" /\ Len(channels) < MaxChannel
           /\ SetChannels(Append(channels, ch)) /\ Show(<<r>>)
  <2> DEFINE s == Append(channels, ch)
  <2>1. s \in Seq(Channel) /\ Len(s) = Len(channels) + 1 /\ Len(channels) \in Nat
    BY <1>2, AppendElems, SeqIs
  <2>2. Len(s) <= MaxChannel
    BY <1>3, <2>1, ViewNumbers
  <2>3. r \in Request /\ Display \in Views
    BY <1>2, ChannelIs, RequestIs, DisplayIs
  <2>4. <<r>> \in Seq(Request) /\ Followed(Display, <<r>>) = Follow(Display, r)
    BY <2>3, FollowedOne
  <2>5. ~torn /\ ~Clash(s) => Agree(Elems(s), Followed(Display, <<r>>))
    BY <2>4, AppendAgrees
  <2> HIDE DEF s, r
  <2> QED BY <1>1, <1>3, <2>1, <2>2, <2>4, <2>5, AskStep DEF s
<1>4. CASE editor = "row" /\ SetChannels([channels EXCEPT ![editing] = ch])
           /\ Show(OldName(ch) \o <<r>>)
  <2> DEFINE s == [channels EXCEPT ![editing] = ch]
             q == OldName(ch) \o <<r>>
  <2>1. editing \in 1..Len(channels)
    BY <1>4, <1>2 DEF ViewsTypeOK, Rows
  <2>2. s \in Seq(Channel) /\ Len(s) <= MaxChannel
    BY <1>2, <2>1, ExceptElems
  <2>3. q \in Seq(Request)
    BY <1>2, SaveRequests
  <2>4. ~torn /\ ~Clash(s) => Agree(Elems(s), Followed(Display, q))
    BY <1>4, SaveAgrees
  <2> HIDE DEF s, q, r
  <2> QED BY <1>1, <1>4, <2>2, <2>3, <2>4, AskStep DEF s, q
<1> QED BY <1>3, <1>4 DEF Save

\* The save that breaks off.
LEMMA StaleSaveStep == ASSUME ViewsInv, NEW ch \in Channel, SaveStale(ch) PROVE ViewsInv'
<1>1. OldName(ch) \in Seq(Request) /\ Show(OldName(ch)) /\ torn' = TRUE
      /\ UNCHANGED <<channels, editor, editing, was>>
  BY SaveRequests DEF SaveStale, panel, ViewsInv, ViewsTypeOK
<1>2. /\ series' \in [Name -> Series] /\ hidden' \subseteq Name /\ quick' \in BOOLEAN
      /\ columns' \subseteq Name /\ cards' \subseteq Name /\ plot' \in Plot
      /\ Cardinality(Autos') <= MaxAuto
  BY <1>1, ShowIs
<1>3. ViewsTypeOK'
  BY <1>1, <1>2 DEF ViewsInv, ViewsTypeOK, Rows
<1>4. editor' = "row" => was' = channels'[editing'].name
  BY <1>1 DEF ViewsInv
<1> QED BY <1>1, <1>2, <1>3, <1>4 DEF ViewsInv

LEMMA StaleIs ==
  ASSUME ViewsTypeOK, Stale
  PROVE  editor' \in {"closed", "new", "stale"} /\ editing' = 0 /\ was' = was
  BY DEF Stale, ViewsTypeOK

LEMMA DelStep == ASSUME ViewsInv, NEW i, DelRow(i) PROVE ViewsInv'
<1> DEFINE N == channels[i].name
           r == Req(N, FALSE, FALSE)
           s == RemoveAt(channels, i)
           S == Elems(channels)
<1>1. i \in 1..Len(channels) /\ Show(<<r>>) /\ SetChannels(s) /\ Stale
  BY DEF DelRow, Rows
<1>2. channels \in Seq(Channel) /\ Len(channels) <= MaxChannel /\ ViewsTypeOK
  BY DEF ViewsInv, ViewsTypeOK
<1>3. s \in Seq(Channel) /\ Len(s) = Len(channels) - 1 /\ Len(channels) \in Nat
      /\ (~Clash(channels) => Elems(s) = {d \in S : d.name # N})
  BY <1>1, <1>2, RemoveElems, SeqIs
<1>4. Len(s) <= MaxChannel
  BY <1>2, <1>3, ViewNumbers
<1>5. N \in Name
  BY <1>1, <1>2, SeqIs, ChannelIs
<1> HIDE DEF N
<1>6. r \in Request /\ r.name = N /\ r.chart = FALSE /\ r.card = FALSE /\ Display \in Views
  BY <1>2, <1>5, RequestIs, DisplayIs
<1> HIDE DEF r, s
<1>7. <<r>> \in Seq(Request) /\ Followed(Display, <<r>>) = Follow(Display, r)
  BY <1>6, FollowedOne
<1>8. ASSUME ~torn PROVE Agree(Elems(s), Follow(Display, r))
  <2> DEFINE T == Elems(s)
  <2>1. ~Clash(channels) /\ Agree(S, Display) /\ S \in SUBSET Channel
    BY <1>2, <1>8, NoClash DEF ViewsInv
  <2>2. T = {d \in S : d.name # N}
    BY <1>3, <2>1
  <2> HIDE DEF T, S
  <2>3. T \in SUBSET Channel /\ (\A c \in T : c.name # r.name)
        /\ (\A c \in Channel : c.name # r.name => (c \in S <=> c \in T))
    BY <1>6, <2>1, <2>2
  <2>4. Agree(T, Follow(Display, r))
    BY <1>6, <2>1, <2>3, AskAgrees
  <2> QED BY <2>4 DEF T
<1>9. ~torn /\ ~Clash(s) => Agree(Elems(s), Followed(Display, <<r>>))
  BY <1>7, <1>8
<1>10. editor' \in {"closed", "new", "stale"} /\ editing' = 0 /\ was' = was
  BY <1>1, <1>2, StaleIs
<1> QED BY <1>1, <1>3, <1>4, <1>7, <1>9, <1>10, AskStep

\* The check box changes neither the names of the channels nor what they ask for.
LEMMA ToggleRowStep == ASSUME ViewsInv, NEW i, ToggleRow(i) PROVE ViewsInv'
<1> DEFINE s == channels
           e == [s[i] EXCEPT !.enabled = ~s[i].enabled]
           t == [s EXCEPT ![i] = e]
           Like(c, d) == c.name = d.name /\ c.chart = d.chart /\ c.card = d.card
<1>1. i \in 1..Len(s) /\ channels' = t
      /\ UNCHANGED <<editor, editing, was, series, hidden, quick, columns, cards, plot, torn>>
  BY DEF ToggleRow, Rows, chart
<1>2. s \in Seq(Channel) /\ Len(s) <= MaxChannel /\ ViewsTypeOK /\ s[i] \in Channel
  BY <1>1, SeqIs DEF ViewsInv, ViewsTypeOK
<1>3. e \in Channel /\ Like(e, s[i])
  <2> DEFINE c == s[i]
  <2>1. c \in Channel
    BY <1>2
  <2> HIDE DEF c
  <2>2. [c EXCEPT !.enabled = ~c.enabled] \in Channel /\ Like([c EXCEPT !.enabled = ~c.enabled], c)
    BY <2>1 DEF Channel
  <2> QED BY <2>2 DEF c
<1> HIDE DEF e
<1>4. t \in Seq(Channel) /\ Len(t) = Len(s)
  BY <1>1, <1>2, <1>3, ExceptElems
<1>5. \A j \in 1..Len(s) : Like(t[j], s[j])
  BY <1>1, <1>2, <1>3, SeqIs
<1> HIDE DEF t
<1>6. ~Clash(s) => ~Clash(t)
  BY <1>4, <1>5 DEF Clash
<1>7. \A n \in Name : /\ (\E c \in Elems(s) : c.name = n) <=> (\E c \in Elems(t) : c.name = n)
                      /\ (\E c \in Elems(s) : c.name = n /\ c.chart)
                         <=> (\E c \in Elems(t) : c.name = n /\ c.chart)
                      /\ (\E c \in Elems(s) : c.name = n /\ c.card)
                         <=> (\E c \in Elems(t) : c.name = n /\ c.card)
  BY <1>4, <1>5 DEF Elems
<1> HIDE DEF Like
<1>8. Agree(Elems(s), Display) => Agree(Elems(t), Display)
  BY <1>7, Zenon DEF Agree
<1>9. Display' = Display /\ Autos' = Autos
  BY <1>1 DEF Display, Autos
<1>10. ~torn' => ~Clash(channels') /\ Agree(Elems(channels'), Display')
  BY <1>1, <1>6, <1>8, <1>9, Zenon DEF ViewsInv
<1>11. ViewsTypeOK'
  BY <1>1, <1>2, <1>4 DEF ViewsTypeOK, Rows
<1>12. editor' = "row" => was' = channels'[editing'].name
  <2>1. editor = "row" => editing \in 1..Len(s) /\ was = s[editing].name
    BY DEF ViewsInv, ViewsTypeOK, Rows
  <2> QED BY <1>1, <1>5, <2>1 DEF Like
<1> QED BY <1>9, <1>10, <1>11, <1>12 DEF ViewsInv

\* A series that is kept has a name no channel has: no card is shown for it.
LEMMA KeepStep == ASSUME ViewsInv, NEW n \in Name, KeepSeries(n) PROVE ViewsInv'
<1>1. channels \in Seq(Channel) /\ ViewsTypeOK /\ plot \in Plot /\ was \in Name
  BY DEF ViewsInv, ViewsTypeOK
<1>2. CASE n \in Names(channels)
  <2>1. UNCHANGED <<channels, editor, editing, was, series, hidden, quick, columns, cards, plot, torn>>
    BY <1>2 DEF KeepSeries, panel, chart
  <2> QED BY <1>1, <2>1, QuietStep
<1>3. CASE n \notin Names(channels)
  <2> DEFINE ch == [name |-> n, enabled |-> TRUE, chart |-> TRUE, card |-> FALSE]
             r == Req(n, TRUE, n \in cards)
             s == Append(channels, ch)
  <2>1. Len(channels) < MaxChannel /\ SetChannels(s) /\ Show(<<r>>) /\ Stale
    BY <1>3 DEF KeepSeries
  <2>2. ch \in Channel /\ ch.name = n /\ ch.chart = TRUE /\ ch.card = FALSE
    BY DEF Channel
  <2>3. r \in Request
    <3>1. TRUE \in BOOLEAN /\ (n \in cards) \in BOOLEAN
      OBVIOUS
    <3> QED BY <3>1, RequestIs, Zenon
  <2>4. ASSUME ~torn PROVE r = Req(ch.name, ch.chart, ch.card)
    <3>1. n \notin cards
      <4>1. n \in cards <=> \E c \in Elems(channels) : c.name = n /\ c.card
        BY <2>4, <1>1, DisplayIs DEF ViewsInv, Agree
      <4> QED BY <4>1, <1>3 DEF Elems, Names
    <3>2. (n \in cards) = FALSE
      BY <3>1
    <3> HIDE DEF ch
    <3> QED BY <3>2, <2>2, Zenon
  <2> HIDE DEF ch, r
  <2>5. s \in Seq(Channel) /\ Len(s) = Len(channels) + 1 /\ Len(channels) \in Nat
    BY <1>1, <2>2, AppendElems, SeqIs
  <2>6. Len(s) <= MaxChannel
    BY <2>1, <2>5, ViewNumbers
  <2>7. <<r>> \in Seq(Request) /\ Followed(Display, <<r>>) = Follow(Display, r)
    BY <1>1, <2>3, DisplayIs, FollowedOne
  <2>8. ~torn /\ ~Clash(s) => Agree(Elems(s), Followed(Display, <<r>>))
    BY <2>2, <2>4, <2>7, AppendAgrees
  <2>9. editor' \in {"closed", "new", "stale"} /\ editing' = 0 /\ was' = was
    BY <1>1, <2>1, StaleIs
  <2> HIDE DEF s
  <2> QED BY <2>1, <2>5, <2>6, <2>7, <2>8, <2>9, AskStep
<1> QED BY <1>2, <1>3

\* What the chart does by itself: the series of the channels stay, and a series of Quick
\* Plot's goes or comes, but none that is hidden or has a channel's name.
LEMMA ChartStep ==
  ASSUME ViewsInv, UNCHANGED <<channels, editor, editing, was, columns, cards, torn>>,
         series' \in [Name -> Series], hidden' \subseteq Name, quick' \in BOOLEAN, plot' \in Plot,
         Cardinality(Autos') <= MaxAuto,
         ~torn => \A n \in Name :
           /\ series'[n] = "set" <=> series[n] = "set"
           /\ series'[n] = "auto" => series[n] = "auto" \/ n \notin Names(channels)
           /\ n \in hidden' => series'[n] = "none"
  PROVE  ViewsInv'
<1>1. ViewsTypeOK'
  BY DEF ViewsInv, ViewsTypeOK, Rows
<1>2. editor' = "row" => was' = channels'[editing'].name
  BY DEF ViewsInv
<1>3. Display'.series = series' /\ Display'.hidden = hidden' /\ Display'.columns = columns
      /\ Display'.cards = cards
  BY DEF Display
<1>4. Display.series = series /\ Display.columns = columns /\ Display.cards = cards
  BY DEF Display
<1>5. \A n : (\E c \in Elems(channels) : c.name = n) => n \in Names(channels)
  BY DEF Elems, Names
<1>6. ASSUME ~torn, Agree(Elems(channels), Display) PROVE Agree(Elems(channels), Display')
  BY <1>3, <1>4, <1>5, <1>6 DEF Agree
<1>7. ~torn' => ~Clash(channels') /\ Agree(Elems(channels'), Display')
  BY <1>6, Zenon DEF ViewsInv
<1> QED BY <1>1, <1>2, <1>7 DEF ViewsInv

LEMMA PlotSet ==
  ASSUME plot \in Plot, NEW c, SetPlot(plot, Keeps(c))
  PROVE  plot' \in Plot
  BY PlotKept DEF SetPlot, Keeps

\* A hidden name is not drawn.
LEMMA HiddenIs ==
  ASSUME ViewsInv, ~torn, NEW n \in hidden
  PROVE  series[n] = "none"
  BY DisplayIs DEF ViewsInv, ViewsTypeOK, Agree

LEMMA HideStep == ASSUME ViewsInv, NEW n \in Name, HideSeries(n) PROVE ViewsInv'
<1> DEFINE v == Display
           c == RemoveChannel(v, n)
<1>1. series[n] = "auto" /\ SetChart(c) /\ SetPlot(plot, Keeps(c))
      /\ UNCHANGED <<channels, editor, editing, was, columns, cards, torn>>
  BY Zenon DEF HideSeries, panel
<1>2. ViewsTypeOK /\ plot \in Plot
  BY DEF ViewsInv, ViewsTypeOK
<1>3. v \in Views /\ v.series = series /\ v.hidden = hidden /\ v.quick = quick
  BY <1>2, DisplayIs
<1> HIDE DEF v
<1>4. c.series = [series EXCEPT ![n] = "none"] /\ c.quick = quick
      /\ c.hidden = IF series[n] = "auto" /\ quick THEN hidden \cup {n} ELSE hidden
  BY <1>3 DEF RemoveChannel, Views
<1> HIDE DEF c
<1>5. series \in [Name -> Series] /\ hidden \subseteq Name /\ quick \in BOOLEAN
  BY <1>2 DEF ViewsTypeOK
<1>6. series' = [series EXCEPT ![n] = "none"] /\ quick' = quick /\ hidden' \subseteq hidden \cup {n}
  BY <1>1, <1>4 DEF SetChart
<1>7. series' \in [Name -> Series] /\ hidden' \subseteq Name /\ quick' \in BOOLEAN
  BY <1>5, <1>6 DEF Series
<1>8. plot' \in Plot
  BY <1>1, <1>2, PlotSet
<1>9. Autos' \subseteq Autos
  BY <1>5, <1>6 DEF Autos
<1>10. Cardinality(Autos') <= MaxAuto
  <2>1. Autos \subseteq Name /\ Cardinality(Autos) <= MaxAuto
    BY DEF ViewsInv, Autos
  <2> QED BY <2>1, <1>9, AutosBound, Zenon
<1>11. ASSUME ~torn PROVE \A m \in Name :
           /\ series'[m] = "set" <=> series[m] = "set"
           /\ series'[m] = "auto" => series[m] = "auto" \/ m \notin Names(channels)
           /\ m \in hidden' => series'[m] = "none"
  BY <1>1, <1>5, <1>6, <1>11, HiddenIs
<1> QED BY <1>1, <1>7, <1>8, <1>10, <1>11, ChartStep

LEMMA QuickStep == ASSUME ViewsInv, ToggleQuick PROVE ViewsInv'
<1> DEFINE off == [n \in Name |-> IF series[n] = "auto" /\ quick THEN "none" ELSE series[n]]
           c == [series |-> off, hidden |-> IF quick THEN {} ELSE hidden, quick |-> ~quick]
<1>1. SetChart(c) /\ SetPlot(plot, Keeps(c))
      /\ UNCHANGED <<channels, editor, editing, was, columns, cards, torn>>
  BY Zenon DEF ToggleQuick, panel
<1>2. plot \in Plot /\ series \in [Name -> Series] /\ hidden \subseteq Name /\ quick \in BOOLEAN
  BY DEF ViewsInv, ViewsTypeOK
<1>3. \A n \in Name : off[n] = IF series[n] = "auto" /\ quick THEN "none" ELSE series[n]
  OBVIOUS
<1>4. off \in [Name -> Series]
  BY <1>2 DEF Series
<1> HIDE DEF off
<1>5. series' = off /\ hidden' \subseteq hidden /\ quick' = ~quick
  BY <1>1 DEF SetChart
<1> HIDE DEF c
<1>6. series' \in [Name -> Series] /\ hidden' \subseteq Name /\ quick' \in BOOLEAN
  BY <1>2, <1>4, <1>5
<1>7. plot' \in Plot
  BY <1>1, <1>2, PlotSet
<1>8. Autos' \subseteq Autos
  BY <1>3, <1>5 DEF Autos
<1>9. Cardinality(Autos') <= MaxAuto
  <2>1. Autos \subseteq Name /\ Cardinality(Autos) <= MaxAuto
    BY DEF ViewsInv, Autos
  <2> QED BY <2>1, <1>8, AutosBound, Zenon
<1>10. ASSUME ~torn PROVE \A m \in Name :
           /\ series'[m] = "set" <=> series[m] = "set"
           /\ series'[m] = "auto" => series[m] = "auto" \/ m \notin Names(channels)
           /\ m \in hidden' => series'[m] = "none"
  BY <1>3, <1>5, <1>10, HiddenIs
<1> QED BY <1>1, <1>6, <1>7, <1>9, <1>10, ChartStep

\* New series of Quick Plot's stay within its limit.
LEMMA LineStep ==
  ASSUME ViewsInv, NEW parsed, NEW data \in SUBSET Name, OnLine(parsed, data)
  PROVE  ViewsInv'
<1>1. plot \in Plot /\ series \in [Name -> Series] /\ hidden \subseteq Name /\ quick \in BOOLEAN
      /\ ViewsTypeOK
  BY DEF ViewsInv, ViewsTypeOK
<1> DEFINE shown == Sampled(plot, Drawn, parsed)
<1>2. Drawn \in SUBSET Name
  BY DEF Drawn
<1>3. shown \in Plot
  BY <1>1, <1>2, SampledPlot
<1> HIDE DEF shown
<1>4. UNCHANGED <<channels, editor, editing, was, hidden, quick, columns, cards, torn>>
  BY DEF OnLine, panel
<1>5. CASE plot' = shown /\ UNCHANGED series
  <2>1. UNCHANGED <<channels, series, hidden, quick, columns, cards, torn>> /\ plot' \in Plot
        /\ UNCHANGED <<editor, editing, was>> /\ was' \in Name
    BY <1>1, <1>3, <1>4, <1>5 DEF ViewsTypeOK
  <2> QED BY <2>1, QuietStep
<1>6. ASSUME NEW new \in SUBSET Fresh(QuickNames(data)), AddsAuto(QuickNames(data), new),
             series' = [n \in Name |-> IF n \in new THEN "auto" ELSE series[n]],
             plot' = Sampled(shown, Drawn \cup new, QuickNames(data))
      PROVE  ViewsInv'
  <2>1. \A n \in new : n \in Name /\ series[n] = "none" /\ n \notin hidden /\ n \notin Names(channels)
    BY DEF Fresh, QuickNames
  <2>2. \A n \in Name : series'[n] = IF n \in new THEN "auto" ELSE series[n]
    BY <1>6
  <2>3. series' \in [Name -> Series]
    BY <1>1, <1>6 DEF Series
  <2>4. Drawn \cup new \in SUBSET Name
    BY <1>2, <2>1
  <2>5. plot' \in Plot
    BY <1>3, <1>6, <2>4, SampledPlot
  <2>6. Autos' = Autos \cup new /\ Autos \cap new = {} /\ Autos \subseteq Name /\ new \subseteq Name
    BY <2>1, <2>2 DEF Autos
  <2>7. Cardinality(Autos') <= MaxAuto
    <3>1. IsFiniteSet(Autos) /\ IsFiniteSet(new)
      BY <2>6, ViewNumbers, FS_Subset
    <3>2. Cardinality(Autos) \in Nat /\ Cardinality(new) \in Nat
      BY <3>1, FS_CardinalityType
    <3>3. Cardinality(Autos \cup new) = Cardinality(Autos) + Cardinality(new) - Cardinality(Autos \cap new)
      BY <3>1, FS_Union, Zenon
    <3>4. Cardinality(Autos \cap new) = 0
      BY <2>6, FS_EmptySet
    <3>5. Cardinality(new) <= MaxAuto - Cardinality(Autos)
      BY <1>6, Zenon DEF AddsAuto, Room
    <3> QED BY <2>6, <3>2, <3>3, <3>4, <3>5, ViewNumbers
  <2>8. ASSUME ~torn PROVE \A m \in Name :
             /\ series'[m] = "set" <=> series[m] = "set"
             /\ series'[m] = "auto" => series[m] = "auto" \/ m \notin Names(channels)
             /\ m \in hidden' => series'[m] = "none"
    BY <1>4, <2>1, <2>2, <2>8, HiddenIs
  <2>9. hidden' \subseteq Name /\ quick' \in BOOLEAN
    BY <1>1, <1>4
  <2> QED BY <1>4, <2>3, <2>5, <2>7, <2>8, <2>9, ChartStep
<1> QED BY <1>5, <1>6, Zenon DEF OnLine, shown

-----------------------------------------------------------------------------
(* The start *)

LEMMA NewIs ==
  /\ NewViews \in Views /\ AutosOf(NewViews) = {} /\ Agree({}, NewViews) /\ NewPlot \in Plot
<1> DEFINE none == [n \in Name |-> "none"]
<1>1. none \in [Name -> Series] /\ \A n \in Name : none[n] = "none"
  BY DEF Series
<1>2. NewViews.series = none /\ NewViews.hidden = {} /\ NewViews.columns = {} /\ NewViews.cards = {}
  BY DEF NewViews
<1>3. NewViews \in Views /\ NewPlot \in Plot
  BY <1>1 DEF NewViews, NewPlot, Views, Plot
<1> HIDE DEF none
<1> QED BY <1>1, <1>2, <1>3 DEF AutosOf, Agree

\* The settings' channels, shown one by one.
LEMMA StartAgrees ==
  ASSUME NEW s \in Seq(Channel), ~Clash(s), NEW reqs \in Seq(Request), Len(reqs) = Len(s),
         \A i \in 1..Len(s) : reqs[i] = Req(s[i].name, s[i].chart, s[i].card)
  PROVE  Agree(Elems(s), Followed(NewViews, reqs))
<1> DEFINE Upto(n) == {s[i] : i \in 1..n}
<1>1. Len(s) \in Nat /\ \A i \in 1..Len(s) : s[i] \in Channel /\ reqs[i] \in Request
  BY SeqIs
<1>2. \A i, j \in 1..Len(s) : s[i].name = s[j].name => i = j
  BY NoClash
<1>3. PICK f \in [0..Len(reqs) -> Views] :
        /\ f[0] = NewViews /\ \A n \in 1..Len(reqs) : f[n] = Follow(f[n - 1], reqs[n])
        /\ Followed(NewViews, reqs) = f[Len(reqs)]
  BY NewIs, FollowedIs, Zenon
<1>4. Upto(0) = {} /\ Upto(Len(s)) = Elems(s)
  BY DEF Elems
<1>5. ASSUME NEW n \in 0..Len(s) PROVE Upto(n) \in SUBSET Channel
  BY <1>1
<1>6. ASSUME NEW n \in 0..(Len(s) - 1) PROVE Upto(n + 1) = Upto(n) \cup {s[n + 1]}
  <2>1. 1..(n + 1) = (1..n) \cup {n + 1}
    BY <1>1
  <2> QED BY <2>1
<1>7. ASSUME NEW n \in 0..(Len(s) - 1), NEW c \in Upto(n) PROVE c.name # s[n + 1].name
  <2>1. PICK i \in 1..n : c = s[i]
    OBVIOUS
  <2>2. i \in 1..Len(s) /\ n + 1 \in 1..Len(s) /\ i # n + 1
    BY <1>1
  <2> QED BY <2>1, <2>2, <1>2
<1> HIDE DEF Upto
<1> DEFINE T == {n \in 0..Len(s) : Agree(Upto(n), f[n])}
<1>8. 0 \in T
  <2>1. Agree(Upto(0), f[0])
    <3>1. Upto(0) = {} /\ f[0] = NewViews /\ Agree({}, NewViews)
      BY <1>3, <1>4, NewIs, Zenon
    <3> QED BY <3>1, Zenon
  <2>2. 0 \in 0..Len(s)
    BY <1>1
  <2> QED BY <2>1, <2>2, Zenon
<1>9. ASSUME NEW n \in 0..(Len(s) - 1), n \in T PROVE n + 1 \in T
  <2> DEFINE m == n + 1
             c == s[m]
             r == reqs[m]
             S == Upto(n)
             U == Upto(m)
  <2>1. m \in 1..Len(s) /\ m - 1 = n /\ m \in 0..Len(s) /\ n \in 0..Len(s)
    BY <1>1
  <2>2. Agree(S, f[n]) /\ S \in SUBSET Channel /\ U \in SUBSET Channel
        /\ U = S \cup {c} /\ \A d \in S : d.name # c.name
    <3>1. Agree(S, f[n])
      BY <1>9
    <3>2. U = S \cup {c} /\ \A d \in S : d.name # c.name
      BY <1>6, <1>7
    <3>3. S \in SUBSET Channel /\ U \in SUBSET Channel
      BY <1>5, <2>1
    <3> QED BY <3>1, <3>2, <3>3
  <2> HIDE DEF T, m, S, U
  <2>3. c \in Channel /\ r \in Request /\ r = Req(c.name, c.chart, c.card)
    BY <1>1, <2>1
  <2>4. f[n] \in Views /\ f[m] = Follow(f[n], r)
    BY <1>3, <2>1
  <2> HIDE DEF c, r
  <2>5. r.name = c.name /\ r.chart = c.chart /\ r.card = c.card
    BY <2>3, ChannelIs, RequestIs
  <2>6. \A d \in U : d.name = r.name => d = c
    BY <2>2, <2>5
  <2>7. \A d \in Channel : d.name # r.name => (d \in S <=> d \in U)
    BY <2>2, <2>5
  <2>8. c \in U
    BY <2>2
  <2>9. Agree(U, Follow(f[n], r))
    BY <2>2, <2>3, <2>4, <2>5, <2>6, <2>7, <2>8, AskAgrees
  <2> QED BY <2>1, <2>4, <2>9 DEF T, m, U
<1> HIDE DEF T
<1>10. Len(s) \in 0..Len(s)
  BY <1>1
<1>11. Len(s) \in T
  BY <1>1, <1>8, <1>9, <1>10, UpTo, Zenon
<1> QED BY <1>3, <1>4, <1>11 DEF T

LEMMA ViewsStart == ViewsInit => ViewsInv
<1> SUFFICES ASSUME ViewsInit PROVE ViewsInv
  OBVIOUS
<1> DEFINE s == channels
           reqs == [i \in Rows |-> Req(s[i].name, s[i].chart, s[i].card)]
           v == Followed(NewViews, reqs)
<1>1. s \in Seq(Channel) /\ Len(s) <= MaxChannel
  <2>1. s \in BoundedSeq(Channel, MaxChannel)
    BY DEF ViewsInit
  <2>2. PICK m \in 0..MaxChannel : s \in [1..m -> Channel]
    BY <2>1 DEF BoundedSeq, SeqOf
  <2>3. m \in Nat /\ m <= MaxChannel
    BY ViewNumbers
  <2>4. s \in Seq(Channel) /\ Len(s) = m
    BY <2>2, <2>3, FunctionIsSeq
  <2> QED BY <2>3, <2>4
<1>2. Len(s) \in Nat /\ \A i \in 1..Len(s) : s[i] \in Channel
  BY <1>1, SeqIs
<1>3. reqs \in [1..Len(s) -> Request] /\ \A i \in 1..Len(s) : reqs[i] = Req(s[i].name, s[i].chart, s[i].card)
  BY <1>2, ChannelIs, RequestIs DEF Rows
<1>4. /\ series = v.series /\ hidden = v.hidden /\ quick = v.quick
      /\ columns = v.columns /\ cards = v.cards
  BY Zenon DEF ViewsInit
<1>5. editor = "closed" /\ editing = 0 /\ plot = NewPlot /\ torn = Clash(s)
      /\ was = CHOOSE n \in Name : TRUE
  BY Zenon DEF ViewsInit
<1> HIDE DEF reqs
<1>6. reqs \in Seq(Request) /\ Len(reqs) = Len(s)
  BY <1>2, <1>3, FunctionIsSeq
<1>7. v \in Views /\ AutosOf(v) = {}
  BY <1>6, NewIs, FollowedViews
<1>8. ~Clash(s) => Agree(Elems(s), v)
  BY <1>1, <1>3, <1>6, StartAgrees
<1> HIDE DEF v
<1>9. Display = v
  BY <1>4, <1>7, ViewsAre DEF Display
<1>10. was \in Name
  BY <1>5, NamesAssumption
<1>11. torn \in BOOLEAN
  BY <1>5 DEF Clash
<1>12. ViewsTypeOK
  BY <1>1, <1>4, <1>5, <1>7, <1>10, <1>11, NewIs, ViewsAre DEF ViewsTypeOK, Rows
<1>13. Cardinality(Autos) <= MaxAuto
  <2>1. Autos = {}
    BY <1>4, <1>7 DEF Autos, AutosOf
  <2> QED BY <2>1, FS_EmptySet, ViewNumbers
<1>14. ~torn => ~Clash(s) /\ Agree(Elems(s), Display)
  BY <1>5, <1>8, <1>9
<1> QED BY <1>5, <1>12, <1>13, <1>14 DEF ViewsInv

LEMMA ViewsStep == ViewsInv /\ [ViewsNext]_viewsVars => ViewsInv'
<1> SUFFICES ASSUME ViewsInv, [ViewsNext]_viewsVars PROVE ViewsInv'
  OBVIOUS
<1>1. CASE UNCHANGED viewsVars
  <2>1. UNCHANGED <<channels, series, hidden, quick, columns, cards, torn>>
        /\ UNCHANGED <<editor, editing, was>> /\ plot' \in Plot /\ was' \in Name
    BY <1>1 DEF viewsVars, panel, chart, ViewsInv, ViewsTypeOK
  <2> QED BY <2>1, QuietStep
<1>2. CASE OpenEditor
  BY <1>2, OpenStep
<1>3. CASE CloseEditor
  BY <1>3, CloseStep
<1>4. CASE ToggleQuick
  BY <1>4, QuickStep
<1>5. CASE View \/ RedrawTimer
  BY <1>5, DrawStep
<1>6. ASSUME NEW ch \in Channel, Save(ch) \/ SaveStale(ch) PROVE ViewsInv'
  BY <1>6, SaveStep, StaleSaveStep
<1>7. ASSUME NEW i \in Rows, DelRow(i) \/ ToggleRow(i) PROVE ViewsInv'
  BY <1>7, DelStep, ToggleRowStep
<1>8. ASSUME NEW n \in Name, KeepSeries(n) \/ HideSeries(n) PROVE ViewsInv'
  BY <1>8, KeepStep, HideStep
<1>9. ASSUME NEW parsed \in Parsed, NEW data \in DataOnly, OnLine(parsed, data) PROVE ViewsInv'
  BY <1>9, LineStep DEF DataOnly
<1> QED
  BY <1>1, <1>2, <1>3, <1>4, <1>5, <1>6, <1>7, <1>8, <1>9, Zenon DEF ViewsNext, User, Line

-----------------------------------------------------------------------------
(* The theorems *)

THEOREM ViewsAlways == ViewsSpec => []ViewsInv
  BY ViewsStart, ViewsStep, PTL DEF ViewsSpec

\* Every variable of the panels keeps its type.
THEOREM ViewsTypeCorrect == ViewsSpec => []ViewsTypeOK
<1>1. ViewsInv => ViewsTypeOK
  BY DEF ViewsInv
<1> QED BY <1>1, ViewsAlways, PTL

\* While no two channels have had one name and no save broke off, the chart, the event
\* columns and the indicators show the channels that ask for it and no other.
THEOREM ViewsTrue == ViewsSpec => []ViewsFollow
<1>1. ViewsInv => ViewsFollow
  <2> SUFFICES ASSUME ViewsInv, ~torn PROVE
        /\ {n \in Name : series[n] = "set"} = {channels[i].name : i \in {j \in Rows : channels[j].chart}}
        /\ columns = {channels[i].name : i \in {j \in Rows : channels[j].chart}}
        /\ cards   = {channels[i].name : i \in {j \in Rows : channels[j].card}}
        /\ Autos \cap Names(channels) = {} /\ hidden \cap Drawn = {}
        /\ Cardinality(Autos) <= MaxAuto
    BY DEF ViewsFollow
  <2> DEFINE S == Elems(channels)
             charted == {channels[i].name : i \in {j \in Rows : channels[j].chart}}
             carded == {channels[i].name : i \in {j \in Rows : channels[j].card}}
  <2>1. channels \in Seq(Channel) /\ columns \subseteq Name /\ cards \subseteq Name /\ hidden \subseteq Name
        /\ Cardinality(Autos) <= MaxAuto
    BY DEF ViewsInv, ViewsTypeOK
  <2>2. \A i \in Rows : channels[i].name \in Name
    BY <2>1, SeqIs, ChannelIs DEF Rows
  <2>3. \A n \in Name : /\ n \in charted <=> \E c \in S : c.name = n /\ c.chart
                        /\ n \in carded <=> \E c \in S : c.name = n /\ c.card
                        /\ n \in Names(channels) <=> \E c \in S : c.name = n
    BY DEF Elems, Rows, Names
  <2>4. charted \subseteq Name /\ carded \subseteq Name
    BY <2>2
  <2>5. \A n \in Name : /\ series[n] = "set" <=> \E c \in S : c.name = n /\ c.chart
                        /\ n \in columns <=> \E c \in S : c.name = n /\ c.chart
                        /\ n \in cards <=> \E c \in S : c.name = n /\ c.card
                        /\ (\E c \in S : c.name = n) => series[n] # "auto"
                        /\ n \in hidden => series[n] = "none"
    BY DEF ViewsInv, Agree, Display
  <2> HIDE DEF S, charted, carded
  <2>6. {n \in Name : series[n] = "set"} = charted /\ columns = charted /\ cards = carded
    <3>1. \A n \in Name : series[n] = "set" <=> n \in charted
      BY <2>3, <2>5, Zenon
    <3>2. \A n \in Name : (n \in columns <=> n \in charted) /\ (n \in cards <=> n \in carded)
      BY <2>3, <2>5, Zenon
    <3> QED BY <2>1, <2>4, <3>1, <3>2
  <2>7. Autos \cap Names(channels) = {} /\ hidden \cap Drawn = {}
    BY <2>1, <2>3, <2>5 DEF Autos, Drawn
  <2> QED BY <2>1, <2>6, <2>7 DEF charted, carded
<1> QED BY <1>1, ViewsAlways, PTL
=============================================================================
