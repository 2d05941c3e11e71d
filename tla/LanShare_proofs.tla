--------------------------- MODULE LanShare_proofs ---------------------------
(***************************************************************************)
(* For every number of shares and joins, and however the threads of both   *)
(* ends interleave with the clicks: a viewer whose button says Leave has   *)
(* something to leave.                                                     *)
(***************************************************************************)
EXTENDS LanShare, TLAPS

-----------------------------------------------------------------------------
(* The strengthening *)

\* The button says Leave as long as the window has a client, which is one that was
\* started; only started clients have threads.
Button  == (client # 0 <=> face = "Leave") /\ \A k \in Join : thread[k] = "none" <=> k > joins

\* A thread gets its connection when it enters the loop, never twice.
Owners  == \A k \in Join : thread[k] \in {"none", "new", "connect"} => Failed(k)

\* The thread of a client the window still has left the loop with a signal that was
\* not handled yet.
Signals == \A k \in Join : thread[k] = "end" /\ client = k => posted[k] \/ Failed(k)

IInv == TypeOK /\ Button /\ Owners /\ Signals

-----------------------------------------------------------------------------
(* The host *)

\* What the viewer's properties are made of.
viewerState == <<client, joins, face, thread, posted, owner>>

LEMMA ViewerSame ==
  ASSUME Button, Owners, Signals, UNCHANGED viewerState
  PROVE  (Button /\ Owners /\ Signals)'
BY DEF Button, Owners, Signals, Failed, viewerState

\* The host's clicks and threads, and its disappearance, keep every type and leave
\* the viewer's side alone.
LEMMA HostClicks ==
  ASSUME IInv, StartShare \/ StopShare \/ FeedLine \/ HostVanishes
  PROVE  IInv'
<1>1. TypeOK /\ Button /\ Owners /\ Signals
  BY DEF IInv
<1>2. CASE StartShare
  <2>1. UNCHANGED viewerState
    BY <1>2 DEF StartShare, connVars, viewerVars, viewerState
  <2>2. shares' \in 1..MaxShare /\ server' \in 0..shares'
    BY <1>1, <1>2, BoundsAssumption DEF StartShare, TypeOK
  <2>3. up' \in [Share -> BOOLEAN] /\ serve' \in [Share -> {"none", "start", "made", "accept", "end"}]
    BY <1>1, <1>2 DEF StartShare, TypeOK
  <2>4. TypeOK'
    BY <1>1, <1>2, <2>2, <2>3 DEF StartShare, TypeOK, connVars, viewerVars, Share
  <2> QED BY <1>1, <2>1, <2>4, ViewerSame DEF IInv
<1>3. CASE StopShare
  <2>1. UNCHANGED viewerState
    BY <1>3 DEF StopShare, viewerVars, viewerState
  <2>2. server \in Share /\ 0 \in 0..shares
    BY <1>1, <1>3, BoundsAssumption DEF StopShare, TypeOK, Share
  <2>3. /\ host' \in [Join -> {"none", "queued", "open", "reset", "closing", "closed"}]
        /\ listed' \subseteq Join
    BY <1>1, <1>3 DEF StopShare, TypeOK, Closed, Listed
  <2>4. /\ up' \in [Share -> BOOLEAN]
        /\ sock' \in [Share -> {"none", "open", "closing", "closed"}] /\ early' \subseteq Share
    BY <1>1, <1>3, <2>2 DEF StopShare, TypeOK
  <2>5. TypeOK'
    BY <1>1, <1>3, <2>2, <2>3, <2>4 DEF StopShare, TypeOK, viewerVars
  <2> QED BY <1>1, <2>1, <2>5, ViewerSame DEF IInv
<1>4. CASE FeedLine
  <2>1. UNCHANGED viewerState
    BY <1>4 DEF FeedLine, viewerVars, viewerState
  <2>2. TypeOK'
    BY <1>1, <1>4 DEF FeedLine, Listed, TypeOK, hostVars, viewerVars
  <2> QED BY <1>1, <2>1, <2>2, ViewerSame DEF IInv
<1>5. CASE HostVanishes
  <2>1. UNCHANGED viewerState
    BY <1>5 DEF HostVanishes, connVars, viewerVars, viewerState
  <2>2. TypeOK'
    BY <1>1, <1>5 DEF HostVanishes, TypeOK, hostVars, connVars, viewerVars
  <2> QED BY <1>1, <2>1, <2>2, ViewerSame DEF IInv
<1> QED BY <1>2, <1>3, <1>4, <1>5

LEMMA HostThreads ==
  ASSUME IInv, NEW s \in Share, Serve(s)
  PROVE  IInv'
<1>1. TypeOK /\ Button /\ Owners /\ Signals
  BY DEF IInv
<1>2. UNCHANGED viewerState
  BY DEF Serve, ServeMakes, ServeBinds, Accept, AcceptLists, ServeEnds, connVars,
         viewerVars, viewerState
<1>3. ASSUME ServeMakes(s) \/ ServeBinds(s) \/ ServeEnds(s)  PROVE TypeOK'
  <2>1. /\ serve' \in [Share -> {"none", "start", "made", "accept", "end"}]
        /\ sock' \in [Share -> {"none", "open", "closing", "closed"}]
    BY <1>1, <1>3 DEF ServeMakes, ServeBinds, ServeEnds, TypeOK
  <2>2. host' \in [Join -> {"none", "queued", "open", "reset", "closing", "closed"}]
    BY <1>1, <1>3 DEF ServeMakes, ServeBinds, ServeEnds, TypeOK, connVars
  <2> QED BY <1>1, <1>3, <2>1, <2>2
        DEF ServeMakes, ServeBinds, ServeEnds, TypeOK, connVars, viewerVars
<1>4. ASSUME NEW k \in Join, Accept(s, k)  PROVE TypeOK'
  <2>1. taken' \in [Share -> 0..MaxJoin]
    BY <1>1, <1>4, BoundsAssumption DEF Accept, TypeOK, Join
  <2> QED BY <1>1, <1>4, <2>1 DEF Accept, TypeOK, connVars, viewerVars
<1>5. ASSUME AcceptLists(s)  PROVE TypeOK'
  <2>1. taken[s] \in Join /\ 0 \in 0..MaxJoin
    BY <1>1, <1>5, BoundsAssumption DEF AcceptLists, TypeOK, Join
  <2>2. /\ taken' \in [Share -> 0..MaxJoin] /\ listed' \subseteq Join
        /\ host' \in [Join -> {"none", "queued", "open", "reset", "closing", "closed"}]
    BY <1>1, <1>5, <2>1 DEF AcceptLists, TypeOK
  <2> QED BY <1>1, <1>5, <2>2 DEF AcceptLists, TypeOK, viewerVars
<1>6. TypeOK'
  BY <1>3, <1>4, <1>5 DEF Serve
<1> QED BY <1>1, <1>2, <1>6, ViewerSame DEF IInv

LEMMA HandlerKeeps == ASSUME IInv, NEW k \in Join, HandlerEnds(k) PROVE IInv'
<1>1. TypeOK /\ Button /\ Owners /\ Signals
  BY DEF IInv
<1>2. UNCHANGED viewerState
  BY DEF HandlerEnds, viewerVars, viewerState
<1>3. TypeOK'
  BY <1>1 DEF HandlerEnds, TypeOK, hostVars, viewerVars
<1> QED BY <1>1, <1>2, <1>3, ViewerSame DEF IInv

-----------------------------------------------------------------------------
(* The viewer *)

\* Join: a client of its own with a new thread.
LEMMA ClickJoinKeeps == ASSUME IInv, ClickJoin PROVE IInv'
<1>1. /\ TypeOK /\ Button /\ Owners /\ Signals
      /\ joins < MaxJoin /\ joins' = joins + 1 /\ client' = joins' /\ face' = "Leave"
      /\ thread' = [thread EXCEPT ![joins'] = "new"]
      /\ UNCHANGED <<posted, owner>>
  BY DEF IInv, ClickJoin, connVars
<1>2. /\ joins \in Nat /\ joins' \in Nat /\ joins' \in Join /\ joins' # 0
      /\ joins' \in 0..MaxJoin /\ client' \in 0..joins'
      /\ \A k \in Join : k > joins <=> k = joins' \/ k > joins'
      /\ \A k \in Join : ~(joins' > joins')
  BY <1>1, BoundsAssumption DEF TypeOK, Join
<1>3. /\ thread' \in [Join -> {"none", "new", "connect", "loop", "end"}]
      /\ thread'[joins'] = "new" /\ \A k \in Join \ {joins'} : thread'[k] = thread[k]
  BY <1>1, <1>2 DEF TypeOK
<1>4. TypeOK'
  BY <1>1, <1>2, <1>3 DEF TypeOK, ClickJoin, hostVars, connVars
<1>5. Button'
  <2>1. \A k \in Join : thread'[k] = "none" <=> k > joins'
    BY <1>1, <1>2, <1>3 DEF Button
  <2> QED BY <1>1, <1>2, <2>1 DEF Button
<1>6. Owners'
  <2>1. thread[joins'] = "none"
    BY <1>1, <1>2 DEF Button
  <2> QED BY <1>1, <1>3, <2>1 DEF Owners, Failed
<1>7. Signals'
  BY <1>1, <1>3 DEF Signals, Failed
<1> QED BY <1>4, <1>5, <1>6, <1>7 DEF IInv

\* Leave: the client is let go, whatever its thread does.
LEMMA ClickLeaveKeeps == ASSUME IInv, ClickLeave PROVE IInv'
<1>1. /\ TypeOK /\ Button /\ Owners /\ Signals
      /\ client # 0 /\ client' = 0 /\ face' = "Join"
      /\ running' = [running EXCEPT ![client] = FALSE]
      /\ UNCHANGED <<joins, thread, posted, owner>>
  BY DEF IInv, ClickLeave, connVars
<1>2. 0 \notin Join /\ 0 \in 0..joins
  BY <1>1, BoundsAssumption DEF TypeOK, Join
<1>3. running' \in [Join -> BOOLEAN]
  BY <1>1 DEF TypeOK
<1>4. TypeOK'
  BY <1>1, <1>2, <1>3 DEF TypeOK, ClickLeave, hostVars, connVars
<1>5. Button' /\ Owners' /\ Signals'
  BY <1>1, <1>2 DEF Button, Owners, Signals, Failed
<1> QED BY <1>4, <1>5 DEF IInv

\* The thread of client k goes on to "to"; at its end it has posted or never connected.
LEMMA ThreadMoves ==
  ASSUME TypeOK, Button, Owners, Signals, NEW k \in Join,
         NEW to \in {"connect", "loop", "end"},
         thread[k] # "none", thread' = [thread EXCEPT ![k] = to],
         UNCHANGED <<client, joins, face>>,
         \A j \in Join \ {k} : posted'[j] = posted[j] /\ owner'[j] = owner[j],
         to = "connect" => owner'[k] = 0, to = "end" => posted'[k] \/ owner'[k] = 0
  PROVE  /\ thread' \in [Join -> {"none", "new", "connect", "loop", "end"}]
         /\ (Button /\ Owners /\ Signals)'
<1>1. /\ thread' \in [Join -> {"none", "new", "connect", "loop", "end"}]
      /\ thread'[k] = to /\ \A j \in Join \ {k} : thread'[j] = thread[j]
  BY DEF TypeOK
<1>2. Button'
  BY <1>1 DEF Button
<1>3. Owners'
  BY <1>1 DEF Owners, Failed
<1>4. Signals'
  BY <1>1 DEF Signals, Failed
<1> QED BY <1>1, <1>2, <1>3, <1>4

LEMMA ThreadBeginsKeeps == ASSUME IInv, NEW k \in Join, ThreadBegins(k) PROVE IInv'
<1>1. TypeOK /\ Button /\ Owners /\ Signals
  BY DEF IInv
<1>2. /\ thread[k] = "new" /\ thread' = [thread EXCEPT ![k] = "connect"]
      /\ UNCHANGED <<client, joins, face, posted, owner>> /\ owner[k] = 0
  BY <1>1 DEF ThreadBegins, connVars, Owners, Failed
<1>3. /\ thread' \in [Join -> {"none", "new", "connect", "loop", "end"}]
      /\ (Button /\ Owners /\ Signals)'
  BY <1>1, <1>2, ThreadMoves
<1>4. running' \in [Join -> BOOLEAN]
  BY <1>1 DEF ThreadBegins, TypeOK
<1>5. TypeOK'
  BY <1>1, <1>3, <1>4 DEF ThreadBegins, TypeOK, hostVars, connVars
<1> QED BY <1>3, <1>5 DEF IInv

LEMMA ConnectsKeeps == ASSUME IInv, NEW k \in Join, Connects(k) PROVE IInv'
<1>1. TypeOK /\ Button /\ Owners /\ Signals
  BY DEF IInv
<1>2. PICK s \in Share : /\ owner' = [owner EXCEPT ![k] = s]
                         /\ host' = [host EXCEPT ![k] = "queued"]
  BY DEF Connects
<1>3. /\ owner' \in [Join -> 0..MaxShare] /\ \A j \in Join \ {k} : owner'[j] = owner[j]
      /\ host' \in [Join -> {"none", "queued", "open", "reset", "closing", "closed"}]
  <2>1. s \in 0..MaxShare
    BY BoundsAssumption DEF Share
  <2> QED BY <1>1, <1>2, <2>1 DEF TypeOK
<1>4. /\ thread[k] = "connect" /\ thread' = [thread EXCEPT ![k] = "loop"]
      /\ UNCHANGED <<client, joins, face, posted>>
  BY DEF Connects
<1>5. /\ thread' \in [Join -> {"none", "new", "connect", "loop", "end"}]
      /\ (Button /\ Owners /\ Signals)'
  BY <1>1, <1>3, <1>4, ThreadMoves
<1>6. TypeOK'
  BY <1>1, <1>3, <1>5 DEF Connects, TypeOK, hostVars
<1> QED BY <1>5, <1>6 DEF IInv

LEMMA ConnectFailsKeeps == ASSUME IInv, NEW k \in Join, ConnectFails(k) PROVE IInv'
<1>1. TypeOK /\ Button /\ Owners /\ Signals
  BY DEF IInv
<1>2. /\ thread[k] = "connect" /\ thread' = [thread EXCEPT ![k] = "end"]
      /\ UNCHANGED <<client, joins, face, posted, owner>> /\ owner[k] = 0
  BY <1>1 DEF ConnectFails, connVars, Owners, Failed
<1>3. /\ thread' \in [Join -> {"none", "new", "connect", "loop", "end"}]
      /\ (Button /\ Owners /\ Signals)'
  BY <1>1, <1>2, ThreadMoves
<1>4. running' \in [Join -> BOOLEAN]
  BY <1>1 DEF ConnectFails, TypeOK
<1>5. TypeOK'
  BY <1>1, <1>3, <1>4 DEF ConnectFails, TypeOK, hostVars, connVars
<1> QED BY <1>3, <1>5 DEF IInv

\* The loop ends, because of the host or of Leave, with the signal.
LEMMA LoopEndsKeeps ==
  ASSUME IInv, NEW k \in Join, HostHungUp(k) \/ ThreadStops(k)
  PROVE  IInv'
<1>1. TypeOK /\ Button /\ Owners /\ Signals
  BY DEF IInv
<1>2. /\ thread[k] = "loop" /\ thread' = [thread EXCEPT ![k] = "end"]
      /\ running' = [running EXCEPT ![k] = FALSE] /\ posted' = [posted EXCEPT ![k] = TRUE]
      /\ UNCHANGED <<client, joins, face, owner>>
  BY DEF HostHungUp, ThreadStops, LoopEnds, connVars
<1>3. /\ posted' \in [Join -> BOOLEAN] /\ running' \in [Join -> BOOLEAN]
      /\ posted'[k] /\ \A j \in Join \ {k} : posted'[j] = posted[j]
  BY <1>1, <1>2 DEF TypeOK
<1>4. /\ thread' \in [Join -> {"none", "new", "connect", "loop", "end"}]
      /\ (Button /\ Owners /\ Signals)'
  BY <1>1, <1>2, <1>3, ThreadMoves
<1>5. host' \in [Join -> {"none", "queued", "open", "reset", "closing", "closed"}]
  BY <1>1 DEF HostHungUp, ThreadStops, TypeOK, connVars
<1>6. TypeOK'
  BY <1>1, <1>2, <1>3, <1>4, <1>5 DEF HostHungUp, ThreadStops, TypeOK, hostVars, connVars
<1> QED BY <1>4, <1>6 DEF IInv

\* The signal is handled: the client it is about is let go, another one is not.
LEMMA OnDisconnectedKeeps == ASSUME IInv, NEW k \in Join, OnDisconnected(k) PROVE IInv'
<1>1. /\ TypeOK /\ Button /\ Owners /\ Signals
      /\ posted' = [posted EXCEPT ![k] = FALSE]
      /\ \/ client = k /\ client' = 0 /\ face' = "Join"
         \/ client # k /\ client' = client /\ face' = face
      /\ UNCHANGED <<joins, thread, owner>>
  BY DEF IInv, OnDisconnected, connVars
<1>2. /\ posted' \in [Join -> BOOLEAN] /\ \A j \in Join \ {k} : posted'[j] = posted[j]
  BY <1>1 DEF TypeOK
<1>3. 0 \notin Join /\ 0 \in 0..joins /\ k # 0
  BY <1>1, BoundsAssumption DEF TypeOK, Join
<1>4. TypeOK'
  <2>1. client' \in 0..joins' /\ face' \in {"Join", "Leave"}
    BY <1>1, <1>3 DEF TypeOK
  <2> QED BY <1>1, <1>2, <2>1 DEF OnDisconnected, TypeOK, hostVars, connVars
<1>5. Button' /\ Owners'
  BY <1>1, <1>3 DEF Button, Owners, Failed
<1>6. Signals'
  BY <1>1, <1>2, <1>3 DEF Signals, Failed
<1> QED BY <1>4, <1>5, <1>6 DEF IInv

-----------------------------------------------------------------------------
(* The theorems *)

LEMMA InitHolds == Init => IInv
<1> SUFFICES ASSUME Init PROVE IInv
  OBVIOUS
<1>1. 0 \in 0..MaxShare /\ 0 \in 0..MaxJoin /\ 0 \in 0..0 /\ \A k \in Join : k > 0
  BY BoundsAssumption DEF Join
<1>2. TypeOK
  BY <1>1 DEF Init, TypeOK
<1>3. Button /\ Owners /\ Signals
  BY <1>1 DEF Init, Button, Owners, Signals, Failed
<1> QED BY <1>2, <1>3 DEF IInv

LEMMA StepHolds == ASSUME IInv, [Next]_vars PROVE IInv'
<1>1. CASE StartShare \/ StopShare \/ FeedLine \/ HostVanishes
  BY <1>1, HostClicks
<1>2. CASE \E s \in Share : Serve(s)
  BY <1>2, HostThreads
<1>3. CASE ClickJoin
  BY <1>3, ClickJoinKeeps
<1>4. CASE ClickLeave
  BY <1>4, ClickLeaveKeeps
<1>5. ASSUME NEW k \in Join, HandlerEnds(k) \/ Viewer(k) \/ ThreadStops(k)  PROVE IInv'
  BY <1>5, HandlerKeeps, ThreadBeginsKeeps, ConnectsKeeps, ConnectFailsKeeps, LoopEndsKeeps,
     OnDisconnectedKeeps DEF Viewer
<1>6. CASE UNCHANGED vars
  <2>1. TypeOK'
    BY <1>6 DEF IInv, TypeOK, vars, hostVars, connVars, viewerVars
  <2> QED BY <1>6, <2>1, ViewerSame DEF IInv, vars, connVars, viewerVars, viewerState
<1> QED BY <1>1, <1>2, <1>3, <1>4, <1>5, <1>6 DEF Next

\* IInv is an inductive invariant of sharing on the local network.
THEOREM Invariance == Spec => []IInv
<1>1. Init => IInv
  BY InitHolds
<1>2. IInv /\ [Next]_vars => IInv'
  BY StepHolds
<1> QED BY <1>1, <1>2, PTL DEF Spec

\* Every variable keeps its type.
THEOREM TypeCorrect == Spec => []TypeOK
<1>1. IInv => TypeOK
  BY DEF IInv
<1> QED BY <1>1, Invariance, PTL

\* While the button says Leave the client's thread runs, its signal is on its way, or
\* it never connected.
THEOREM LeaveHasMeaning == Spec => []LeaveIsMeant
<1>1. IInv => LeaveIsMeant
  <2> SUFFICES ASSUME IInv, face = "Leave"
               PROVE  \/ thread[client] \in {"new", "connect", "loop"}
                      \/ posted[client] \/ Failed(client)
    BY DEF LeaveIsMeant
  <2>1. client \in Join /\ ~(client > joins)
    BY BoundsAssumption DEF IInv, TypeOK, Button, Join
  <2>2. thread[client] # "none" /\ thread[client] \in {"none", "new", "connect", "loop", "end"}
    BY <2>1 DEF IInv, TypeOK, Button
  <2> QED BY <2>1, <2>2 DEF IInv, Signals
<1> QED BY <1>1, Invariance, PTL
=============================================================================
