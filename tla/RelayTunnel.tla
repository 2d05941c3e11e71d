---------------------------- MODULE RelayTunnel ----------------------------
(***************************************************************************)
(* A shared session on its way through the relay: the host queues each     *)
(* line (core/session_server.py), a worker posts them in batches, the      *)
(* relay fans them out to a queue per viewer (relay/server.py), and each   *)
(* viewer long-polls its queue (core/session_client.py).  Lines are        *)
(* numbered as they are fed.  A request may be lost, its answer too, and   *)
(* the caller's timeout may pass while the relay still handles it.         *)
(***************************************************************************)
EXTENDS Integers, Sequences, FiniteSets

CONSTANTS
  Client,      \* the viewers' clients
  QueueMax,    \* room of _relay_q, 500
  BatchMax,    \* messages in one push, 50
  RecentMax,   \* lines kept for a viewer that joins, 200
  ViewerMax,   \* room of a viewer's queue, 10000
  MaxViewers,  \* viewers of a tunnel, 50
  MaxLine,     \* bound: lines fed
  MaxFault     \* bound: requests and answers that are lost or late

ASSUME BoundsAssumption ==
  /\ {QueueMax, BatchMax, RecentMax, ViewerMax, MaxViewers} \subseteq Nat \ {0}
  /\ MaxLine \in Nat /\ MaxFault \in Nat

VARIABLES
  fed,       \* lines the host has fed so far
  hosting,   \* SessionServer._running
  relayQ,    \* SessionServer._relay_q
  push,      \* the pushes under way: the worker's, its abandoned one, stop()'s
  live,      \* the tunnel has not expired
  recent,    \* _TunnelSession.recent
  viewers,   \* _TunnelSession.viewers, of the clients
  others,    \* how many more it has
  vq,        \* _Viewer.q of each
  pc,        \* where each client's thread is
  poll,      \* what the relay does for each client's request
  stray,     \* the same for a request whose client has given up
  shown,     \* history: the lines each client showed
  since,     \* history: the first line each viewer is owed, 0 before it joined
  lost,      \* history: lines that never reached the relay
  missed,    \* history: lines the relay had for a client and the client never saw
  overlap,   \* history: two pushes of the worker were under way together
  forgotten, \* history: viewers that were counted out and may come back
  faults     \* history: requests and answers lost or late

hostVars   == <<fed, hosting, relayQ>>
tunnel     == <<live, recent, viewers, others, vq>>
clientVars == <<pc, poll, stray, shown>>
known      == <<since, lost, missed, overlap, forgotten>>
history    == <<known, faults>>
vars       == <<hostVars, push, tunnel, clientVars, history>>

Line    == 1..MaxLine
Goodbye == 0
Message == Line \cup {Goodbye}
Pusher  == {"worker", "late", "stop"}
NoPush  == [at |-> "none", msgs |-> <<>>, todo |-> [c \in Client |-> <<>>]]
NoPoll  == [at |-> "none", msgs |-> <<>>]

LinesIn(s)      == {s[i] : i \in 1..Len(s)} \cap Line
Newest(s, n)    == SubSeq(s, IF Len(s) > n THEN Len(s) - n + 1 ELSE 1, Len(s))
Shorter(n, s)   == IF Len(s) < n THEN Len(s) ELSE n

Init ==
  /\ fed = 0 /\ hosting = TRUE /\ relayQ = <<>>
  /\ push = [p \in Pusher |-> NoPush]
  /\ live = TRUE /\ recent = <<>> /\ viewers = {} /\ others = 0
  /\ vq = [c \in Client |-> <<>>]
  /\ pc = [c \in Client |-> "off"] /\ poll = [c \in Client |-> NoPoll]
  /\ stray = [c \in Client |-> NoPoll] /\ shown = [c \in Client |-> <<>>]
  /\ since = [c \in Client |-> 0] /\ lost = {} /\ missed = [c \in Client |-> {}] /\ overlap = FALSE /\ forgotten = {}
  /\ faults = 0

Fault == faults < MaxFault /\ faults' = faults + 1

-----------------------------------------------------------------------------
(* The host *)

\* feed_line: the newest line is dropped when the queue is full.
FeedLine ==
  /\ hosting /\ fed < MaxLine /\ fed' = fed + 1
  /\ IF Len(relayQ) < QueueMax THEN relayQ' = Append(relayQ, fed') /\ UNCHANGED lost
                               ELSE lost' = lost \cup {fed'} /\ UNCHANGED relayQ
  /\ UNCHANGED <<hosting, push, tunnel, clientVars, since, missed, overlap, forgotten, faults>>

Posted(p, m) == push' = [push EXCEPT ![p] = [at |-> "sent", msgs |-> m, todo |-> NoPush.todo]]

\* _relay_worker: the queued lines in a batch, or a heartbeat when there are none
\* (no viewer shows it: a batch without lines).
\* It looks at _running before it waits for a line, so the last batch may be
\* taken when the share has been stopped.
WorkerPosts ==
  /\ push["worker"].at = "none"
  /\ hosting \/ relayQ # <<>>
  /\ LET n == Shorter(BatchMax, relayQ) IN
       Posted("worker", SubSeq(relayQ, 1, n)) /\ relayQ' = SubSeq(relayQ, n + 1, Len(relayQ))
  /\ overlap' = (overlap \/ push["late"].at # "none")
  /\ UNCHANGED <<fed, hosting, tunnel, clientVars, since, lost, missed, forgotten, faults>>

\* The worker's timeout passes and the relay still works on the push: the worker
\* goes on with the next batch.
WorkerGivesUp ==
  /\ push["worker"].at # "none" /\ push["late"].at = "none"
  /\ push' = [push EXCEPT !["late"] = push["worker"], !["worker"] = NoPush]
  /\ Fault /\ UNCHANGED <<hostVars, tunnel, clientVars, known>>

\* stop: _end is pushed at once, past what waits in the queue and the batch.
StopShare ==
  /\ hosting /\ hosting' = FALSE
  /\ Posted("stop", <<Goodbye>>)
  /\ UNCHANGED <<fed, relayQ, tunnel, clientVars, history>>

\* A push is not sent again when it fails.
PushFails(p) ==
  /\ push[p].at = "sent"
  /\ push' = [push EXCEPT ![p] = NoPush]
  /\ lost' = lost \cup LinesIn(push[p].msgs)
  /\ Fault /\ UNCHANGED <<hostVars, tunnel, clientVars, since, missed, overlap, forgotten>>

-----------------------------------------------------------------------------
(* The relay *)

\* do_POST and the part of push() under the lock; 404 when the tunnel is over.
\* Only lines are kept for later viewers: a goodbye is always pushed alone.
Displayable(msgs) == IF msgs = <<Goodbye>> THEN <<>> ELSE msgs
PushEnters(p) ==
  /\ push[p].at = "sent" /\ live
  /\ recent' = Newest(recent \o Displayable(push[p].msgs), RecentMax)
  /\ push' = [push EXCEPT ![p] =
                [at |-> "put", msgs |-> @.msgs,
                 todo |-> [c \in Client |-> IF c \in viewers THEN push[p].msgs ELSE <<>>]]]
  /\ UNCHANGED <<hostVars, live, viewers, others, vq, clientVars, history>>

\* push: one message into one viewer's queue, or away when that is full.
PushPuts(p, c) ==
  LET todo == push[p].todo[c] IN
    /\ push[p].at = "put" /\ todo # <<>>
    /\ push' = [push EXCEPT ![p].todo[c] = Tail(todo)]
    /\ IF Len(vq[c]) < ViewerMax
       THEN vq' = [vq EXCEPT ![c] = Append(@, Head(todo))] /\ UNCHANGED missed
       ELSE missed' = [missed EXCEPT ![c] = @ \cup LinesIn(<<Head(todo)>>)] /\ UNCHANGED vq
    /\ UNCHANGED <<hostVars, live, recent, viewers, others, clientVars, since, lost, overlap, forgotten, faults>>

\* A mutant: a push whose answer was lost is sent again.
PushEnds_Retries(p) ==
  /\ push[p].at = "put" /\ \A c \in Client : push[p].todo[c] = <<>>
  /\ \/ push' = [push EXCEPT ![p] = NoPush] /\ UNCHANGED faults
     \/ push' = [push EXCEPT ![p].at = "sent"] /\ Fault
  /\ UNCHANGED <<hostVars, tunnel, clientVars, known>>
\* The answer with viewer_count, which forgets viewers that have not polled for
\* _VIEWER_TTL; one whose request is being handled polled later than that.
Absent == {c \in viewers : poll[c].at # "wait" /\ stray[c].at # "wait"}
PushEnds(p) ==
  /\ push[p].at = "put" /\ \A c \in Client : push[p].todo[c] = <<>>
  /\ \E gone \in SUBSET Absent :
       /\ IF gone = {} THEN UNCHANGED faults ELSE Fault
       /\ viewers' = viewers \ gone
       /\ vq' = [c \in Client |-> IF c \in gone THEN <<>> ELSE vq[c]]
       /\ missed' = [c \in Client |->
                       IF c \in gone THEN missed[c] \cup LinesIn(vq[c]) ELSE missed[c]]
       /\ forgotten' = forgotten \cup gone
       /\ push' = [q \in Pusher |->
                     IF q = p THEN NoPush
                     ELSE [push[q] EXCEPT !.todo =
                             [c \in Client |-> IF c \in gone THEN <<>> ELSE @[c]]]]
  /\ UNCHANGED <<hostVars, live, recent, others, clientVars, since, lost, overlap>>

\* An hour is over.
Expire ==
  /\ live /\ live' = FALSE
  /\ UNCHANGED <<hostVars, push, recent, viewers, others, vq, clientVars, history>>

\* Other viewers come and are forgotten.
OthersChange ==
  /\ others' \in 0..(MaxViewers - Cardinality(viewers))
  /\ UNCHANGED <<hostVars, push, live, recent, viewers, vq, clientVars, history>>

\* A mutant: a viewer that joins is not given the recent lines.
Joined_NoRecent(c) == viewers' = viewers \cup {c} /\ UNCHANGED <<vq, missed>>
\* A viewer that joins starts with the recent lines, as many as its queue holds.
Joined(c) ==
  /\ viewers' = viewers \cup {c}
  /\ vq' = [vq EXCEPT ![c] = SubSeq(recent, 1, Shorter(ViewerMax, recent))]
  /\ missed' = [missed EXCEPT ![c] =
                  @ \cup LinesIn(SubSeq(recent, ViewerMax + 1, Len(recent)))]

\* do_GET and the part of poll() under the lock.
PollEnters(c) ==
  /\ poll[c].at = "sent" /\ live
  /\ \/ c \in viewers /\ UNCHANGED <<viewers, vq, missed, since>>
     \/ /\ c \notin viewers /\ Cardinality(viewers) + others < MaxViewers /\ Joined(c)
        /\ since' = [since EXCEPT ![c] = IF recent = <<>> THEN 1 ELSE Head(recent)]
  /\ poll' = [poll EXCEPT ![c].at = "wait"]
  /\ UNCHANGED <<hostVars, push, live, recent, others, pc, stray, shown, lost, overlap, forgotten, faults>>
\* The fan-out cap: an empty answer at once.
PollRefused(c) ==
  /\ poll[c].at = "sent" /\ live /\ c \notin viewers /\ Cardinality(viewers) + others >= MaxViewers
  /\ poll' = [poll EXCEPT ![c].at = "answer"]
  /\ UNCHANGED <<hostVars, push, tunnel, pc, stray, shown, history>>

\* poll: the wait ends with a line already there, with the event or with the
\* timeout, and the queue is drained.
PollDrains(c) ==
  /\ poll[c].at = "wait"
  /\ poll' = [poll EXCEPT ![c] = [at |-> "answer", msgs |-> vq[c]]]
  /\ vq' = [vq EXCEPT ![c] = <<>>]
  /\ UNCHANGED <<hostVars, push, live, recent, viewers, others, pc, stray, shown, history>>
\* The same for a request nobody waits for: what it drains is gone.
StrayDrains(c) ==
  /\ stray[c].at = "wait"
  /\ stray' = [stray EXCEPT ![c] = NoPoll]
  /\ missed' = [missed EXCEPT ![c] = @ \cup LinesIn(vq[c])]
  /\ vq' = [vq EXCEPT ![c] = <<>>]
  /\ UNCHANGED <<hostVars, push, live, recent, viewers, others, pc, poll, shown, since, lost, overlap, forgotten, faults>>

-----------------------------------------------------------------------------
(* The viewer's client *)

\* _run_relay starts: its first request.
Sent == [at |-> "sent", msgs |-> <<>>]
ClientStarts(c) ==
  /\ pc[c] = "off" /\ pc' = [pc EXCEPT ![c] = "polling"]
  /\ poll' = [poll EXCEPT ![c] = Sent]
  /\ UNCHANGED <<hostVars, push, tunnel, stray, shown, history>>

\* The answer's messages up to _end, or all of them and the next request.
ClientShows(c) ==
  LET msgs == poll[c].msgs
      ends == {i \in 1..Len(msgs) : msgs[i] = Goodbye}
      upTo == IF ends = {} THEN msgs
              ELSE SubSeq(msgs, 1, (CHOOSE i \in ends : \A j \in ends : i <= j) - 1) IN
    /\ poll[c].at = "answer"
    /\ shown' = [shown EXCEPT ![c] = @ \o upTo]
    /\ missed' = [missed EXCEPT ![c] = @ \cup (LinesIn(msgs) \ LinesIn(upTo))]
    /\ IF ends = {} THEN UNCHANGED pc /\ poll' = [poll EXCEPT ![c] = Sent] 
       ELSE pc' = [pc EXCEPT ![c] = "done"] /\ poll' = [poll EXCEPT ![c] = NoPoll]
    /\ UNCHANGED <<hostVars, push, tunnel, stray, since, lost, overlap, forgotten, faults>>

\* The request or its answer is lost, or takes longer than 28 s; the relay may
\* still be at it.  The client tries again two seconds later.
ClientRetries(c) ==
  /\ poll[c].at # "none" /\ stray[c].at = "none"
  /\ poll' = [poll EXCEPT ![c] = Sent]
  /\ stray' = [stray EXCEPT ![c].at = IF poll[c].at = "wait" THEN "wait" ELSE "none"]
  /\ missed' = [missed EXCEPT ![c] = @ \cup LinesIn(poll[c].msgs)]
  /\ Fault /\ UNCHANGED <<hostVars, push, tunnel, pc, shown, since, lost, overlap, forgotten>>

\* A mutant: a 404 is tried again like any other error.
ClientFinds404_Retries(c) ==
  /\ poll[c].at = "sent" /\ ~live /\ UNCHANGED vars
\* 404: the tunnel has expired.
ClientFinds404(c) ==
  /\ poll[c].at = "sent" /\ ~live
  /\ pc' = [pc EXCEPT ![c] = "done"] /\ poll' = [poll EXCEPT ![c] = NoPoll]
  /\ UNCHANGED <<hostVars, push, tunnel, stray, shown, history>>

-----------------------------------------------------------------------------
Relay  == \E p \in Pusher : PushEnters(p) \/ PushEnds(p) \/ \E c \in Client : PushPuts(p, c)
Polls(c) == PollEnters(c) \/ PollRefused(c) \/ PollDrains(c) \/ StrayDrains(c)
Viewer(c) == ClientStarts(c) \/ ClientShows(c) \/ ClientRetries(c) \/ ClientFinds404(c)
Next == \/ FeedLine \/ WorkerPosts \/ WorkerGivesUp \/ StopShare
        \/ \E p \in Pusher : PushFails(p)
        \/ Relay \/ Expire \/ OthersChange
        \/ \E c \in Client : Polls(c) \/ Viewer(c)
Spec == Init /\ [][Next]_vars

\* The relay works, clients go on polling, an hour passes; a request succeeds
\* if it is tried for ever.  The host owes neither lines nor a goodbye.
Fairness ==
  /\ WF_vars(Relay) /\ WF_vars(Expire)
  /\ \A c \in Client :
       /\ WF_vars(Polls(c)) /\ SF_vars(ClientFinds404(c))
       /\ WF_vars(ClientShows(c))
FairSpec == Spec /\ Fairness

-----------------------------------------------------------------------------
(* Properties *)

\* Every variable keeps its type, and the queues their limits.
TypeOK ==
  /\ fed \in 0..MaxLine /\ hosting \in BOOLEAN /\ live \in BOOLEAN
  /\ relayQ \in Seq(Line) /\ Len(relayQ) <= QueueMax
  /\ push \in [Pusher -> [at : {"none", "sent", "put"}, msgs : Seq(Message),
                            todo : [Client -> Seq(Message)]]]
  /\ \A p \in Pusher : Len(push[p].msgs) <= BatchMax
  /\ recent \in Seq(Line) /\ Len(recent) <= RecentMax
  /\ viewers \subseteq Client /\ IsFiniteSet(viewers)
  /\ others \in Nat /\ Cardinality(viewers) + others <= MaxViewers
  /\ vq \in [Client -> Seq(Message)]
  /\ \A c \in Client : Len(vq[c]) <= ViewerMax /\ (c \notin viewers => vq[c] = <<>>)
  /\ pc \in [Client -> {"off", "polling", "done"}]
  /\ poll \in [Client -> [at : {"none", "sent", "wait", "answer"}, msgs : Seq(Message)]]
  /\ stray \in [Client -> [at : {"none", "wait"}, msgs : {<<>>}]]
  /\ shown \in [Client -> Seq(Line)] /\ since \in [Client -> Nat] /\ lost \subseteq Line
  /\ missed \in [Client -> SUBSET Line] /\ overlap \in BOOLEAN /\ forgotten \subseteq Client
  /\ faults \in 0..MaxFault

\* A viewer sees the lines in the order they were fed and none of them twice, though
\* the recent lines of its start come from one buffer and the next ones from
\* another, and pushes, polls and lost answers interleave; unless a push outlived
\* its timeout, or the relay forgot the viewer and it started over.
InOrder ==
  \A c \in Client \ forgotten : ~overlap =>
    \A i, j \in 1..Len(shown[c]) : i < j => shown[c][i] < shown[c][j]

\* From the first line a viewer is owed, every line the relay took has been seen, is
\* on its way to the viewer, or was taken by a full queue or a lost answer:
\* joining while a push is being handed out leaves no hole.  A push that outlived
\* its timeout may come in after the next one.
Entered == {n \in 1..fed : n \notin lost \cup LinesIn(relayQ)
              /\ \A p \in Pusher : push[p].at = "sent" => n \notin LinesIn(push[p].msgs)}
Gapless ==
  \A c \in viewers \ forgotten : \A n \in Entered :
    ~overlap /\ n >= since[c] =>
      n \in LinesIn(shown[c]) \cup LinesIn(vq[c]) \cup LinesIn(poll[c].msgs) \cup missed[c]
            \cup UNION {LinesIn(push[p].todo[c]) : p \in Pusher}

\* When the host has stopped, every viewer's client ends: with the goodbye, or
\* when that is lost with the tunnel.
Farewell == \A c \in Client : (~hosting /\ pc[c] # "off") ~> (pc[c] = "done")
=============================================================================
