------------------------------ MODULE LanShare ------------------------------
(***************************************************************************)
(* Sharing on the local network, both ends: the host's Share button and    *)
(* TCP server (core/session_server.py), a viewer's Join button and client  *)
(* thread (core/session_client.py), and SessionController, which drives    *)
(* both.  Closing a socket on which another thread is blocked does not     *)
(* wake that thread everywhere: a socket is "closing" until it does.       *)
(* Shares and clients are numbered; each is an object of its own.          *)
(***************************************************************************)
EXTENDS Naturals

CONSTANTS
  MaxShare,  \* bound: shares started
  MaxJoin    \* bound: clients started

ASSUME BoundsAssumption == MaxShare \in Nat /\ MaxJoin \in Nat

VARIABLES
  server,    \* SessionController._server of the host, 0 for none
  shares,    \* shares started so far
  up,        \* SessionServer._running
  sock,      \* SessionServer._sock, the listening socket
  serve,     \* where _serve is
  taken,     \* the connection accept() returned and _serve has not listed yet
  listed,    \* SessionServer._clients
  host,      \* the host's end of each client's connection
  owner,     \* the share that accepted it
  client,    \* SessionController._client of the viewer, 0 for none
  joins,     \* clients started so far
  face,      \* what the Join button shows
  running,   \* SessionClient._running
  thread,    \* where each client's thread is
  posted,    \* its "disconnected" the viewer's GUI has not handled; the rest is logging
  early,     \* history: shares stopped before their socket was made
  vanished   \* history: the host is gone without a word

hostVars   == <<server, shares, up, sock, serve, taken>>
connVars   == <<listed, host, owner>>
viewerVars == <<client, joins, face, running, thread, posted>>
vars       == <<hostVars, connVars, viewerVars, early, vanished>>

Share == 1..MaxShare
Join  == 1..MaxJoin

Init ==
  /\ server = 0 /\ shares = 0
  /\ up = [s \in Share |-> FALSE] /\ sock = [s \in Share |-> "none"]
  /\ serve = [s \in Share |-> "none"] /\ taken = [s \in Share |-> 0]
  /\ listed = {} /\ host = [k \in Join |-> "none"] /\ owner = [k \in Join |-> 0]
  /\ client = 0 /\ joins = 0 /\ face = "Join"
  /\ running = [k \in Join |-> FALSE] /\ thread = [k \in Join |-> "none"]
  /\ posted = [k \in Join |-> FALSE]
  /\ early = {} /\ vanished = FALSE

-----------------------------------------------------------------------------
(* The host's GUI thread *)

\* start_share; its dialog is modal, so the next click comes after it.
StartShare ==
  /\ server = 0 /\ shares < MaxShare
  /\ shares' = shares + 1 /\ server' = shares'
  /\ up' = [up EXCEPT ![shares'] = TRUE] /\ serve' = [serve EXCEPT ![shares'] = "start"]
  /\ UNCHANGED <<sock, taken, connVars, viewerVars, early, vanished>>

\* Every connection on the share's list is closed and taken off it; its peer sees
\* that when the handler's recv returns.
Listed(s) == {k \in listed : owner[k] = s}
Closed(s) ==
  /\ listed' = listed \ Listed(s)
  /\ host' = [k \in Join |-> IF k \in Listed(s) THEN "closing" ELSE host[k]]

\* A mutant: the socket is left to the accept loop.
StopShare_KeepsSocket ==
  /\ server # 0 /\ server' = 0
  /\ up' = [up EXCEPT ![server] = FALSE]
  /\ UNCHANGED <<sock, early>>
  /\ Closed(server)
  /\ UNCHANGED <<shares, serve, taken, owner, viewerVars, vanished>>
\* stop_share and SessionServer.stop.  A socket the thread has not made yet is
\* not closed.
StopShare ==
  /\ server # 0 /\ server' = 0
  /\ up' = [up EXCEPT ![server] = FALSE]
  /\ sock' = [sock EXCEPT ![server] = IF @ = "open" THEN "closing" ELSE @]
  /\ early' = IF sock[server] = "none" THEN early \cup {server} ELSE early
  /\ Closed(server)
  /\ UNCHANGED <<shares, serve, taken, owner, viewerVars, vanished>>

\* feed_line: a line to every connection; one that fails is taken off the list.
FeedLine ==
  /\ server # 0 /\ \E k \in Listed(server) : host[k] = "reset"
  /\ listed' = listed \ {k \in Listed(server) : host[k] = "reset"}
  /\ UNCHANGED <<hostVars, host, owner, viewerVars, early, vanished>>

-----------------------------------------------------------------------------
(* The host's socket threads *)

Listening(s) == sock[s] \in {"open", "closing"} /\ serve[s] # "start" /\ serve[s] # "made"

\* _serve makes its socket ...
ServeMakes(s) ==
  /\ serve[s] = "start" /\ serve' = [serve EXCEPT ![s] = "made"]
  /\ sock' = [sock EXCEPT ![s] = "open"]
  /\ UNCHANGED <<server, shares, up, taken, connVars, viewerVars, early, vanished>>
\* ... and binds it, which fails when stop() has closed it or the port is taken.
ServeBinds(s) ==
  /\ serve[s] = "made"
  /\ IF sock[s] = "open" /\ \A o \in Share \ {s} : ~Listening(o)
     THEN serve' = [serve EXCEPT ![s] = "accept"] /\ UNCHANGED sock
     ELSE serve' = [serve EXCEPT ![s] = "end"] /\ sock' = [sock EXCEPT ![s] = "closed"]
  /\ UNCHANGED <<server, shares, up, taken, connVars, viewerVars, early, vanished>>

\* accept() returns a connection; it is listed and gets a thread in a step of its own.
Accept(s, k) ==
  /\ serve[s] = "accept" /\ up[s] /\ taken[s] = 0 /\ owner[k] = s /\ host[k] = "queued"
  /\ taken' = [taken EXCEPT ![s] = k]
  /\ UNCHANGED <<server, shares, up, sock, serve, connVars, viewerVars, early, vanished>>
AcceptLists(s) ==
  /\ taken[s] # 0 /\ taken' = [taken EXCEPT ![s] = 0]
  /\ listed' = listed \cup {taken[s]} /\ host' = [host EXCEPT ![taken[s]] = "open"]
  /\ UNCHANGED <<server, shares, up, sock, serve, owner, viewerVars, early, vanished>>

\* The accept loop ends, at most a second after stop().  A socket that stop()
\* closed is released with it, and what waited to be accepted is refused.
ServeEnds(s) ==
  /\ serve[s] = "accept" /\ taken[s] = 0 /\ (~up[s] \/ sock[s] = "closing")
  /\ serve' = [serve EXCEPT ![s] = "end"]
  /\ sock' = [sock EXCEPT ![s] = IF @ = "closing" THEN "closed" ELSE @]
  /\ host' = [k \in Join |-> IF owner[k] = s /\ host[k] = "queued" /\ sock[s] = "closing"
                             THEN "closed" ELSE host[k]]
  /\ UNCHANGED <<server, shares, up, taken, listed, owner, viewerVars, early, vanished>>

\* A mutant: the handler leaves its connection open when the share is over.
HandlerEnds_LeavesOpen(k) ==
  /\ host[k] \in {"closing", "reset"}
  /\ host' = [host EXCEPT ![k] = "closed"] /\ listed' = listed \ {k}
  /\ UNCHANGED <<hostVars, owner, viewerVars, early, vanished>>
\* _handle_client ends: the viewer hung up, or the share is over and recv returned
\* or was not yet called.
HandlerEnds(k) ==
  /\ \/ host[k] \in {"closing", "reset"}
     \/ host[k] = "open" /\ ~up[owner[k]]
  /\ host' = [host EXCEPT ![k] = "closed"] /\ listed' = listed \ {k}
  /\ UNCHANGED <<hostVars, owner, viewerVars, early, vanished>>

\* What makes recv return: the viewer has hung up, or it pings, every two seconds
\* until it leaves; a handler that is new has not called it.  Closing the socket
\* under recv need not.
Woken(k) == host[k] \in {"open", "reset"} \/ thread[k] = "end" \/ running[k]

\* The host is switched off, or the network between them: no packet comes any more.
HostVanishes ==
  /\ ~vanished /\ vanished' = TRUE
  /\ UNCHANGED <<hostVars, connVars, viewerVars, early>>

-----------------------------------------------------------------------------
(* The viewer *)

\* open_join_dialog with nobody joined, and _start_client.
ClickJoin ==
  /\ client = 0 /\ joins < MaxJoin
  /\ joins' = joins + 1 /\ client' = joins' /\ face' = "Leave"
  /\ thread' = [thread EXCEPT ![joins'] = "new"]
  /\ UNCHANGED <<hostVars, connVars, running, posted, early, vanished>>

\* open_join_dialog as Leave, and SessionClient.stop.
ClickLeave ==
  /\ client # 0 /\ client' = 0 /\ face' = "Join"
  /\ running' = [running EXCEPT ![client] = FALSE]
  /\ UNCHANGED <<hostVars, connVars, joins, thread, posted, early, vanished>>

\* run: _running is set whatever stop() did before.
ThreadBegins(k) ==
  /\ thread[k] = "new" /\ thread' = [thread EXCEPT ![k] = "connect"]
  /\ running' = [running EXCEPT ![k] = TRUE]
  /\ UNCHANGED <<hostVars, connVars, client, joins, face, posted, early, vanished>>

Connects(k) ==
  /\ thread[k] = "connect" /\ running[k] /\ ~vanished
  /\ \E s \in Share : /\ Listening(s)
                      /\ owner' = [owner EXCEPT ![k] = s]
                      /\ host' = [host EXCEPT ![k] = "queued"]
  /\ thread' = [thread EXCEPT ![k] = "loop"]
  /\ UNCHANGED <<hostVars, listed, client, joins, face, running, posted, early, vanished>>
\* A failed connect says so and leaves without "disconnected".
ConnectFails(k) ==
  /\ thread[k] = "connect" /\ (vanished \/ ~running[k] \/ \A s \in Share : ~Listening(s))
  /\ thread' = [thread EXCEPT ![k] = "end"] /\ running' = [running EXCEPT ![k] = FALSE]
  /\ UNCHANGED <<hostVars, connVars, client, joins, face, posted, early, vanished>>

\* A mutant: "disconnected" is only for those who did not stop.
LoopEnds_Quiet(k) ==
  /\ thread' = [thread EXCEPT ![k] = "end"] /\ running' = [running EXCEPT ![k] = FALSE]
  /\ UNCHANGED posted
\* The finally of _run_tcp.
LoopEnds(k) ==
  /\ thread' = [thread EXCEPT ![k] = "end"] /\ running' = [running EXCEPT ![k] = FALSE]
  /\ posted' = [posted EXCEPT ![k] = TRUE]

\* recv returns nothing or fails: the host closed its end.
HostHungUp(k) ==
  /\ thread[k] = "loop" /\ host[k] = "closed" /\ ~vanished
  /\ LoopEnds(k)
  /\ UNCHANGED <<hostVars, connVars, client, joins, face, early, vanished>>
\* stop() closed the socket; recv may return only when the host sends something.
ThreadStops(k) ==
  /\ thread[k] = "loop" /\ ~running[k]
  /\ LoopEnds(k)
  /\ host' = [host EXCEPT ![k] = IF @ \in {"queued", "open"} THEN "reset" ELSE @]
  /\ UNCHANGED <<hostVars, listed, owner, client, joins, face, early, vanished>>

\* _on_session_disconnected; that of a client it has left counts for nothing.
OnDisconnected(k) ==
  /\ posted[k] /\ posted' = [posted EXCEPT ![k] = FALSE]
  /\ IF client = k
     THEN client' = 0 /\ face' = "Join"
     ELSE UNCHANGED <<client, face>>
  /\ UNCHANGED <<hostVars, connVars, joins, running, thread, early, vanished>>

-----------------------------------------------------------------------------
Serve(s)  == ServeMakes(s) \/ ServeBinds(s) \/ AcceptLists(s) \/ ServeEnds(s)
             \/ \E k \in Join : Accept(s, k)
Viewer(k) == ThreadBegins(k) \/ Connects(k) \/ ConnectFails(k) \/ HostHungUp(k) \/ OnDisconnected(k)
Next == \/ StartShare \/ StopShare \/ FeedLine \/ HostVanishes \/ ClickJoin \/ ClickLeave
        \/ \E s \in Share : Serve(s)
        \/ \E k \in Join : HandlerEnds(k) \/ Viewer(k) \/ ThreadStops(k)
Spec == Init /\ [][Next]_vars

\* Threads run, and accept() times out every second.  Nobody has to click, a
\* viewer's stopped thread may wait for the host's next line, and the handler of
\* one that has left for a ping that does not come.
Fairness == /\ \A s \in Share : WF_vars(Serve(s))
            /\ \A k \in Join : WF_vars(Woken(k) /\ HandlerEnds(k)) /\ WF_vars(Viewer(k))
FairSpec == Spec /\ Fairness

-----------------------------------------------------------------------------
(* Properties *)

\* Every variable keeps its type.
TypeOK ==
  /\ server \in 0..shares /\ shares \in 0..MaxShare /\ up \in [Share -> BOOLEAN]
  /\ sock \in [Share -> {"none", "open", "closing", "closed"}]
  /\ serve \in [Share -> {"none", "start", "made", "accept", "end"}]
  /\ taken \in [Share -> 0..MaxJoin] /\ listed \subseteq Join
  /\ host \in [Join -> {"none", "queued", "open", "reset", "closing", "closed"}]
  /\ owner \in [Join -> 0..MaxShare] /\ client \in 0..joins /\ joins \in 0..MaxJoin
  /\ face \in {"Join", "Leave"} /\ running \in [Join -> BOOLEAN]
  /\ thread \in [Join -> {"none", "new", "connect", "loop", "end"}]
  /\ posted \in [Join -> BOOLEAN] /\ early \subseteq Share
  /\ vanished \in BOOLEAN

\* While the button says Leave there is something to leave: the client's thread
\* runs, or the signal that ends the session is on its way; or it never connected.
Failed(k) == owner[k] = 0
LeaveIsMeant ==
  face = "Leave" => \/ thread[client] \in {"new", "connect", "loop"}
                    \/ posted[client]
                    \/ Failed(client)

\* When a share is stopped, every connection it took or kept waiting leaves its
\* list for good and its viewer's thread comes to an end, though the accept loop
\* and stop() race for the list; unless stop() came before the socket was made.
\* The thread of a viewer that has left may wait for ever.
Over(k) == owner[k] # 0 /\ ~up[owner[k]] /\ owner[k] \notin early
Leaving(k) == thread[k] = "loop" /\ ~running[k]
ViewersReleased ==
  \A k \in Join : (Over(k) /\ ~vanished) ~>
                    (k \notin listed /\ (thread[k] = "end" \/ Leaving(k))) \/ vanished

\* A stopped share gives its port back, with the same exception.
PortReleased ==
  \A s \in Share : (serve[s] # "none" /\ ~up[s] /\ s \notin early) ~> ~Listening(s)
=============================================================================
