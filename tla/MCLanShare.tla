----------------------------- MODULE MCLanShare -----------------------------
(***************************************************************************)
(* LanShare for TLC, with what its comments and the manual say of it and   *)
(* the code does not do.                                                   *)
(***************************************************************************)
EXTENDS LanShare

\* "seconds before TCP connection considered lost" (session_client.py): a
\* viewer whose host is gone learns it.  Nothing reads PING_TIMEOUT.
LossNoticed == \A k \in Join : (vanished /\ thread[k] = "loop") ~> (thread[k] = "end")

\* A client the viewer has left ends, also when stop() came before run().
LeftEnds == \A k \in Join : (thread[k] # "none" /\ client # k /\ vanished) ~> (thread[k] = "end")

\* When the share is over, so are its viewers' threads, also of those that have
\* left: each end's recv waits on a socket that it has closed, and neither sends
\* anything any more.
AllReleased == \A k \in Join : (Over(k) /\ ~vanished) ~> (thread[k] = "end" \/ vanished)

\* "Session server started" is said of a share that listens, or will.
StartedListens == server # 0 => serve[server] # "end"
=============================================================================
