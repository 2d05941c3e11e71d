---------------------------- MODULE MCShareCode ----------------------------
(***************************************************************************)
(* ShareCode and RateLimit for TLC, with four statements a reader could    *)
(* expect and the code does not keep.  The two modules share no variable   *)
(* and neither waits for the other, so that it is enough to check each     *)
(* while the other stays where it began.                                   *)
(***************************************************************************)
EXTENDS ShareCode, RateLimit

Init == CodeInit /\ LimitInit
Next == \/ LimitInit /\ UNCHANGED limitVars /\ CodeNext
        \/ CodeInit /\ UNCHANGED codeVars /\ LimitNext
Spec == Init /\ [][Next]_<<codeVars, limitVars>> /\ CodeFairness

\* The code in the dialog was registered by the share that runs: refuted when the
\* registration of a stopped share comes late.
CodeIsOurs == server # 0 /\ label.by # 0 => label.by = server

\* A worker's code is its host's own: refuted when the hour is over, _clean has freed
\* the code and another host got it, while the worker goes on posting.
CodeIsNotReused ==
  \A s \in Share : worker[s].code \in Code /\ worker[s].server = server =>
    sessions[worker[s].code].by \in Share \cup {0}

\* The dialog settles whatever URL is set: refuted by one that urlparse refuses, for
\* which normalize, called outside any try, ends the thread.
SettlesForAnyUrl == \A s \in Share : (server = s /\ label.text = "Detecting")
                                       ~> (server # s \/ label.text # "Detecting")

\* "max register+lookup requests per IP per window" (relay/server.py:42): refuted when
\* a handler that read the clock earlier takes the lock later.  Its older time is then
\* the last of the bucket, and _clean throws away newer ones that still count.
RateExact == \A ip \in Ip : Len(Pruned(admitted[ip], time)) <= RateMax
=============================================================================
