----------------------------- MODULE RateLimit -----------------------------
(***************************************************************************)
(* The relay's limit on registrations and lookups (relay/server.py,        *)
(* _rate_ok, with the part of _clean that throws buckets away).  The       *)
(* server has a thread for each request.  Both functions read the clock    *)
(* first and take the lock afterwards, so a handler may come to the lock   *)
(* with a time that others have overtaken, and a bucket's times need not   *)
(* rise.  What a registration and a lookup do behind the limit is          *)
(* ShareCode.                                                              *)
(***************************************************************************)
EXTENDS Naturals, Sequences, FiniteSetsExt

CONSTANTS
  Handler,  \* threads of the server; one whose request is over stands for the next
  Ip,       \* the addresses requests come from
  Window,   \* _RATE_WINDOW, 60
  RateMax,  \* _RATE_MAX, 60
  MaxClock  \* bound: clock ticks

ASSUME RateAssumption == {Window, RateMax, MaxClock} \subseteq Nat

VARIABLES
  time,     \* the clock
  hits,     \* _hits; an address without a bucket has an empty one
  doing,    \* where each handler is
  clock,    \* the time it has read, 0 for none
  admitted, \* history: the times with which each address was let through, as they count
  lag       \* history: the longest from a handler's clock to its lock

limitVars == <<time, hits, doing, clock, admitted, lag>>

LimitInit ==
  /\ time = 0 /\ hits = [ip \in Ip |-> <<>>]
  /\ doing = [h \in Handler |-> "idle"] /\ clock = [h \in Handler |-> 0]
  /\ admitted = [ip \in Ip |-> <<>>] /\ lag = 0

\* A bucket without the times at its front that are out of the window at the time t:
\* it goes from the first that counts to the end, though one behind it may be older.
Pruned(bucket, t) ==
  LET in == {i \in 1..Len(bucket) : bucket[i] + Window >= t}
  IN  IF in = {} THEN <<>> ELSE SubSeq(bucket, Min(in), Len(bucket))

TimePasses ==
  /\ time < MaxClock /\ time' = time + 1
  /\ admitted' = [ip \in Ip |-> Pruned(admitted[ip], time')]
  /\ UNCHANGED <<hits, doing, clock, lag>>

Goes(h, d) == doing' = [doing EXCEPT ![h] = d]

\* A request arrives, or a registration comes to _clean: now = time.time().
ReadsClock(h) ==
  /\ \/ doing[h] = "idle" /\ Goes(h, "limit")
     \/ doing[h] = "clean" /\ Goes(h, "sweep")
  /\ clock' = [clock EXCEPT ![h] = time]
  /\ UNCHANGED <<time, hits, admitted, lag>>

\* _rate_ok with the lock, where all goes by the time the handler has read: the request
\* is let through, and goes on to _clean if it is a registration with a body in order, ...
Recent(h, ip) == Pruned(hits[ip], clock[h])
Let(h, ip) ==
  /\ Len(Recent(h, ip)) < RateMax
  /\ hits' = [hits EXCEPT ![ip] = Append(Recent(h, ip), clock[h])]
  /\ admitted' = [admitted EXCEPT ![ip] = Append(@, clock[h])]
  /\ lag' = Max({lag, time - clock[h]})
  /\ \E d \in {"idle", "clean"} : Goes(h, d)
\* ... or it is refused (429).
Refuse(h, ip) ==
  /\ Len(Recent(h, ip)) >= RateMax
  /\ hits' = [hits EXCEPT ![ip] = Recent(h, ip)]
  /\ Goes(h, "idle") /\ UNCHANGED <<admitted, lag>>
Limited(h) ==
  /\ doing[h] = "limit" /\ clock' = [clock EXCEPT ![h] = 0]
  /\ \E ip \in Ip : Let(h, ip) \/ Refuse(h, ip)
  /\ UNCHANGED time

\* A mutant: a bucket goes a tick too soon.
Stale_TooSoon(bucket, t) == bucket # <<>> /\ bucket[Len(bucket)] + Window <= t
\* A bucket whose last time does not count any more.
Stale(bucket, t) == bucket # <<>> /\ bucket[Len(bucket)] + Window < t
\* _clean with the lock.
Cleans(h) ==
  /\ doing[h] = "sweep" /\ Goes(h, "idle") /\ clock' = [clock EXCEPT ![h] = 0]
  /\ hits' = [ip \in Ip |-> IF Stale(hits[ip], clock[h]) THEN <<>> ELSE hits[ip]]
  /\ UNCHANGED <<time, admitted, lag>>

Serves(h) == ReadsClock(h) \/ Limited(h) \/ Cleans(h)
LimitNext == TimePasses \/ \E h \in Handler : Serves(h)
LimitSpec == LimitInit /\ [][LimitNext]_limitVars

-----------------------------------------------------------------------------
(* Properties *)

\* Every variable keeps its type.
LimitTypeOK ==
  /\ time \in 0..MaxClock /\ lag \in Nat
  /\ hits \in [Ip -> Seq(Nat)] /\ admitted \in [Ip -> Seq(Nat)]
  /\ doing \in [Handler -> {"idle", "limit", "clean", "sweep"}]
  /\ clock \in [Handler -> Nat]

\* No address is let through more than RateMax times within a window, less the longest
\* that a handler was held up between its clock and its lock: handlers overtake each
\* other there, and _clean looks at the last time of a bucket only (MCShareCode!RateExact
\* is the limit without the deduction).
RateHonest == \A ip \in Ip : Len(Pruned(admitted[ip], time + lag)) <= RateMax
=============================================================================
