----------------------------- MODULE ShareCode -----------------------------
(***************************************************************************)
(* The session code: the host's registration thread (ui/controllers/       *)
(* session_controller.py, with core/stun_helper.py), the relay's registry  *)
(* with its caps (relay/server.py), and a viewer who joins by the code     *)
(* (core/signaling.py).  How often an address may ask is RateLimit; here a *)
(* request is let through or refused at will.  Each share has a thread of  *)
(* its own, which ends when it ends, not when its share does; a            *)
(* registration is known by the request that made it.                      *)
(***************************************************************************)
EXTENDS Naturals, Sequences, FiniteSets, FiniteSetsExt

CONSTANTS
  Code,        \* the codes _gen_code draws from
  MaxShare,    \* bound: shares the host starts
  Stranger,    \* registrations of other hosts, which come from one address
  TTL,         \* seconds a session lives, 3600
  MaxSessions, \* _MAX_SESSIONS, 500
  MaxPerIp,    \* _MAX_SESSIONS_PER_IP, 20
  MaxTime      \* bound: clock ticks

ASSUME LimitsAssumption ==
  /\ {TTL, MaxSessions, MaxPerIp, MaxTime, MaxShare} \subseteq Nat
  /\ Stranger \subseteq Nat \ 0..MaxShare
  /\ Cardinality(Code) > MaxSessions   \* _gen_code ends
ASSUME CodeAssumption ==   \* six digits, never a text of the dialog
  Code \cap {"none", "unread", "Detecting", "Not available"} = {}

VARIABLES
  now,       \* the relay's clock
  sessions,  \* _sessions and _tunnels, which change together
  server,    \* SessionController._server, 0 for none
  shares,    \* shares started so far
  stage,     \* where each request, and the thread behind it, is
  got,       \* the code it was answered
  label,     \* what the share dialog shows, and whose code it is
  relayCode, \* SessionServer._relay_code of each share
  worker,    \* the relay worker each thread has started: its server and its code
  viewer,    \* the code a viewer has looked up and not polled yet
  late       \* history: shares that met a registration of an earlier one

hostPart == <<server, shares, label, relayCode, worker, late>>
codeVars == <<now, sessions, hostPart, stage, got, viewer>>

Share     == 1..MaxShare
Request   == Share \cup Stranger
Source    == {"host", "strangers"}
Src(r)    == IF r \in Share THEN "host" ELSE "strangers"
NoCode    == "none"
NoSession == [by |-> 0, src |-> "none", expires |-> 0]
NoWorker  == [server |-> 0, code |-> NoCode]

\* normalize: a URL typed by the user, as its scheme and the kind of its host; an
\* empty one stands for the public relay.  urlparse raises for brackets that do not
\* match, and nobody looks at a URL before it is used.
Url == [scheme : {"none", "http", "https"}, host : {"none", "local", "public", "unparsable"}]
Scheme(u) == IF u.scheme = "none" \/ (u.scheme = "http" /\ u.host = "public") THEN "https"
             ELSE u.scheme
\* A hosted relay serves HTTPS only, one on the local network plain HTTP.
Reachable(u) == \/ u.host = "public" /\ Scheme(u) = "https"
                \/ u.host = "local" /\ Scheme(u) = "http"

CodeInit ==
  /\ now = 0 /\ sessions = [c \in Code |-> NoSession]
  /\ server = 0 /\ shares = 0
  /\ stage = [r \in Request |-> IF r \in Stranger THEN "rate" ELSE "none"]
  /\ got = [r \in Request |-> NoCode] /\ label = [text |-> "none", by |-> 0]
  /\ relayCode = [s \in Share |-> NoCode] /\ worker = [s \in Share |-> NoWorker]
  /\ viewer = NoCode /\ late = {}

Tick ==
  /\ now < MaxTime /\ now' = now + 1
  /\ UNCHANGED <<sessions, hostPart, stage, got, viewer>>

-----------------------------------------------------------------------------
(* The relay.  Its handlers run side by side, each critical section is a step. *)

To(r, s) == stage' = [stage EXCEPT ![r] = s]
Used(c)  == sessions[c] # NoSession

\* POST /register: the limit (429) ...
Arrives(r) ==
  /\ stage[r] = "rate" /\ (To(r, "clean") \/ To(r, "refused"))
  /\ UNCHANGED <<now, sessions, hostPart, got, viewer>>

\* ... _clean, by the time t that it read before it had the lock ...
Clean(r) ==
  /\ stage[r] = "clean" /\ To(r, "create")
  /\ \E t \in 0..now :
       sessions' = [c \in Code |-> IF Used(c) /\ sessions[c].expires < t THEN NoSession
                                   ELSE sessions[c]]
  /\ UNCHANGED <<now, hostPart, got, viewer>>

\* The caps, over what _clean has left.
Room(src) ==
  /\ Cardinality({c \in Code : Used(c)}) < MaxSessions
  /\ Cardinality({c \in Code : sessions[c].src = src}) < MaxPerIp
\* ... the caps (503, 429), and a code nobody has.
Create(r) ==
  /\ stage[r] = "create"
  /\ IF Room(Src(r))
     THEN \E c \in Code :
            /\ ~Used(c)
            /\ sessions' = [sessions EXCEPT ![c] = [by |-> r, src |-> Src(r), expires |-> now + TTL]]
            /\ got' = [got EXCEPT ![r] = c] /\ To(r, "answered")
     ELSE To(r, "refused") /\ UNCHANGED <<sessions, got>>
  /\ UNCHANGED <<now, hostPart, viewer>>

-----------------------------------------------------------------------------
(* The host *)

Running(s) == stage[s] \notin {"none", "end", "raised"}
\* start_share.  Its dialog is modal: it is closed before the next click.
BeginShare ==
  /\ server = 0 /\ shares < MaxShare
  /\ shares' = shares + 1 /\ server' = shares'
  /\ label' = [text |-> "Detecting", by |-> 0] /\ To(shares', "stun")
  /\ late' = IF \E s \in Share : Running(s) THEN late \cup {shares'} ELSE late
  /\ UNCHANGED <<now, sessions, got, relayCode, worker, viewer>>

\* stop_share; its registration thread, if still under way, is left to itself.
EndShare ==
  /\ server # 0 /\ server' = 0
  /\ UNCHANGED <<now, sessions, shares, label, relayCode, worker, late, stage, got, viewer>>

\* The thread sets the label itself.
Shows(text, by) == label' = [text |-> text, by |-> by]

\* A mutant: a failure is logged and the label is left.
GivesUp_Silent(s) ==
  /\ To(s, "end") /\ UNCHANGED <<now, sessions, server, shares, label, relayCode, worker, late, got, viewer>>
\* Whatever fails, the label says so.
GivesUp(s) ==
  /\ Shows("Not available", 0) /\ To(s, "end")
  /\ UNCHANGED <<now, sessions, server, shares, relayCode, worker, late, got, viewer>>

\* get_public_ip: the address of the first STUN server that answers with one, or none.
PublicIp == BOOLEAN
\* _discover_and_register: the address, the server URL, the request.
AsksStun(s) ==
  /\ stage[s] = "stun"
  /\ \E ip \in PublicIp, url \in Url :
       \/ /\ url.host = "unparsable" /\ To(s, "raised")   \* outside any try: the thread is gone
          /\ UNCHANGED <<now, sessions, hostPart, got, viewer>>
       \/ /\ url.host = "none" \/ (url.host # "unparsable" /\ ~ip)
          /\ GivesUp(s)
       \/ /\ url.host \in {"local", "public"} /\ ip
          /\ To(s, IF Reachable(url) THEN "rate" ELSE "refused")
          /\ UNCHANGED <<now, sessions, hostPart, got, viewer>>
\* An error status, no answer within 8 s although the relay has made the session, ...
Fails(s) ==
  /\ stage[s] \in {"rate", "answered", "refused"}
  /\ GivesUp(s)
\* ... or the code: it is shown at once, in whatever dialog was opened last.
ShowsCode(s) ==
  /\ stage[s] = "answered" /\ Shows(got[s], s) /\ To(s, "shown")
  /\ UNCHANGED <<now, sessions, server, shares, relayCode, worker, late, got, viewer>>
\* if self._server: ...
LooksForServer(s) ==
  /\ stage[s] = "shown" /\ To(s, IF server = 0 THEN "end" ELSE "relay")
  /\ UNCHANGED <<now, sessions, hostPart, got, viewer>>
\* A mutant: the worker is started before the code is set.
SetsRelay_Late(s) ==
  /\ stage[s] = "relay" /\ server # 0 /\ To(s, "end")
  /\ worker' = [worker EXCEPT ![s] = [server |-> server, code |-> relayCode[server]]]
  /\ relayCode' = [relayCode EXCEPT ![server] = got[s]]
  /\ UNCHANGED <<now, sessions, server, shares, label, late, got, viewer>>
\* ... self._server.set_relay, of the server there is now; None raises.
SetsRelay(s) ==
  /\ stage[s] = "relay"
  /\ \/ server = 0 /\ GivesUp(s)
     \/ /\ server # 0 /\ To(s, "end")
        /\ relayCode' = [relayCode EXCEPT ![server] = got[s]]
        /\ worker' = [worker EXCEPT ![s] = [server |-> server, code |-> "unread"]]
        /\ UNCHANGED <<now, sessions, server, shares, label, late, got, viewer>>
\* _relay_worker reads the code when its thread begins.
WorkerBegins(s) ==
  /\ worker[s].code = "unread"
  /\ worker' = [worker EXCEPT ![s].code = relayCode[worker[s].server]]
  /\ UNCHANGED <<now, sessions, server, shares, label, relayCode, late, stage, got, viewer>>

-----------------------------------------------------------------------------
(* The viewer *)

\* GET /lookup: the session, unless there is none or it has expired (404).
Found(c) == Used(c) /\ sessions[c].expires > now
\* open_join_dialog by code: signaling.lookup; a poll of the tunnel follows if the session
\* is found and has not expired, else (404, 429, no answer) nothing does.
Lookup ==
  /\ viewer = NoCode /\ \E c \in Code : Found(c) /\ viewer' = c
  /\ UNCHANGED <<now, sessions, hostPart, stage, got>>
\* The first poll: what follows, and the 404 when the hour is over, is RelayTunnel.
FirstPoll == viewer # NoCode /\ viewer' = NoCode /\ UNCHANGED <<now, sessions, hostPart, stage, got>>

-----------------------------------------------------------------------------
Handles(r)   == Arrives(r) \/ Clean(r) \/ Create(r)
Registers(s) == AsksStun(s) \/ Fails(s) \/ ShowsCode(s) \/ LooksForServer(s) \/ SetsRelay(s)
CodeNext == \/ Tick \/ BeginShare \/ EndShare \/ Lookup \/ FirstPoll
        \/ \E r \in Request : Handles(r)
        \/ \E s \in Share : Registers(s) \/ WorkerBegins(s)
CodeSpec == CodeInit /\ [][CodeNext]_codeVars

\* The host's threads run, and each of their requests has a timeout.
CodeFairness == \A s \in Share : WF_codeVars(Handles(s)) /\ WF_codeVars(Registers(s)) /\ WF_codeVars(WorkerBegins(s))
CodeFairSpec == CodeSpec /\ CodeFairness

-----------------------------------------------------------------------------
(* Properties *)

\* Every variable keeps its type.
Stages == {"none", "stun", "rate", "clean", "create", "answered", "refused", "shown", "relay",
           "end", "raised"}
CodeTypeOK ==
  /\ now \in 0..MaxTime
  /\ sessions \in [Code -> [by : Request \cup {0}, src : Source \cup {"none"}, expires : Nat]]
  /\ server \in 0..shares /\ shares \in 0..MaxShare
  /\ stage \in [Request -> Stages] /\ got \in [Request -> Code \cup {NoCode}]
  /\ label \in [text : Code \cup {"none", "Detecting", "Not available"}, by : 0..MaxShare]
  /\ relayCode \in [Share -> Code \cup {NoCode}] /\ late \subseteq Share
  /\ worker \in [Share -> [server : 0..MaxShare, code : Code \cup {NoCode, "unread"}]]
  /\ viewer \in Code \cup {NoCode}

\* The code a host reads out is served: once its registration is over, a worker of
\* the share that runs now posts to it, and no worker posts its lines elsewhere; unless
\* the registration of an earlier share came late into this one.
ShownCodeServed ==
  (server # 0 /\ server \notin late /\ label.text \in Code /\ stage[label.by] = "end") =>
    /\ \E s \in Share : worker[s].server = server
    /\ \A s \in Share : worker[s].server = server => worker[s].code \in {"unread", label.text}

\* "Detecting" does not stay: a share that goes on gets its code or is told that there
\* is none; unless its thread died of a server URL that urlparse refuses.
DialogSettles == \A s \in Share :
  (server = s /\ label.text = "Detecting")
    ~> (server # s \/ label.text # "Detecting" \/ stage[s] = "raised")
=============================================================================
