----------------------------- MODULE LogSession -----------------------------
(***************************************************************************)
(* The data logger of one connection (core/logger.py): the GUI thread      *)
(* queues lines and opens and closes sessions, the _LogWriter thread moves *)
(* the queue into one buffer per sink and writes the buffers in batches.   *)
(* stop() asks the writer to drain and write everything (flush_and_wait)   *)
(* and closes the sinks when it says so, or after two seconds.             *)
(***************************************************************************)
EXTENDS Naturals, Sequences, SequencesExt

CONSTANTS
  MaxSession,  \* bound: sessions started
  MaxLine,     \* bound: lines offered to the logger
  MaxClock,    \* bound: the seconds that file names tell apart
  Disks        \* the disks: some of "good" and "bad"

ASSUME BoundsAssumption ==
  MaxSession \in Nat /\ MaxLine \in Nat /\ MaxClock \in Nat \ {0}
ASSUME DiskAssumption == Disks \subseteq {"good", "bad"}

Sinks  == {"file", "db"}
Names  == 1..MaxClock            \* "{prefix}_%Y%m%d_%H%M%S"
Line   == [sess : 1..MaxSession, n : 1..MaxLine]

VARIABLES
  active,    \* Logger._active
  gui,       \* the call the GUI thread is in: see Guis
  q,         \* Logger._q
  req,       \* _LogWriter._flush_req
  done,      \* _LogWriter._flush_done
  stopEv,    \* _LogWriter._stop_ev
  pc,        \* where the writer thread is: see Pcs
  buf,       \* fbuf and dbuf
  target,    \* the name each sink has open, 0 when closed
  store,     \* what is on disk: per sink and name, the lines in order
  now,       \* the clock, in seconds
  disk,      \* a bad one keeps a write for more than two seconds, and a write
             \* to it may raise after part of the batch
  count,     \* lines accepted so far
  session,   \* history: sessions started so far
  taken,     \* history: per session, the lines it accepted
  nameOf,    \* history: per session, the name its sinks opened
  usedBy     \* history: per session, the sinks it opened

gvars   == <<active, gui, now, count, disk>>
Good    == disk = "good"
events  == <<req, done, stopEv>>
history == <<session, taken, nameOf, usedBy>>
vars    == <<gvars, q, events, pc, buf, target, store, history>>

Guis == {"idle", "stopping", "ending", "joining", "down"}
Pcs  == {"drain", "write", "fdrain", "ffile", "fdb", "final", "dead"}

Init ==
  /\ active = FALSE /\ gui = "idle"
  /\ q = <<>> /\ req = FALSE /\ done = FALSE /\ stopEv = FALSE
  /\ pc = "drain" /\ buf = [s \in Sinks |-> <<>>]
  /\ target = [s \in Sinks |-> 0]
  /\ store = [s \in Sinks |-> [f \in Names |-> <<>>]]
  /\ now = 1 /\ count = 0 /\ disk \in Disks
  /\ session = 0 /\ taken = [k \in 1..MaxSession |-> <<>>]
  /\ nameOf = [k \in 1..MaxSession |-> 0] /\ usedBy = [k \in 1..MaxSession |-> {}]

-----------------------------------------------------------------------------
(* The GUI thread *)

\* The file is opened for writing: one of that name is emptied.
FileOpened == [store EXCEPT !["file"][now] = <<>>]
\* The names that are open then; a database of that name gets more rows.
Opening(use) == [s \in Sinks |-> IF s \in use THEN now ELSE target[s]]
Closed == [s \in Sinks |-> 0]

\* Logger.start, from the panel's button or a trigger's resume action.  `use' is
\* what set_use_file and set_use_db last chose.
Start(use) ==
  /\ gui = "idle" /\ ~active /\ session < MaxSession
  /\ active' = TRUE /\ session' = session + 1
  /\ nameOf' = [nameOf EXCEPT ![session + 1] = now]
  /\ usedBy' = [usedBy EXCEPT ![session + 1] = use]
  /\ target' = Opening(use)
  /\ store'  = IF "file" \in use THEN FileOpened ELSE store
  /\ UNCHANGED <<gui, now, count, disk, q, events, pc, buf, taken>>

\* write_line and write_trigger_event: dropped while inactive.
WriteLine ==
  /\ gui = "idle" /\ active /\ count < MaxLine
  /\ LET l == [sess |-> session, n |-> count + 1] IN
       /\ q' = Append(q, l)
       /\ taken' = [taken EXCEPT ![session] = Append(@, l)]
  /\ count' = count + 1
  /\ UNCHANGED <<active, gui, now, disk, events, pc, buf, target, store,
                 session, nameOf, usedBy>>

\* A mutant: the answer to an earlier request is not cleared.
RequestFlush_StaleAnswer == req' = TRUE /\ UNCHANGED done

\* flush_and_wait, up to the wait.
RequestFlush == done' = FALSE /\ req' = TRUE

\* Logger.stop (from the panel, a trigger's pause action, or a closing tab) and
\* the stop inside Logger.shutdown.
BeginStop(call) ==
  /\ gui = "idle" /\ (active \/ call = "ending")
  /\ active' = FALSE /\ gui' = call
  /\ RequestFlush
  /\ UNCHANGED <<now, count, disk, q, stopEv, pc, buf, target, store, history>>

\* A mutant: stop() does not wait.
EndStop_NoWait ==
  /\ gui \in {"stopping", "ending"}
  /\ target' = Closed
  /\ \/ gui = "stopping" /\ gui' = "idle" /\ UNCHANGED stopEv
     \/ gui = "ending" /\ gui' = "joining" /\ stopEv' = TRUE
  /\ UNCHANGED <<active, now, count, disk, q, req, done, pc, buf, store, history>>

\* The wait is over, flushed or timed out: both sinks are closed.
EndStop ==
  /\ gui \in {"stopping", "ending"} /\ (done \/ ~Good)
  /\ target' = Closed
  /\ \/ gui = "stopping" /\ gui' = "idle" /\ UNCHANGED stopEv
     \/ gui = "ending" /\ gui' = "joining" /\ stopEv' = TRUE
  /\ UNCHANGED <<active, now, count, disk, q, req, done, pc, buf, store, history>>

\* The join of Logger.shutdown.
Join ==
  /\ gui = "joining" /\ (pc = "dead" \/ ~Good)
  /\ gui' = "down"
  /\ UNCHANGED <<active, now, count, disk, q, events, pc, buf, target, store, history>>

Tick ==
  /\ now < MaxClock /\ now' = now + 1
  /\ UNCHANGED <<active, gui, count, disk, q, events, pc, buf, target, store, history>>

-----------------------------------------------------------------------------
(* The writer thread *)

\* A mutant: a batch is kept to be tried again.
WriteBatch_Retries(s) ==
  /\ \E k \in IF target[s] = 0 THEN {0} ELSE 0..Len(buf[s]) :
       store' = IF k = 0 THEN store
                ELSE [store EXCEPT ![s][target[s]] = @ \o SubSeq(buf[s], 1, k)]
  /\ UNCHANGED buf

\* write_batch: nothing reaches a closed sink; the caller clears the buffer.
WriteBatch(s) ==
  /\ \E k \in IF target[s] = 0 THEN {0}
              ELSE IF Good THEN {Len(buf[s])} ELSE 0..Len(buf[s]) :
       store' = IF k = 0 THEN store
                ELSE [store EXCEPT ![s][target[s]] = @ \o SubSeq(buf[s], 1, k)]
  /\ buf' = [buf EXCEPT ![s] = <<>>]

\* One turn of _drain_into: a line goes to the sinks that are open now.
Take ==
  /\ pc \in {"drain", "fdrain", "final"} /\ q # <<>>
  /\ q' = Tail(q)
  /\ buf' = [s \in Sinks |-> IF target[s] # 0 THEN Append(buf[s], Head(q)) ELSE buf[s]]
  /\ UNCHANGED <<gvars, events, pc, target, store, history>>

Drained ==
  /\ pc \in {"drain", "fdrain"} /\ q = <<>>
  /\ pc' = IF pc = "drain" THEN "write" ELSE "ffile"
  /\ UNCHANGED <<gvars, q, events, buf, target, store, history>>

\* A full batch, or one whose interval has elapsed.
Batch(s) ==
  /\ pc = "write" /\ buf[s] # <<>>
  /\ WriteBatch(s)
  /\ UNCHANGED <<gvars, q, events, pc, target, history>>

NextTurn == IF stopEv THEN "final" ELSE "drain"

\* A mutant: the flush does not drain the queue first.
Check_NoDrain ==
  /\ pc = "write"
  /\ pc' = IF req THEN "ffile" ELSE NextTurn
  /\ UNCHANGED <<gvars, q, events, buf, target, store, history>>

\* The handshake is answered at the end of a turn of the loop.
Check ==
  /\ pc = "write"
  /\ pc' = IF req THEN "fdrain" ELSE NextTurn
  /\ UNCHANGED <<gvars, q, events, buf, target, store, history>>

\* A mutant: the answer never comes.
FlushDb_NeverAnswers ==
  /\ pc = "fdb" /\ pc' = NextTurn
  /\ WriteBatch("db")
  /\ req' = FALSE
  /\ UNCHANGED <<gvars, q, done, stopEv, target, history>>

FlushFile ==
  /\ pc = "ffile" /\ pc' = "fdb"
  /\ WriteBatch("file")
  /\ UNCHANGED <<gvars, q, events, target, history>>

FlushDb ==
  /\ pc = "fdb" /\ pc' = NextTurn
  /\ WriteBatch("db")
  /\ req' = FALSE /\ done' = TRUE
  /\ UNCHANGED <<gvars, q, stopEv, target, history>>

\* The last drain of a thread that was told to end.  Its sinks were closed.
Finish ==
  /\ pc = "final" /\ q = <<>>
  /\ pc' = "dead"
  /\ store' = [s \in Sinks |-> [f \in Names |->
                 IF f = target[s] THEN store[s][f] \o buf[s] ELSE store[s][f]]]
  /\ buf' = [s \in Sinks |-> <<>>]
  /\ target' = Closed
  /\ UNCHANGED <<gvars, q, events, history>>

-----------------------------------------------------------------------------
Writer == Take \/ Drained \/ (\E s \in Sinks : Batch(s)) \/ Check
          \/ FlushFile \/ FlushDb \/ Finish
Gui    == (\E use \in SUBSET Sinks : Start(use)) \/ WriteLine \/ BeginStop("stopping") \/ BeginStop("ending")
          \/ EndStop \/ Join
Next   == Gui \/ Writer \/ Tick

Spec == Init /\ [][Next]_vars

\* The writer thread runs, its interval test writes what waits in a buffer, and
\* a wait that is over returns.  Nobody has to stop or start a session.
Fairness == /\ WF_vars(Take \/ Drained \/ Check \/ FlushFile \/ FlushDb \/ Finish)
            /\ \A s \in Sinks : SF_vars(Batch(s))
            /\ WF_vars(EndStop) /\ WF_vars(Join)
FairSpec == Spec /\ Fairness

-----------------------------------------------------------------------------
(* Properties *)

\* Every variable keeps its type.
TypeOK ==
  /\ active \in BOOLEAN /\ gui \in Guis
  /\ q \in Seq(Line) /\ req \in BOOLEAN /\ done \in BOOLEAN /\ stopEv \in BOOLEAN
  /\ pc \in Pcs /\ buf \in [Sinks -> Seq(Line)]
  /\ target \in [Sinks -> 0..MaxClock]
  /\ store \in [Sinks -> [Names -> Seq(Line)]]
  /\ disk \in Disks /\ now \in Names /\ count \in 0..MaxLine /\ session \in 0..MaxSession
  /\ taken \in [1..MaxSession -> Seq(Line)]
  /\ nameOf \in [1..MaxSession -> 0..MaxClock]
  /\ usedBy \in [1..MaxSession -> SUBSET Sinks]

\* What session k left in a file or a table: all from its first line to its last.
Part(x, k) == LET I == {i \in 1..Len(x) : x[i].sess = k}
              IN  IF I = {} THEN <<>> ELSE SubSeq(x, Min(I), Max(I))
Kept(s, k) == Part(store[s][nameOf[k]], k)
Over(k)    == k < session \/ (k = session /\ ~active /\ gui \in {"idle", "joining", "down"})

\* A later session started within the same second empties the earlier's file.
Emptied(s, k) ==
  s = "file" /\ \E j \in (k + 1)..session : "file" \in usedBy[j] /\ nameOf[j] = nameOf[k]

\* When stop() has returned, every sink of the session holds every line it
\* accepted, in order: the last sub-interval batch included (flush_and_wait),
\* unless the disk kept the writer for longer than stop() waits.
StopIsComplete ==
  Good => \A k \in 1..session : \A s \in usedBy[k] :
    Over(k) /\ ~Emptied(s, k) => Kept(s, k) = taken[k]

\* No line lands in the file of a session that did not accept it, unless the
\* disk kept the writer for longer than stop() waits.
OwnSession ==
  Good => \A s \in Sinks : \A f \in Names : \A i \in 1..Len(store[s][f]) :
    LET k == store[s][f][i].sess IN nameOf[k] = f /\ s \in usedBy[k]

\* A sink holds its lines in arrival order and none twice, even when a stop
\* gives up waiting or a write fails half way.
InOrder ==
  \A s \in Sinks : \A f \in Names : \A i, j \in 1..Len(store[s][f]) :
    i < j => store[s][f][i].n < store[s][f][j].n

\* stop() and shutdown() return, and after shutdown() the writer has ended.
CallsReturn ==
  /\ (gui \in {"stopping", "ending"}) ~> (gui \in {"idle", "down"})
  /\ (gui = "ending") ~> (pc = "dead")

\* Each sink keeps the contract of a logging session while the disk is good.
Opened(s)  == Good /\ session > 0 /\ s \in usedBy[session]
TakenBy(s) == IF Opened(s) THEN taken[session] ELSE <<>>
KeptBy(s)  == IF Opened(s) THEN Kept(s, session) ELSE <<>>
File == INSTANCE LogContract WITH
          accepting <- active /\ Good, taken <- TakenBy("file"), kept <- KeptBy("file")
Db   == INSTANCE LogContract WITH
          accepting <- active /\ Good, taken <- TakenBy("db"), kept <- KeptBy("db")
Contracts == File!Spec /\ Db!Spec
=============================================================================
