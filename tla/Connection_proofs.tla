-------------------------- MODULE Connection_proofs --------------------------
(***************************************************************************)
(* The link of a connection and the command that borrows it, for every     *)
(* transport and every bound: a link the user closed stays closed, the     *)
(* flash command has the port to itself, a retry loop is always stoppable  *)
(* and never runs beside a live link, except where a call crossed an event *)
(* of the link; and a command that ended has all its output shown.         *)
(***************************************************************************)
EXTENDS LinkLifecycle, FlashRunner, SequenceTheorems, FiniteSetTheorems, WellFoundedInduction, TLAPS

Live  == thread \in {"opening", "loop", "exit"}
Quiet == /\ thread = "idle" /\ ~reconnecting /\ ser # "open"
         /\ ~Waits("connected") /\ ~Waits("disconnected")

-----------------------------------------------------------------------------
(* The strengthening.  Each part is about two threads' variables at once.  *)

\* A loss is noted by the thread that ends, and announced by it: a call that
\* still has to announce the end of a session has not lost it.
LossNoted ==
  /\ Live => ~lost
  /\ lost /\ ~dEmitted => thread = "idle" /\ gui = "loop"
  /\ thread = "opening" => ser # "open"

\* While the GUI thread is inside disconnect_port() nothing retries or flashes.
Blocked == gui # "loop" => flash = "none" /\ ~reconnecting

\* One flash_done is posted for each command, and it waits only for an ended one.
Once == \A i, j \in 1..Len(queue) :
          queue[i] = "flash_done" /\ queue[j] = "flash_done" => i = j
OneDone == Once /\ (Waits("flash_done") => flash = "ended")

\* A command that will reconnect was started over a link the user wanted.
ResumeWanted ==
  resume /\ (flash # "none" \/ gui \in {"flash", "flash_stop"}) => ~userOff

\* Without a crossing, the reader's flag agrees with its thread.
Agrees ==
  ~crossed /\ gui = "loop" => /\ Live => running
                              /\ ~Live => ser # "open"

\* Without a crossing, nothing of the link is left after a close or a release.
AtRest == ~crossed /\ gui = "loop" /\ (userOff \/ flash # "none") => Quiet

\* A retry that opened the link has posted the event that ends the retry loop.
EndsItself ==
  ~crossed /\ reconnecting /\ thread = "loop" => Waits("connected")

\* The screen follows the retry loop, also while disconnect_port() blocks.
ScreenTrue ==
  /\ reconnecting => timer /\ view \in {"waiting", "flashing"}
  /\ gui \in {"loop", "user"} /\ view = "waiting" => reconnecting

IInv == /\ TypeOK /\ LossNoted /\ Blocked /\ OneDone /\ ResumeWanted
        /\ Agrees /\ AtRest /\ EndsItself /\ ScreenTrue

\* The account of the sessions, when every open ends in the wait() of
\* disconnect_port(): a session that was opened is owed one on_disconnected call,
\* by the event that announces its end or, before that, by whoever will announce
\* it: the thread that still runs it, or the call that asked it to stop.
Announced == {i \in 1..Len(queue) : queue[i] = "disconnected"}
Pending   == ~dEmitted /\ (running \/ gui # "loop")
Flags     == /\ running => Live
             /\ Live => ~dEmitted
             /\ gui = "loop" /\ Live => running
             /\ gui = "loop" /\ thread = "finishing" => dEmitted
Balance   == owed = Cardinality(Announced) + (IF Pending THEN 1 ELSE 0)
Account   == ~slowOpen => Flags /\ Balance

-----------------------------------------------------------------------------
(* The queue of posted events *)

\* Posting an event adds it to those that wait and to no other.
LEMMA PostWaits ==
  ASSUME queue \in Seq(Events), NEW f \in Events, Post(f)
  PROVE  /\ queue' \in Seq(Events)
         /\ \A e \in Events : Waits(e)' <=> Waits(e) \/ e = f
<1>1. /\ queue' \in Seq(Events) /\ Len(queue') = Len(queue) + 1
      /\ queue'[Len(queue) + 1] = f
      /\ \A i \in 1..Len(queue) : queue'[i] = queue[i]
  BY DEF Post
<1>2. Len(queue) \in Nat
  OBVIOUS
<1> QED BY <1>1, <1>2 DEF Waits

\* Two events posted together.
LEMMA PostTwoWaits ==
  ASSUME queue \in Seq(Events), NEW f \in Events, NEW g \in Events,
         queue' = queue \o <<f, g>>
  PROVE  /\ queue' \in Seq(Events)
         /\ \A e \in Events : Waits(e)' <=> Waits(e) \/ e \in {f, g}
<1>1. /\ queue' \in Seq(Events) /\ Len(queue') = Len(queue) + 2
      /\ queue'[Len(queue) + 1] = f /\ queue'[Len(queue) + 2] = g
      /\ \A i \in 1..Len(queue) : queue'[i] = queue[i]
  OBVIOUS
<1>2. Len(queue) \in Nat
  OBVIOUS
<1>3. \A e \in Events : Waits(e)' => Waits(e) \/ e \in {f, g}
  <2> SUFFICES ASSUME NEW e \in Events, NEW i \in 1..Len(queue'), queue'[i] = e
               PROVE  (\E j \in 1..Len(queue) : queue[j] = e) \/ e \in {f, g}
    BY DEF Waits
  <2>1. i \in 1..Len(queue) \/ i = Len(queue) + 1 \/ i = Len(queue) + 2
    BY <1>1, <1>2
  <2> QED BY <1>1, <2>1
<1>4. \A e \in Events : Waits(e) \/ e \in {f, g} => Waits(e)'
  <2>1. 1..Len(queue) \subseteq 1..Len(queue')
    BY <1>1, <1>2
  <2>2. Len(queue) + 1 \in 1..Len(queue') /\ Len(queue) + 2 \in 1..Len(queue')
    BY <1>1, <1>2
  <2> QED BY <1>1, <2>1, <2>2 DEF Waits
<1> QED BY <1>1, <1>3, <1>4

\* Handling the first event takes only that event from those that wait.
LEMMA HandleWaits ==
  ASSUME queue \in Seq(Events), queue # <<>>, queue' = Tail(queue)
  PROVE  /\ queue' \in Seq(Events) /\ Head(queue) \in Events
         /\ Waits(Head(queue))
         /\ \A e \in Events : Waits(e)' => Waits(e)
         /\ \A e \in Events : Waits(e) /\ e # Head(queue) => Waits(e)'
<1>1. /\ queue' \in Seq(Events) /\ Len(queue) \in Nat \ {0}
      /\ Len(queue') = Len(queue) - 1 /\ Head(queue) = queue[1]
      /\ \A i \in 1..Len(queue') : queue'[i] = queue[i + 1]
      /\ \A i \in 1..Len(queue) : queue[i] \in Events
  OBVIOUS
<1>2. \A e \in Events : Waits(e) /\ e # Head(queue) => Waits(e)'
  <2> SUFFICES ASSUME NEW e \in Events, NEW i \in 1..Len(queue), queue[i] = e,
                      e # Head(queue)
               PROVE  \E j \in 1..Len(queue') : queue'[j] = e
    BY DEF Waits
  <2>1. i - 1 \in 1..Len(queue') /\ queue'[i - 1] = queue[i]
    BY <1>1
  <2> QED BY <2>1
<1>3. \A e \in Events : Waits(e)' => Waits(e)
  <2> SUFFICES ASSUME NEW e \in Events, NEW i \in 1..Len(queue'), queue'[i] = e
               PROVE  \E j \in 1..Len(queue) : queue[j] = e
    BY DEF Waits
  <2>1. i + 1 \in 1..Len(queue) /\ queue[i + 1] = e
    BY <1>1
  <2> QED BY <2>1
<1>4. Waits(Head(queue))
  BY <1>1 DEF Waits
<1> QED BY <1>1, <1>2, <1>3, <1>4

\* A queue left alone makes the same events wait.
LEMMA SameWaits ==
  ASSUME UNCHANGED queue
  PROVE  \A e \in Events : Waits(e)' <=> Waits(e)
BY DEF Waits
\* What posting and handling do to the number of flash_done that wait.
LEMMA PostOnce ==
  ASSUME queue \in Seq(Events), NEW f \in Events, Post(f), Once,
         f = "flash_done" => ~Waits("flash_done")
  PROVE  Once'
<1>1. /\ Len(queue') = Len(queue) + 1 /\ Len(queue) \in Nat
      /\ queue'[Len(queue) + 1] = f
      /\ \A i \in 1..Len(queue) : queue'[i] = queue[i]
  BY DEF Post
<1>2. \A i \in 1..Len(queue') : i \in 1..Len(queue) \/ i = Len(queue) + 1
  BY <1>1
<1> QED BY <1>1, <1>2 DEF Once, Waits

LEMMA PostTwoOnce ==
  ASSUME queue \in Seq(Events), queue' = queue \o <<"error", "disconnected">>, Once
  PROVE  Once'
<1>1. /\ Len(queue') = Len(queue) + 2 /\ Len(queue) \in Nat
      /\ queue'[Len(queue) + 1] = "error" /\ queue'[Len(queue) + 2] = "disconnected"
      /\ \A i \in 1..Len(queue) : queue'[i] = queue[i]
  OBVIOUS
<1>2. \A i \in 1..Len(queue') :
        i \in 1..Len(queue) \/ i = Len(queue) + 1 \/ i = Len(queue) + 2
  BY <1>1
<1> QED BY <1>1, <1>2 DEF Once

LEMMA HandleOnce ==
  ASSUME queue \in Seq(Events), queue # <<>>, queue' = Tail(queue), Once
  PROVE  Once' /\ (Head(queue) = "flash_done" => ~Waits("flash_done")')
<1>1. /\ Len(queue) \in Nat \ {0}
      /\ Len(queue') = Len(queue) - 1 /\ Head(queue) = queue[1]
      /\ \A i \in 1..Len(queue') : queue'[i] = queue[i + 1]
  OBVIOUS
<1>2. \A i \in 1..Len(queue') : i + 1 \in 1..Len(queue) /\ i + 1 # 1
  BY <1>1
<1>3. 1 \in 1..Len(queue)
  BY <1>1
<1>4. Once'
  <2> SUFFICES ASSUME NEW i \in 1..Len(queue'), NEW j \in 1..Len(queue'),
                      queue'[i] = "flash_done", queue'[j] = "flash_done"
               PROVE  i = j
    BY DEF Once
  <2>1. i + 1 = j + 1
    BY <1>1, <1>2 DEF Once
  <2> QED BY <2>1
<1> QED BY <1>1, <1>2, <1>3, <1>4 DEF Once, Waits

-----------------------------------------------------------------------------
(* One lemma per group of actions *)

LEMMA OpenOkKeeps == IInv /\ OpenOk /\ Frame => IInv'
<1> SUFFICES ASSUME IInv, OpenOk, Frame PROVE IInv'
  OBVIOUS
<1> USE DEF IInv, OpenOk, Frame, retry, tool, env
<1>1. /\ queue' \in Seq(Events)
      /\ \A e \in Events : Waits(e)' <=> Waits(e) \/ e = "connected"
  BY PostWaits DEF TypeOK, Events
<1>2. OneDone'
  BY <1>1, PostOnce DEF OneDone, Events, TypeOK
<1>3. TypeOK'
  BY <1>1 DEF TypeOK
<1>4. LossNoted' /\ Blocked' /\ ResumeWanted' /\ Agrees' /\ ScreenTrue'
  BY DEF LossNoted, Blocked, ResumeWanted, Agrees, ScreenTrue, Live
<1>5. AtRest' /\ EndsItself'
  BY <1>1 DEF AtRest, EndsItself, Quiet, Events
<1> QED BY <1>2, <1>3, <1>4, <1>5
LEMMA OpenFailKeeps == IInv /\ OpenFail /\ Frame => IInv'
<1> SUFFICES ASSUME IInv, OpenFail, Frame PROVE IInv'
  OBVIOUS
<1> USE DEF IInv, OpenFail, Frame, retry, tool, env
<1>1. /\ queue' \in Seq(Events)
      /\ \A e \in Events : Waits(e)' <=> Waits(e) \/ e \in {"error", "disconnected"}
  BY PostTwoWaits DEF TypeOK, Events
<1>2. OneDone'
  BY <1>1, PostTwoOnce DEF OneDone, Events, TypeOK
<1>3. TypeOK'
  <2>1. running' \in BOOLEAN /\ dEmitted' \in BOOLEAN /\ lost' \in BOOLEAN
    BY DEF TypeOK
  <2>2. ser' \in {"none", "open", "closed"}
        /\ thread' \in {"idle", "opening", "loop", "exit", "finishing"}
    BY DEF TypeOK
  <2> QED BY <1>1, <2>1, <2>2 DEF TypeOK
<1>4. LossNoted' /\ Blocked' /\ ResumeWanted' /\ Agrees' /\ ScreenTrue'
  BY DEF LossNoted, Blocked, ResumeWanted, Agrees, ScreenTrue, Live
<1>5. AtRest' /\ EndsItself'
  BY <1>1 DEF AtRest, EndsItself, Quiet, Events
<1> QED BY <1>2, <1>3, <1>4, <1>5

\* LoopStop and ThreadEnd post nothing.
LEMMA LoopStopKeeps == IInv /\ (LoopStop \/ ThreadEnd) /\ Frame => IInv'
<1> SUFFICES ASSUME IInv, LoopStop \/ ThreadEnd, Frame PROVE IInv'
  OBVIOUS
<1> USE DEF IInv, LoopStop, ThreadEnd, Frame, retry, tool, env
<1>1. \A e \in Events : Waits(e)' <=> Waits(e)
  BY SameWaits
<1>2. OneDone'
  BY <1>1 DEF OneDone, Once, Events
<1>3. TypeOK'
  BY DEF TypeOK
<1>4. LossNoted' /\ Blocked' /\ ResumeWanted' /\ Agrees' /\ ScreenTrue'
  BY DEF LossNoted, Blocked, ResumeWanted, Agrees, ScreenTrue, Live
<1>5. AtRest' /\ EndsItself'
  BY <1>1 DEF AtRest, EndsItself, Quiet, Events
<1> QED BY <1>2, <1>3, <1>4, <1>5

LEMMA LoopFailKeeps == IInv /\ LoopFail /\ Frame => IInv'
<1> SUFFICES ASSUME IInv, LoopFail, Frame PROVE IInv'
  OBVIOUS
<1> USE DEF IInv, LoopFail, Frame, retry, tool, env
<1>1. /\ queue' \in Seq(Events)
      /\ \A e \in Events : e # "error" => (Waits(e)' <=> Waits(e))
  BY PostWaits, SameWaits DEF TypeOK, Events
<1>2. OneDone'
  BY <1>1, PostOnce DEF OneDone, Once, Events, TypeOK
<1>3. TypeOK'
  BY <1>1 DEF TypeOK
<1>4. LossNoted' /\ Blocked' /\ ResumeWanted' /\ Agrees' /\ ScreenTrue'
  BY DEF LossNoted, Blocked, ResumeWanted, Agrees, ScreenTrue, Live
<1>5. AtRest' /\ EndsItself'
  BY <1>1 DEF AtRest, EndsItself, Quiet, Events
<1> QED BY <1>2, <1>3, <1>4, <1>5

\* The step the whole argument turns on: the thread announces a loss only when
\* nobody asked it to stop, and closes what it announces.
LEMMA LoopExitKeeps == IInv /\ LoopExit /\ Frame => IInv'
<1> SUFFICES ASSUME IInv, LoopExit, Frame PROVE IInv'
  OBVIOUS
<1> USE DEF IInv, LoopExit, Frame, retry, tool, env
<1>1. /\ queue' \in Seq(Events)
      /\ \A e \in Events : e # "disconnected" => (Waits(e)' <=> Waits(e))
  BY PostWaits, SameWaits DEF TypeOK, Events
<1>2. OneDone'
  BY <1>1, PostOnce DEF OneDone, Once, Events, TypeOK
<1>3. TypeOK'
  <2>1. running' \in BOOLEAN /\ dEmitted' \in BOOLEAN /\ lost' \in BOOLEAN
    BY DEF TypeOK
  <2>2. ser' \in {"none", "open", "closed"}
        /\ thread' \in {"idle", "opening", "loop", "exit", "finishing"}
    BY DEF TypeOK
  <2> QED BY <1>1, <2>1, <2>2 DEF TypeOK
<1>4. LossNoted' /\ Blocked' /\ ResumeWanted' /\ Agrees' /\ ScreenTrue'
  BY DEF LossNoted, Blocked, ResumeWanted, Agrees, ScreenTrue, Live
<1>5. AtRest' /\ EndsItself'
  BY <1>1 DEF AtRest, EndsItself, Quiet, Events
<1> QED BY <1>2, <1>3, <1>4, <1>5
\* One connection's turn of the retry loop, in a tick or in resume(): either the
\* link is left alone, or it is opened from an idle thread and marked as such.
RetryTypes ==
  /\ running' \in BOOLEAN /\ dEmitted' \in BOOLEAN /\ lost' \in BOOLEAN
  /\ ser' \in {"none", "open", "closed"}
  /\ thread' \in {"idle", "opening", "loop", "exit", "finishing"}
  /\ reconnecting' \in BOOLEAN /\ tries' \in 0..2 /\ failed' \in BOOLEAN
  /\ view' \in {"flashing", "waiting", "live"}
  /\ owed' \in Int /\ crossed' \in BOOLEAN
RetryOpensIdle ==
  \/ UNCHANGED <<running, dEmitted, lost, ser, thread, crossed>> /\ reconnecting'
  \/ /\ thread = "idle" /\ running' /\ ~lost'
     /\ crossed' = (crossed \/ Crossed(thread))
     /\ \/ thread' = "loop" /\ ~reconnecting'
        \/ thread' = "opening" /\ ser' = "none" /\ reconnecting'
RetryShows ==
  \/ reconnecting' /\ view' = IF flash' # "none" THEN "flashing" ELSE "waiting"
  \/ ~reconnecting' /\ view' = "live"

LEMMA RetryMoves ==
  ASSUME TypeOK, NEW t \in 0..2, Retry(t)
  PROVE  RetryTypes /\ RetryOpensIdle /\ RetryShows
<1> USE DEF RetryTypes, RetryOpensIdle, RetryShows
<1> USE DEF TypeOK, reader, IsRunning
<1>1. tries' \in 0..2
  BY DEF Retry, NextTry
<1>2. CASE UNCHANGED <<reader, failed, owed, crossed>> /\ reconnecting' = TRUE /\ Refresh
  BY <1>1, <1>2 DEF Refresh, Shown
<1>3. CASE thread = "idle" /\ ConnectSync /\ crossed' = (crossed \/ Crossed(thread))
  <2>1. running' \in BOOLEAN /\ dEmitted' \in BOOLEAN /\ lost' \in BOOLEAN
        /\ reconnecting' \in BOOLEAN /\ failed' \in BOOLEAN
    BY <1>3 DEF ConnectSync, OnConnected
  <2>2. crossed' \in BOOLEAN
    BY <1>3, Zenon
  <2> QED BY <1>1, <1>3, <2>1, <2>2 DEF ConnectSync, OnConnected
<1>4. CASE /\ thread = "idle" /\ ConnectAsync /\ UNCHANGED failed
           /\ reconnecting' = TRUE /\ Refresh
           /\ crossed' = (crossed \/ Crossed(thread))
  <2>1. running' \in BOOLEAN /\ dEmitted' \in BOOLEAN /\ lost' \in BOOLEAN
        /\ reconnecting' \in BOOLEAN /\ failed' \in BOOLEAN
    BY <1>4 DEF ConnectAsync
  <2>2. crossed' \in BOOLEAN
    BY <1>4, Zenon
  <2> QED BY <1>1, <1>4, <2>1, <2>2 DEF ConnectAsync, Refresh, Shown
<1> QED BY <1>2, <1>3, <1>4 DEF Retry

LEMMA TickKeeps == IInv /\ Tick => IInv'
<1> SUFFICES ASSUME IInv, Tick PROVE IInv'
  OBVIOUS
<1> USE DEF IInv, Tick, Prompt, tool, env
<1>1. \A e \in Events : Waits(e)' <=> Waits(e)
  BY SameWaits
<1>2. OneDone'
  BY <1>1 DEF OneDone, Once, Events
<1>3. CASE ~reconnecting
  <2>1. /\ timer' = FALSE /\ UNCHANGED <<reader, reconnecting, tries, failed, view>>
        /\ UNCHANGED <<owed, crossed, queue, gui, flash, resume>>
        /\ UNCHANGED <<auto, present, kind, slowOpen, userOff>>
    BY <1>3, Zenon
  <2> HIDE DEF Tick
  <2>2. TypeOK'
    <3>1. timer' \in BOOLEAN
      BY <2>1
    <3> QED BY <2>1, <3>1 DEF TypeOK, reader
  <2>3. LossNoted' /\ Blocked' /\ ResumeWanted' /\ Agrees' /\ ScreenTrue'
    BY <1>3, <2>1 DEF LossNoted, Blocked, ResumeWanted, Agrees, ScreenTrue, Live, reader
  <2>4. AtRest' /\ EndsItself'
    BY <1>1, <1>3, <2>1 DEF AtRest, EndsItself, Quiet, Events, reader
  <2> QED BY <1>2, <2>2, <2>3, <2>4
<1>4. CASE reconnecting
  <2>1. Retry(tries) /\ timer' = timer /\ timer
    BY <1>4
  <2>2. RetryTypes /\ RetryOpensIdle /\ RetryShows
    <3>1. TypeOK /\ tries \in 0..2
      BY DEF TypeOK
    <3> QED BY <2>1, <3>1, RetryMoves
  <2> HIDE DEF Tick
  <2>3. /\ UNCHANGED <<queue, gui, flash, resume, auto, present, kind, slowOpen, userOff>>
        /\ gui = "loop"
    BY DEF Tick
  <2>4. TypeOK'
    BY <2>1, <2>2, <2>3 DEF TypeOK, RetryTypes
  <2>5. LossNoted' /\ Blocked' /\ ResumeWanted' /\ Agrees'
    BY <2>2, <2>3 DEF LossNoted, Blocked, ResumeWanted, Agrees, Live, RetryOpensIdle
  <2>6. ScreenTrue'
    BY <2>1, <2>2 DEF ScreenTrue, RetryShows
  <2>7. ~crossed' => ~crossed
    BY <2>2 DEF RetryOpensIdle
  <2>8. AtRest'
    BY <1>4, <2>3, <2>7 DEF AtRest, Quiet
  <2>9. EndsItself'
    BY <1>1, <1>4, <2>2, <2>7 DEF EndsItself, Events, RetryOpensIdle
  <2> QED BY <1>2, <2>4, <2>5, <2>6, <2>8, <2>9
<1> QED BY <1>3, <1>4
\* Posted events are handled in the order they came.
LEMMA HandleConnected ==
  ASSUME IInv, HandleEvent, Head(queue) = "connected" PROVE IInv'
<1> USE DEF IInv
<1>1. /\ gui = "loop" /\ queue # <<>> /\ queue' = Tail(queue)
      /\ reconnecting' = FALSE /\ failed' = FALSE /\ view' = "live"
      /\ UNCHANGED <<reader, tries, timer, flash, resume, owed, crossed>>
      /\ UNCHANGED <<gui, auto, present, kind, slowOpen, userOff>>
  BY DEF HandleEvent, OnConnected, tool, env
<1>2. /\ queue' \in Seq(Events) /\ \A e \in Events : Waits(e)' => Waits(e)
      /\ Once' /\ Waits("connected")
  BY <1>1, HandleWaits, HandleOnce DEF TypeOK, OneDone
<1>3. TypeOK'
  <2>1. reconnecting' \in BOOLEAN /\ failed' \in BOOLEAN
    BY <1>1
  <2> QED BY <1>1, <1>2, <2>1 DEF TypeOK, reader
<1>4. OneDone'
  BY <1>1, <1>2 DEF OneDone, Events
<1>5. LossNoted' /\ Blocked' /\ ResumeWanted' /\ Agrees' /\ ScreenTrue' /\ EndsItself'
  BY <1>1 DEF LossNoted, Blocked, ResumeWanted, Agrees, ScreenTrue, EndsItself, Live, reader
<1>6. AtRest'
  BY <1>1, <1>2 DEF AtRest, Quiet, Events, reader
<1> QED BY <1>3, <1>4, <1>5, <1>6

LEMMA HandleError ==
  ASSUME IInv, HandleEvent, Head(queue) = "error" PROVE IInv'
<1> USE DEF IInv
<1>1. /\ gui = "loop" /\ queue # <<>> /\ queue' = Tail(queue) /\ OnError
      /\ UNCHANGED <<reader, reconnecting, tries, timer, flash, resume, owed, crossed>>
      /\ UNCHANGED <<gui, auto, present, kind, slowOpen, userOff>>
  BY DEF HandleEvent, tool, env, retry
<1>2. /\ queue' \in Seq(Events) /\ Once'
      /\ \A e \in Events : Waits(e)' => Waits(e)
      /\ Waits("connected") => Waits("connected")'
  BY <1>1, HandleWaits, HandleOnce DEF TypeOK, OneDone, Events
<1>3. /\ failed' \in BOOLEAN /\ view' \in {"flashing", "waiting", "live", "failed", "idle"}
      /\ reconnecting => UNCHANGED view
      /\ ~reconnecting => view' # "waiting"
  BY <1>1 DEF OnError, Refresh, Shown, TypeOK
<1>4. TypeOK'
  BY <1>1, <1>2, <1>3 DEF TypeOK, reader
<1>5. OneDone'
  BY <1>1, <1>2 DEF OneDone, Events
<1>6. LossNoted' /\ Blocked' /\ ResumeWanted' /\ Agrees' /\ ScreenTrue'
  BY <1>1, <1>3 DEF LossNoted, Blocked, ResumeWanted, Agrees, ScreenTrue, Live, reader
<1>7. AtRest' /\ EndsItself'
  BY <1>1, <1>2 DEF AtRest, EndsItself, Quiet, Events, reader
<1> QED BY <1>4, <1>5, <1>6, <1>7

\* on_disconnected starts a retry loop only for a loss, so never for a close.
LEMMA DisconnectedMoves ==
  ASSUME TypeOK, OnDisconnected
  PROVE  /\ reconnecting' \in BOOLEAN /\ tries' \in 0..2 /\ timer' \in BOOLEAN
         /\ owed' \in Int
         /\ \/ reconnecting /\ UNCHANGED <<reconnecting, timer, view>>
            \/ ~reconnecting /\ lost /\ reconnecting' /\ timer' /\ Refresh
            \/ ~reconnecting /\ UNCHANGED <<reconnecting, timer>> /\ Refresh
<1>1. owed' \in Int
  BY DEF OnDisconnected, TypeOK
<1>2. CASE reconnecting /\ UNCHANGED <<retry, view>>
  BY <1>1, <1>2 DEF TypeOK, retry
<1>3. CASE ~reconnecting /\ lost /\ auto /\ StartReconnect
  <2>1. reconnecting' = TRUE /\ timer' = TRUE /\ tries' = 0 /\ Refresh
    BY <1>3 DEF StartReconnect
  <2>2. reconnecting' \in BOOLEAN /\ timer' \in BOOLEAN /\ tries' \in 0..2
    BY <2>1
  <2>3. ~reconnecting /\ lost /\ reconnecting' /\ timer' /\ Refresh
    BY <1>3, <2>1, Zenon
  <2> QED BY <1>1, <2>2, <2>3
<1>4. CASE ~reconnecting /\ ~(lost /\ auto) /\ UNCHANGED retry /\ Refresh
  BY <1>1, <1>4 DEF TypeOK, retry
<1> QED BY <1>2, <1>3, <1>4 DEF OnDisconnected

LEMMA HandleDisconnected ==
  ASSUME IInv, HandleEvent, Head(queue) = "disconnected" PROVE IInv'
<1> USE DEF IInv
<1>1. /\ gui = "loop" /\ queue # <<>> /\ queue' = Tail(queue) /\ OnDisconnected
      /\ UNCHANGED <<reader, failed, flash, resume, crossed>>
      /\ UNCHANGED <<gui, auto, present, kind, slowOpen, userOff>>
  BY DEF HandleEvent, tool, env
<1>2. /\ queue' \in Seq(Events) /\ Once'
      /\ \A e \in Events : Waits(e)' => Waits(e)
      /\ Waits("connected") => Waits("connected")'
      /\ Waits("disconnected")
  BY <1>1, HandleWaits, HandleOnce DEF TypeOK, OneDone, Events
<1>3. /\ reconnecting' \in BOOLEAN /\ tries' \in 0..2 /\ timer' \in BOOLEAN
      /\ owed' \in Int
      /\ \/ reconnecting /\ UNCHANGED <<reconnecting, timer, view>>
         \/ ~reconnecting /\ lost /\ reconnecting' /\ timer' /\ Refresh
         \/ ~reconnecting /\ UNCHANGED <<reconnecting, timer>> /\ Refresh
  BY <1>1, DisconnectedMoves
<1>4. /\ view' \in {"flashing", "waiting", "live", "failed", "idle"}
      /\ Refresh => (reconnecting' => view' \in {"waiting", "flashing"})
      /\ Refresh => (view' = "waiting" => reconnecting')
  BY <1>3 DEF Refresh, Shown, TypeOK
<1>5. TypeOK'
  BY <1>1, <1>2, <1>3, <1>4 DEF TypeOK, reader
<1>6. OneDone'
  BY <1>1, <1>2 DEF OneDone, Events
<1>7. LossNoted' /\ Blocked' /\ ResumeWanted' /\ Agrees'
  BY <1>1 DEF LossNoted, Blocked, ResumeWanted, Agrees, Live, reader
<1>8. ScreenTrue'
  BY <1>1, <1>3, <1>4 DEF ScreenTrue
<1>9. AtRest' /\ EndsItself'
  BY <1>1, <1>2, <1>3 DEF AtRest, EndsItself, LossNoted, Live, Quiet, Events, reader
<1> QED BY <1>5, <1>6, <1>7, <1>8, <1>9
\* resume() is reached only for a command started over a link the user wanted.
LEMMA HandleFlashDone ==
  ASSUME IInv, HandleEvent, Head(queue) = "flash_done" PROVE IInv'
<1> USE DEF IInv
<1>1. /\ gui = "loop" /\ queue # <<>> /\ queue' = Tail(queue)
      /\ flash' = "none" /\ UNCHANGED <<gui, resume, auto, present, kind, slowOpen, userOff>>
      /\ \/ ~resume /\ UNCHANGED <<reader, retry, failed, owed, crossed>> /\ Refresh
         \/ resume /\ timer' = TRUE /\ Retry(0)
  BY DEF HandleEvent, OnFlashDone, env
<1>2. /\ queue' \in Seq(Events) /\ Once' /\ ~Waits("flash_done")'
      /\ \A e \in Events : Waits(e)' => Waits(e)
      /\ Waits("connected") => Waits("connected")'
      /\ Waits("flash_done")
  BY <1>1, HandleWaits, HandleOnce DEF TypeOK, OneDone, Events
<1>3. flash = "ended" /\ (resume => ~userOff) /\ (~crossed => Quiet)
  BY <1>1, <1>2 DEF OneDone, ResumeWanted, AtRest
<1>4. OneDone' /\ Blocked' /\ ResumeWanted'
  BY <1>1, <1>2 DEF OneDone, Blocked, ResumeWanted
<1>5. CASE ~resume /\ UNCHANGED <<reader, retry, failed, owed, crossed>> /\ Refresh
  <2>1. TypeOK'
    BY <1>1, <1>2, <1>5 DEF TypeOK, reader, retry, Refresh, Shown
  <2>2. LossNoted' /\ Agrees' /\ ScreenTrue'
    BY <1>1, <1>5 DEF LossNoted, Agrees, ScreenTrue, Live, reader, retry, Refresh, Shown
  <2>3. AtRest' /\ EndsItself'
    BY <1>1, <1>2, <1>3, <1>5 DEF AtRest, EndsItself, Quiet, Events, reader, retry
  <2> QED BY <1>4, <2>1, <2>2, <2>3
<1>6. CASE resume /\ timer' = TRUE /\ Retry(0)
  <2>1. RetryTypes /\ RetryOpensIdle /\ RetryShows
    BY <1>6, RetryMoves
  <2>2. TypeOK'
    <3>1. timer' \in BOOLEAN
      BY <1>6
    <3> QED BY <1>1, <1>2, <2>1, <3>1 DEF TypeOK, RetryTypes
  <2>3. LossNoted' /\ Agrees'
    BY <1>1, <2>1 DEF LossNoted, Agrees, Live, RetryOpensIdle
  <2>4. ScreenTrue'
    BY <1>6, <2>1 DEF ScreenTrue, RetryShows
  <2>5. AtRest'
    BY <1>1, <1>3, <1>6 DEF AtRest
  <2>6. EndsItself'
    BY <1>3, <2>1 DEF EndsItself, RetryOpensIdle, Quiet
  <2> QED BY <1>4, <2>2, <2>3, <2>4, <2>5, <2>6
<1> QED BY <1>1, <1>5, <1>6

LEMMA HandleKeeps == IInv /\ HandleEvent => IInv'
<1> SUFFICES ASSUME IInv, HandleEvent PROVE IInv'
  OBVIOUS
<1>1. Head(queue) \in Events
  BY HandleWaits DEF HandleEvent, IInv, TypeOK
<1> QED BY <1>1, HandleConnected, HandleError, HandleDisconnected, HandleFlashDone
        DEF Events
-----------------------------------------------------------------------------
(* The user's calls *)

LEMMA ClickDisconnectKeeps == IInv /\ ClickDisconnect => IInv'
<1> SUFFICES ASSUME IInv, ClickDisconnect PROVE IInv'
  OBVIOUS
<1> USE DEF IInv
<1>1. /\ gui = "loop" /\ flash = "none" /\ ~reconnecting /\ thread # "idle"
      /\ running' = FALSE /\ gui' = "user" /\ userOff' = TRUE
      /\ UNCHANGED <<dEmitted, lost, ser, thread, queue, retry, failed, tool>>
      /\ UNCHANGED <<view, env, owed, crossed>>
  BY DEF ClickDisconnect, Prompt, IsRunning, BeginDisconnect
<1>2. OneDone'
  BY <1>1, SameWaits DEF OneDone, Once, Events, tool
<1>3. TypeOK'
  <2>1. running' \in BOOLEAN /\ userOff' \in BOOLEAN /\ gui' \in Calls
    BY <1>1 DEF Calls
  <2> QED BY <1>1, <2>1 DEF TypeOK, retry, tool, env
<1>4. LossNoted' /\ Blocked' /\ ResumeWanted' /\ ScreenTrue'
  BY <1>1 DEF LossNoted, Blocked, ResumeWanted, ScreenTrue, Live, retry, tool
<1>5. Agrees' /\ AtRest' /\ EndsItself'
  BY <1>1 DEF Agrees, AtRest, EndsItself, retry
<1> QED BY <1>2, <1>3, <1>4, <1>5

LEMMA ClickStopKeeps == IInv /\ ClickStop => IInv'
<1> SUFFICES ASSUME IInv, ClickStop PROVE IInv'
  OBVIOUS
<1> USE DEF IInv
<1>1. /\ gui = "loop" /\ flash = "none" /\ reconnecting
      /\ reconnecting' = FALSE /\ userOff' = TRUE
      /\ UNCHANGED <<dEmitted, lost, ser, thread, queue, tries, timer, failed>>
      /\ UNCHANGED <<flash, resume, auto, present, kind, slowOpen, owed>>
  BY DEF ClickStop, Prompt, tool, env
<1>2. \A e \in Events : Waits(e)' <=> Waits(e)
  BY <1>1, SameWaits
<1>3. OneDone'
  BY <1>1, <1>2 DEF OneDone, Once, Events
<1>4. CASE /\ IsRunning /\ running' = FALSE /\ gui' = "stop"
           /\ UNCHANGED <<view, crossed>>
  <2>1. TypeOK'
    <3>1. /\ running' \in BOOLEAN /\ userOff' \in BOOLEAN /\ gui' \in Calls
          /\ reconnecting' \in BOOLEAN
      BY <1>1, <1>4 DEF Calls
    <3> QED BY <1>1, <1>4, <3>1 DEF TypeOK
  <2>2. LossNoted' /\ Blocked' /\ ResumeWanted' /\ ScreenTrue'
    BY <1>1, <1>4 DEF LossNoted, Blocked, ResumeWanted, ScreenTrue, Live, IsRunning
  <2>3. Agrees' /\ AtRest' /\ EndsItself'
    BY <1>1, <1>4 DEF Agrees, AtRest, EndsItself
  <2> QED BY <1>3, <2>1, <2>2, <2>3
<1>5. CASE /\ ~IsRunning /\ UNCHANGED <<running, gui>> /\ Refresh
           /\ crossed' = (crossed \/ Crossed(thread))
  <2>1. /\ crossed' \in BOOLEAN
        /\ ~crossed' => ~crossed /\ ~Waits("connected") /\ ~Waits("disconnected")
    BY <1>5, Zenon DEF Crossed
  <2>2. TypeOK'
    <3>1. userOff' \in BOOLEAN /\ reconnecting' \in BOOLEAN
      BY <1>1
    <3> QED BY <1>1, <1>5, <2>1, <3>1 DEF TypeOK, Refresh, Shown
  <2>3. LossNoted' /\ Blocked' /\ ResumeWanted' /\ ScreenTrue'
    BY <1>1, <1>5
    DEF LossNoted, Blocked, ResumeWanted, ScreenTrue, Live, IsRunning, Refresh, Shown
  <2>4. Agrees' /\ AtRest' /\ EndsItself'
    BY <1>1, <1>2, <1>5, <2>1
    DEF Agrees, AtRest, EndsItself, Quiet, Live, IsRunning, Events
  <2> QED BY <1>3, <2>2, <2>3, <2>4
<1> QED BY <1>4, <1>5 DEF ClickStop, BeginDisconnect

LEMMA ClickConnectKeeps == IInv /\ ClickConnect => IInv'
<1> SUFFICES ASSUME IInv, ClickConnect PROVE IInv'
  OBVIOUS
<1> USE DEF IInv
<1>1. /\ gui = "loop" /\ flash = "none" /\ ~reconnecting /\ thread = "idle"
      /\ userOff' = FALSE
      /\ UNCHANGED <<queue, gui, tries, timer, flash, resume, auto, present, kind, slowOpen>>
  BY DEF ClickConnect, Prompt, IsRunning, tool, env
<1>2. OneDone'
  BY <1>1, SameWaits DEF OneDone, Once, Events
<1>3. Blocked' /\ ResumeWanted' /\ AtRest'
  BY <1>1 DEF Blocked, ResumeWanted, AtRest
<1>4. CASE ConnectSync /\ crossed' = Crossed(thread)
  <2>1. /\ ser' = "open" /\ dEmitted' = FALSE /\ lost' = FALSE /\ running' = TRUE
        /\ thread' = "loop" /\ owed' = owed + 1
        /\ reconnecting' = FALSE /\ failed' = FALSE /\ view' = "live"
    BY <1>4 DEF ConnectSync, OnConnected
  <2>2. TypeOK'
    <3>1. /\ dEmitted' \in BOOLEAN /\ lost' \in BOOLEAN /\ running' \in BOOLEAN
          /\ reconnecting' \in BOOLEAN /\ failed' \in BOOLEAN /\ userOff' \in BOOLEAN
      BY <1>1, <2>1
    <3>2. crossed' \in BOOLEAN
      BY <1>4, Zenon DEF Crossed
    <3> QED BY <1>1, <2>1, <3>1, <3>2 DEF TypeOK
  <2>3. LossNoted' /\ Agrees' /\ ScreenTrue' /\ EndsItself'
    BY <1>1, <2>1 DEF LossNoted, Agrees, ScreenTrue, EndsItself, Live
  <2> QED BY <1>2, <1>3, <2>2, <2>3
<1>5. CASE UNCHANGED <<reader, reconnecting, failed, view, owed, crossed>>
  <2>1. TypeOK'
    <3>1. userOff' \in BOOLEAN
      BY <1>1
    <3> QED BY <1>1, <1>5, <3>1 DEF TypeOK, reader
  <2>2. LossNoted' /\ Agrees' /\ ScreenTrue' /\ EndsItself'
    BY <1>1, <1>5 DEF LossNoted, Agrees, ScreenTrue, EndsItself, Live, reader
  <2> QED BY <1>2, <1>3, <2>1, <2>2
<1>6. CASE ConnectAsync /\ crossed' = Crossed(thread) /\ UNCHANGED <<reconnecting, failed, view>>
  <2>1. /\ ser' = "none" /\ dEmitted' = FALSE /\ lost' = FALSE /\ running' = TRUE
        /\ thread' = "opening" /\ owed' = owed + 1
    BY <1>6 DEF ConnectAsync
  <2>2. TypeOK'
    <3>1. /\ dEmitted' \in BOOLEAN /\ lost' \in BOOLEAN /\ running' \in BOOLEAN
          /\ userOff' \in BOOLEAN
      BY <1>1, <2>1
    <3>2. crossed' \in BOOLEAN
      BY <1>6, Zenon DEF Crossed
    <3> QED BY <1>1, <1>6, <2>1, <3>1, <3>2 DEF TypeOK
  <2>3. LossNoted' /\ Agrees' /\ ScreenTrue' /\ EndsItself'
    BY <1>1, <1>6, <2>1 DEF LossNoted, Agrees, ScreenTrue, EndsItself, Live
  <2> QED BY <1>2, <1>3, <2>2, <2>3
<1> QED BY <1>4, <1>5, <1>6 DEF ClickConnect
LEMMA ClickFlashKeeps == IInv /\ ClickFlash => IInv'
<1> SUFFICES ASSUME IInv, ClickFlash PROVE IInv'
  OBVIOUS
<1> USE DEF IInv
<1>1. /\ gui = "loop" /\ flash = "none"
      /\ UNCHANGED <<dEmitted, lost, ser, thread, queue, tries, timer, failed>>
      /\ UNCHANGED <<auto, present, kind, slowOpen, owed>>
      /\ resume' = (IsRunning \/ reconnecting)
      /\ userOff' = (userOff /\ ~resume')
      /\ reconnecting' = FALSE
  BY DEF ClickFlash, Prompt, env
<1>2. \A e \in Events : Waits(e)' <=> Waits(e)
  BY <1>1, SameWaits
<1>3. Once' /\ ~Waits("flash_done")'
  BY <1>1, <1>2 DEF OneDone, Once, Events
<1>4. resume' \in BOOLEAN /\ userOff' \in BOOLEAN /\ (resume' => ~userOff')
  BY <1>1, Zenon DEF IsRunning
<1>5. reconnecting' \in BOOLEAN /\ ~reconnecting'
  BY <1>1
<1>6. CASE /\ IsRunning /\ running' = FALSE /\ gui' \in {"flash_stop", "flash"}
           /\ UNCHANGED <<flash, view, crossed>>
  <2>1. TypeOK'
    <3>1. running' \in BOOLEAN /\ gui' \in Calls
      BY <1>6 DEF Calls
    <3> QED BY <1>1, <1>4, <1>5, <1>6, <3>1 DEF TypeOK
  <2>2. OneDone' /\ Blocked' /\ ResumeWanted'
    BY <1>1, <1>3, <1>4, <1>5, <1>6 DEF OneDone, Blocked, ResumeWanted
  <2>3. LossNoted' /\ ScreenTrue' /\ Agrees' /\ AtRest' /\ EndsItself'
    BY <1>1, <1>5, <1>6
    DEF LossNoted, ScreenTrue, Agrees, AtRest, EndsItself, Live, IsRunning
  <2> QED BY <2>1, <2>2, <2>3
<1>7. CASE ~IsRunning /\ LaunchTool /\ UNCHANGED running /\ crossed' = (crossed \/ Crossed(thread))
  <2>1. flash' = "running" /\ gui' = "loop" /\ view' = "flashing" /\ thread = "idle"
    BY <1>7 DEF LaunchTool, Refresh, Shown, IsRunning
  <2>2. /\ crossed' \in BOOLEAN
        /\ ~crossed' => ~crossed /\ ~Waits("connected") /\ ~Waits("disconnected")
    BY <1>7, Zenon DEF Crossed
  <2>3. TypeOK'
    BY <1>1, <1>4, <1>5, <1>7, <2>1, <2>2 DEF TypeOK
  <2>4. OneDone' /\ Blocked' /\ ResumeWanted'
    BY <1>1, <1>3, <1>4, <1>5, <2>1 DEF OneDone, Blocked, ResumeWanted
  <2>5. LossNoted' /\ ScreenTrue' /\ Agrees' /\ EndsItself'
    BY <1>1, <1>5, <1>7, <2>1, <2>2 DEF LossNoted, ScreenTrue, Agrees, EndsItself, Live
  <2>6. AtRest'
    BY <1>1, <1>2, <1>5, <2>1, <2>2 DEF AtRest, Agrees, Quiet, Live, Events
  <2> QED BY <2>3, <2>4, <2>5, <2>6
<1> QED BY <1>6, <1>7 DEF ClickFlash, BeginDisconnect

\* The return of disconnect_port(): what it closes stays closed, because a call
\* that still has to announce the end finds no loss to retry.
LEMMA EndDisconnectKeeps == IInv /\ EndDisconnect => IInv'
<1> SUFFICES ASSUME IInv, EndDisconnect PROVE IInv'
  OBVIOUS
<1> USE DEF IInv
<1>1. /\ gui \in Calls /\ gui # "loop" /\ thread \in {"idle", "opening"}
      /\ UNCHANGED <<lost, thread, queue, failed, resume, auto, present, kind, slowOpen, userOff>>
      /\ CloseLink /\ dEmitted' = FALSE
      /\ crossed' = (crossed \/ Crossed(thread))
      /\ ~dEmitted => OnDisconnected
      /\ dEmitted => UNCHANGED <<reconnecting, tries, timer, owed>>
      /\ ~(dEmitted /\ gui = "user") => Refresh
      /\ dEmitted /\ gui = "user" => UNCHANGED view
  BY DEF EndDisconnect, Calls, env, retry
<1>2. \/ gui \in {"user", "stop"} /\ gui' = "loop" /\ UNCHANGED <<running, flash>>
      \/ /\ gui = "flash_stop" /\ thread = "opening" /\ running' = FALSE
         /\ gui' = "flash" /\ UNCHANGED flash
      \/ gui \in {"flash", "flash_stop"} /\ flash' = "running" /\ gui' = "loop" /\ UNCHANGED running
  BY <1>1 DEF EndDisconnect, IsRunning, BeginDisconnect
<1>3. ~reconnecting /\ flash = "none" /\ (lost => dEmitted)
  BY <1>1 DEF Blocked, LossNoted
<1>4. /\ reconnecting' \in BOOLEAN /\ ~reconnecting'
      /\ timer' \in BOOLEAN /\ tries' \in 0..2 /\ owed' \in Int
  <2>1. CASE dEmitted
    BY <1>1, <1>3, <2>1 DEF TypeOK
  <2>2. CASE ~dEmitted
    BY <1>1, <1>3, <2>2, DisconnectedMoves
  <2> QED BY <2>1, <2>2
<1>5. /\ view' \in {"flashing", "waiting", "live", "failed", "idle"}
      /\ gui' \in {"loop", "user"} => view' # "waiting"
  <2>1. CASE dEmitted /\ gui = "user"
    BY <1>1, <1>3, <2>1 DEF TypeOK, ScreenTrue
  <2>2. CASE ~(dEmitted /\ gui = "user")
    BY <1>1, <1>4, <2>2 DEF Refresh, Shown
  <2> QED BY <2>1, <2>2
<1>6. ser' # "open" /\ ser' \in {"none", "open", "closed"}
  BY <1>1 DEF CloseLink, TypeOK
<1>7. /\ crossed' \in BOOLEAN
      /\ ~crossed' => /\ ~crossed /\ thread = "idle"
                      /\ ~Waits("connected") /\ ~Waits("disconnected")
  BY <1>1, Zenon DEF Crossed
<1>8. \A e \in Events : Waits(e)' <=> Waits(e)
  BY <1>1, SameWaits
<1>9. TypeOK'
  <2>1. dEmitted' \in BOOLEAN /\ running' \in BOOLEAN
    BY <1>1, <1>2 DEF TypeOK
  <2> QED BY <1>1, <1>2, <1>3, <1>4, <1>5, <1>6, <1>7, <2>1 DEF TypeOK, Calls
<1>10. OneDone' /\ Blocked' /\ ResumeWanted'
  BY <1>1, <1>2, <1>3, <1>4, <1>8 DEF OneDone, Once, Blocked, ResumeWanted, Events
<1>11. LossNoted' /\ ScreenTrue'
  BY <1>1, <1>2, <1>4, <1>5, <1>6 DEF LossNoted, ScreenTrue, Live
<1>12. Agrees' /\ AtRest' /\ EndsItself'
  BY <1>1, <1>4, <1>6, <1>7, <1>8 DEF Agrees, AtRest, EndsItself, Quiet, Live, Events
<1> QED BY <1>9, <1>10, <1>11, <1>12

LEMMA WorldKeeps == IInv /\ (ToggleAuto \/ PlugOrUnplug \/ UNCHANGED vars) => IInv'
<1> SUFFICES ASSUME IInv, ToggleAuto \/ PlugOrUnplug \/ UNCHANGED vars PROVE IInv'
  OBVIOUS
<1> USE DEF IInv
<1>1. /\ UNCHANGED <<reader, queue, gui, retry, failed, tool, view, userOff, owed, crossed>>
      /\ auto' \in BOOLEAN /\ present' \in BOOLEAN
      /\ UNCHANGED <<kind, slowOpen>>
  BY DEF ToggleAuto, PlugOrUnplug, vars, env, TypeOK
<1>2. TypeOK'
  BY <1>1 DEF TypeOK, reader, retry, tool
<1>3. OneDone' /\ Blocked' /\ ResumeWanted' /\ LossNoted' /\ ScreenTrue'
  BY <1>1, SameWaits
  DEF OneDone, Once, Blocked, ResumeWanted, LossNoted, ScreenTrue, Live, Events,
      reader, retry, tool
<1>4. Agrees' /\ AtRest' /\ EndsItself'
  BY <1>1, SameWaits DEF Agrees, AtRest, EndsItself, Quiet, Live, Events, reader, retry, tool
<1> QED BY <1>2, <1>3, <1>4

LEMMA ToolEndKeeps == IInv /\ ToolEnd => IInv'
<1> SUFFICES ASSUME IInv, ToolEnd PROVE IInv'
  OBVIOUS
<1> USE DEF IInv
<1>1. /\ flash = "running" /\ flash' = "ended" /\ Post("flash_done")
      /\ UNCHANGED <<reader, gui, retry, failed, resume, view, env>>
      /\ UNCHANGED <<userOff, owed, crossed>>
  BY DEF ToolEnd
<1>2. /\ queue' \in Seq(Events)
      /\ \A e \in Events : Waits(e)' <=> Waits(e) \/ e = "flash_done"
  BY <1>1, PostWaits DEF TypeOK, Events
<1>3. OneDone'
  BY <1>1, PostOnce DEF OneDone, Events, TypeOK
<1>4. TypeOK'
  BY <1>1, <1>2 DEF TypeOK, reader, retry, env
<1>5. Blocked' /\ ResumeWanted' /\ LossNoted' /\ ScreenTrue'
  BY <1>1 DEF Blocked, ResumeWanted, LossNoted, ScreenTrue, Live, reader, retry
<1>6. Agrees' /\ AtRest' /\ EndsItself'
  BY <1>1, <1>2 DEF Agrees, AtRest, EndsItself, Quiet, Live, Events, reader, retry
<1> QED BY <1>3, <1>4, <1>5, <1>6
-----------------------------------------------------------------------------
(* The account of the sessions *)

\* How posting and handling change the number of announcements that wait.
LEMMA AnnouncedPost ==
  ASSUME queue \in Seq(Events), NEW f \in Events, Post(f)
  PROVE  /\ Cardinality(Announced) \in Nat
         /\ Cardinality(Announced)' = Cardinality(Announced)
                                        + (IF f = "disconnected" THEN 1 ELSE 0)
<1>1. /\ Len(queue') = Len(queue) + 1 /\ Len(queue) \in Nat
      /\ queue'[Len(queue) + 1] = f
      /\ \A i \in 1..Len(queue) : queue'[i] = queue[i]
  BY DEF Post
<1>2. IsFiniteSet(Announced) /\ Len(queue) + 1 \notin Announced
  <2>1. Announced \subseteq 1..Len(queue) /\ IsFiniteSet(1..Len(queue))
    BY <1>1, FS_Interval DEF Announced
  <2>2. Len(queue) + 1 \notin 1..Len(queue)
    BY <1>1
  <2> QED BY <2>1, <2>2, FS_Subset
<1>3. Announced' = IF f = "disconnected" THEN Announced \cup {Len(queue) + 1} ELSE Announced
  <2>1. \A i : i \in 1..Len(queue') <=> i \in 1..Len(queue) \/ i = Len(queue) + 1
    BY <1>1
  <2> QED BY <1>1, <2>1 DEF Announced
<1>4. Cardinality(Announced) \in Nat
  BY <1>2, FS_CardinalityType
<1>5. Cardinality(Announced \cup {Len(queue) + 1}) = Cardinality(Announced) + 1
  BY <1>2, FS_AddElement
<1> QED BY <1>3, <1>4, <1>5

LEMMA AnnouncedPostTwo ==
  ASSUME queue \in Seq(Events), queue' = queue \o <<"error", "disconnected">>
  PROVE  /\ Cardinality(Announced) \in Nat
         /\ Cardinality(Announced)' = Cardinality(Announced) + 1
<1>1. /\ Len(queue') = Len(queue) + 2 /\ Len(queue) \in Nat
      /\ queue'[Len(queue) + 1] = "error" /\ queue'[Len(queue) + 2] = "disconnected"
      /\ \A i \in 1..Len(queue) : queue'[i] = queue[i]
  OBVIOUS
<1>2. IsFiniteSet(Announced) /\ Len(queue) + 2 \notin Announced
  <2>1. Announced \subseteq 1..Len(queue) /\ IsFiniteSet(1..Len(queue))
    BY <1>1, FS_Interval DEF Announced
  <2>2. Len(queue) + 2 \notin 1..Len(queue)
    BY <1>1
  <2> QED BY <2>1, <2>2, FS_Subset
<1>3. Announced' = Announced \cup {Len(queue) + 2}
  <2>1. \A i : i \in 1..Len(queue') <=> \/ i \in 1..Len(queue)
                                        \/ i = Len(queue) + 1 \/ i = Len(queue) + 2
    BY <1>1
  <2> QED BY <1>1, <2>1 DEF Announced
<1>4. Cardinality(Announced) \in Nat
  BY <1>2, FS_CardinalityType
<1>5. Cardinality(Announced \cup {Len(queue) + 2}) = Cardinality(Announced) + 1
  BY <1>2, FS_AddElement
<1> QED BY <1>3, <1>4, <1>5

LEMMA AnnouncedHandled ==
  ASSUME queue \in Seq(Events), queue # <<>>, queue' = Tail(queue)
  PROVE  /\ Cardinality(Announced) \in Nat /\ Cardinality(Announced)' \in Nat
         /\ Cardinality(Announced)' = Cardinality(Announced)
                                        - (IF Head(queue) = "disconnected" THEN 1 ELSE 0)
<1> DEFINE Later == Announced \ {1}
           shift == [i \in Later |-> i - 1]
<1>1. /\ Len(queue) \in Nat \ {0} /\ Len(queue') = Len(queue) - 1
      /\ Head(queue) = queue[1] /\ \A i \in 1..Len(queue') : queue'[i] = queue[i + 1]
  OBVIOUS
<1>2. IsFiniteSet(Announced) /\ (1 \in Announced <=> Head(queue) = "disconnected")
  <2>1. Announced \subseteq 1..Len(queue) /\ IsFiniteSet(1..Len(queue))
    BY <1>1, FS_Interval DEF Announced
  <2>2. 1 \in 1..Len(queue)
    BY <1>1
  <2>3. 1 \in Announced <=> Head(queue) = "disconnected"
    BY <1>1, <2>2 DEF Announced
  <2> QED BY <2>1, <2>3, FS_Subset
<1>3. /\ IsFiniteSet(Later) /\ Cardinality(Announced) \in Nat
      /\ Cardinality(Later) = Cardinality(Announced)
                                - (IF Head(queue) = "disconnected" THEN 1 ELSE 0)
  <2>1. Cardinality(Announced) \in Nat
    BY <1>2, FS_CardinalityType
  <2>2. /\ IsFiniteSet(Later)
        /\ Cardinality(Later) = IF 1 \in Announced THEN Cardinality(Announced) - 1
                                ELSE Cardinality(Announced)
    BY <1>2, FS_RemoveElement
  <2> QED BY <1>2, <2>1, <2>2
<1>4. ExistsBijection(Later, Announced')
  <2>1. \A i \in Later : i \in Nat /\ i > 1 /\ i - 1 \in Announced'
    BY <1>1 DEF Announced
  <2>2. \A j \in Announced' : j + 1 \in Later /\ shift[j + 1] = j
    BY <1>1 DEF Announced
  <2>3. \A i, j \in Later : shift[i] = shift[j] => i = j
    BY <2>1
  <2>4. shift \in [Later -> Announced']
    BY <2>1
  <2>5. shift \in Bijection(Later, Announced')
    <3> HIDE DEF shift, Later
    <3>1. IsInjective(shift)
      BY <2>3, <2>4 DEF IsInjective
    <3>2. shift \in Surjection(Later, Announced')
      BY <2>2, <2>4 DEF Surjection
    <3> QED BY <2>3, <2>4, <3>1, <3>2 DEF Bijection, Injection
  <2> QED BY <2>5 DEF ExistsBijection
<1>5. Cardinality(Announced') = Cardinality(Later)
  BY <1>3, <1>4, FS_Bijection
<1>6. Cardinality(Announced') \in Nat
  BY <1>3, <1>4, <1>5, FS_Bijection, FS_CardinalityType
<1> QED BY <1>3, <1>5, <1>6

LEMMA AnnouncedSame ==
  ASSUME queue \in Seq(Events)
  PROVE  /\ Cardinality(Announced) \in Nat
         /\ UNCHANGED queue => Cardinality(Announced)' = Cardinality(Announced)
<1>1. Announced \subseteq 1..Len(queue) /\ IsFiniteSet(1..Len(queue))
  BY FS_Interval DEF Announced
<1>2. Cardinality(Announced) \in Nat
  BY <1>1, FS_Subset, FS_CardinalityType
<1> QED BY <1>2 DEF Announced

LEMMA SlowOpenFixed == [Next]_vars => UNCHANGED slowOpen
<1>1. ReaderStep \/ HandleEvent \/ ToolEnd \/ PlugOrUnplug => UNCHANGED slowOpen
  BY DEF ReaderStep, HandleEvent, ToolEnd, PlugOrUnplug, env
<1>2. Tick => UNCHANGED slowOpen
  BY Zenon DEF Tick, env
<1>3. EndDisconnect => UNCHANGED slowOpen
  BY Zenon DEF EndDisconnect, env
<1>4. User => UNCHANGED slowOpen
  BY Zenon DEF User, ClickDisconnect, ClickStop, ClickConnect, ClickFlash, ToggleAuto, env
<1>5. UNCHANGED vars => UNCHANGED slowOpen
  BY DEF vars, env
<1> QED BY <1>1, <1>2, <1>3, <1>4, <1>5 DEF Next

\* A thread announces the end of its session only when nobody asked it to stop.
LEMMA AccountReader == IInv /\ Account /\ ReaderStep => Account'
<1> SUFFICES ASSUME IInv, Account, ReaderStep, ~slowOpen PROVE Flags' /\ Balance'
  BY SlowOpenFixed DEF Account, Next
<1>1. queue \in Seq(Events) /\ TypeOK /\ Flags /\ Balance
  BY DEF IInv, TypeOK, Account
<1>2. UNCHANGED <<gui, owed>>
  BY DEF ReaderStep
<1> USE DEF Flags, Balance, Pending, Live
<1>3. CASE OpenOk
  <2>1. /\ UNCHANGED <<running, dEmitted>> /\ thread = "opening" /\ thread' = "loop"
        /\ Post("connected")
    BY <1>3 DEF OpenOk
  <2>2. Cardinality(Announced)' = Cardinality(Announced)
    BY <1>1, <2>1, AnnouncedPost DEF Events
  <2> QED BY <1>1, <1>2, <2>1, <2>2
<1>4. CASE OpenFail
  <2>1. /\ ~running' /\ dEmitted' /\ thread = "opening" /\ thread' = "finishing"
        /\ queue' = queue \o <<"error", "disconnected">>
    BY <1>4 DEF OpenFail
  <2>2. Cardinality(Announced) \in Nat
        /\ Cardinality(Announced)' = Cardinality(Announced) + 1
    BY <1>1, <2>1, AnnouncedPostTwo
  <2>3. Pending
    BY <1>1, <2>1
  <2> QED BY <1>1, <1>2, <2>1, <2>2, <2>3
<1>5. CASE LoopStop \/ ThreadEnd
  <2>1. UNCHANGED <<running, dEmitted, queue>>
    BY <1>5 DEF LoopStop, ThreadEnd
  <2>2. \/ thread = "loop" /\ ~running /\ thread' = "exit"
        \/ thread = "finishing" /\ thread' = "idle"
    BY <1>5 DEF LoopStop, ThreadEnd
  <2>3. Cardinality(Announced)' = Cardinality(Announced)
    BY <1>1, <2>1, AnnouncedSame
  <2> QED BY <1>1, <1>2, <2>1, <2>2, <2>3
<1>6. CASE LoopFail
  <2>1. /\ UNCHANGED <<running, dEmitted>> /\ thread = "loop" /\ thread' = "exit"
        /\ (UNCHANGED queue \/ Post("error"))
    BY <1>6 DEF LoopFail
  <2>2. Cardinality(Announced)' = Cardinality(Announced)
    BY <1>1, <2>1, AnnouncedSame, AnnouncedPost DEF Events
  <2> QED BY <1>1, <1>2, <2>1, <2>2
<1>7. CASE LoopExit
  <2>1. thread = "exit" /\ thread' = "finishing"
    BY <1>7 DEF LoopExit
  <2>2. CASE running
    <3>1. ~running' /\ dEmitted' /\ Post("disconnected")
      BY <1>7, <2>2 DEF LoopExit
    <3>2. Cardinality(Announced) \in Nat
          /\ Cardinality(Announced)' = Cardinality(Announced) + 1
      BY <1>1, <3>1, AnnouncedPost DEF Events
    <3>3. Pending
      BY <1>1, <2>2
    <3> QED BY <1>1, <1>2, <2>1, <3>1, <3>2, <3>3
  <2>3. CASE ~running
    <3>1. UNCHANGED <<running, dEmitted, queue>>
      BY <1>7, <2>3 DEF LoopExit
    <3>2. Cardinality(Announced)' = Cardinality(Announced)
      BY <1>1, <3>1, AnnouncedSame
    <3> QED BY <1>1, <1>2, <2>1, <2>3, <3>1, <3>2
  <2> QED BY <2>2, <2>3
<1> QED BY <1>3, <1>4, <1>5, <1>6, <1>7 DEF ReaderStep

\* A session is opened only when the thread of the last one has ended.
LEMMA OpensPending ==
  ASSUME TypeOK, Flags, Balance, thread = "idle", gui = "loop",
         UNCHANGED <<gui, queue>>,
         dEmitted' = FALSE, running' = TRUE, thread' \in {"loop", "opening"},
         owed' = owed + 1
  PROVE  Flags' /\ Balance'
<1>1. Cardinality(Announced) \in Nat /\ Cardinality(Announced)' = Cardinality(Announced)
  BY AnnouncedSame DEF TypeOK
<1> QED BY <1>1 DEF Flags, Balance, Pending, Live

\* What touches neither the link nor the calls leaves the account alone.
LEMMA AccountFrame ==
  ASSUME IInv, Flags, Balance,
         UNCHANGED <<running, dEmitted, thread, gui, owed>>,
         \/ UNCHANGED queue
         \/ Post("flash_done")
         \/ queue # <<>> /\ queue' = Tail(queue) /\ Head(queue) # "disconnected"
  PROVE  Flags' /\ Balance'
<1>1. queue \in Seq(Events)
  BY DEF IInv, TypeOK
<1>2. Cardinality(Announced)' = Cardinality(Announced)
  BY <1>1, AnnouncedSame, AnnouncedPost, AnnouncedHandled DEF Events
<1> QED BY <1>2 DEF Flags, Balance, Pending, Live

\* One turn of the retry loop opens nothing, or a session of its own.
LEMMA AccountRetry ==
  ASSUME IInv, Flags, Balance, gui = "loop", UNCHANGED gui, NEW t \in 0..2, Retry(t),
         UNCHANGED queue \/ (queue # <<>> /\ queue' = Tail(queue) /\ Head(queue) = "flash_done")
  PROVE  Flags' /\ Balance'
<1>1. CASE UNCHANGED <<reader, owed>>
  BY <1>1, AccountFrame DEF reader
<1>2. CASE /\ thread = "idle" /\ dEmitted' = FALSE /\ running' = TRUE
           /\ thread' \in {"loop", "opening"} /\ owed' = owed + 1
  <2>1. queue \in Seq(Events)
    BY DEF IInv, TypeOK
  <2>2. /\ Cardinality(Announced) \in Nat
        /\ Cardinality(Announced)' = Cardinality(Announced)
    BY <2>1, AnnouncedSame, AnnouncedHandled DEF Events
  <2> QED BY <1>2, <2>2 DEF Flags, Balance, Pending, Live
<1>3. \/ UNCHANGED <<reader, owed>>
      \/ /\ thread = "idle" /\ dEmitted' = FALSE /\ running' = TRUE
         /\ thread' \in {"loop", "opening"} /\ owed' = owed + 1
  BY DEF Retry, ConnectSync, ConnectAsync, IsRunning
<1> QED BY <1>1, <1>2, <1>3

LEMMA AccountTick == IInv /\ Account /\ Tick => Account'
<1> SUFFICES ASSUME IInv, Account, Tick, ~slowOpen PROVE Flags' /\ Balance'
  BY SlowOpenFixed DEF Account, Next
<1>1. /\ TypeOK /\ Flags /\ Balance /\ gui = "loop" /\ UNCHANGED <<gui, queue>>
      /\ tries \in 0..2
  BY DEF IInv, TypeOK, Account, Tick, Prompt
<1>2. CASE ~reconnecting
  BY <1>1, <1>2, AccountFrame DEF Tick, reader
<1>3. CASE reconnecting
  BY <1>1, <1>3, AccountRetry DEF Tick
<1> QED BY <1>2, <1>3

\* The call of on_disconnected that is owed takes one from the account.
LEMMA AnnouncedTaken ==
  ASSUME OnDisconnected, owed \in Nat \ {0}
  PROVE  owed' = owed - 1
BY DEF OnDisconnected

LEMMA AccountHandle == IInv /\ Account /\ HandleEvent => Account'
<1> SUFFICES ASSUME IInv, Account, HandleEvent, ~slowOpen PROVE Flags' /\ Balance'
  BY SlowOpenFixed DEF Account, Next
<1>1. /\ TypeOK /\ Flags /\ Balance /\ gui = "loop" /\ UNCHANGED gui
      /\ queue # <<>> /\ queue' = Tail(queue) /\ queue \in Seq(Events)
  BY DEF IInv, TypeOK, Account, HandleEvent
<1>2. CASE Head(queue) \in {"connected", "error"}
  BY <1>1, <1>2, AccountFrame DEF HandleEvent, reader
<1>3. CASE Head(queue) = "disconnected"
  <2>1. OnDisconnected /\ UNCHANGED <<running, dEmitted, thread>>
    BY <1>3 DEF HandleEvent, reader
  <2>2. /\ Cardinality(Announced) \in Nat /\ Cardinality(Announced)' \in Nat
        /\ Cardinality(Announced)' = Cardinality(Announced) - 1
    BY <1>1, <1>3, AnnouncedHandled
  <2>3. owed \in Nat \ {0}
    BY <1>1, <2>2 DEF Balance
  <2>4. owed' = owed - 1
    BY <2>1, <2>3, AnnouncedTaken
  <2>5. Pending' <=> Pending
    BY <1>1, <2>1 DEF Pending
  <2>6. Balance'
    BY <1>1, <2>2, <2>3, <2>4, <2>5 DEF Balance
  <2>7. Flags'
    BY <1>1, <2>1 DEF Flags, Live
  <2> QED BY <2>6, <2>7
<1>4. CASE Head(queue) = "flash_done"
  <2>1. OnFlashDone
    BY <1>4 DEF HandleEvent
  <2>2. CASE ~resume
    <3>1. UNCHANGED <<running, dEmitted, thread, owed>>
      BY <2>1, <2>2 DEF OnFlashDone, reader
    <3> QED BY <1>1, <1>4, <3>1, AccountFrame
  <2>3. CASE resume
    <3>1. Retry(0)
      BY <2>1, <2>3 DEF OnFlashDone
    <3> QED BY <1>1, <1>4, <3>1, AccountRetry
  <2> QED BY <2>2, <2>3
<1>5. Head(queue) \in Events
  BY <1>1, HandleWaits
<1> QED BY <1>2, <1>3, <1>4, <1>5 DEF Events

\* disconnect_port() announces the end that its thread left to it, and only that.
LEMMA AccountEnd == IInv /\ Account /\ EndDisconnect => Account'
<1> SUFFICES ASSUME IInv, Account, EndDisconnect, ~slowOpen PROVE Flags' /\ Balance'
  BY SlowOpenFixed DEF Account, Next
<1>1. /\ TypeOK /\ Flags /\ Balance /\ gui # "loop" /\ thread = "idle"
      /\ UNCHANGED <<thread, queue>> /\ dEmitted' = FALSE
      /\ queue \in Seq(Events)
  BY DEF IInv, TypeOK, Account, EndDisconnect, Calls
<1>2. gui' = "loop" /\ UNCHANGED running
  BY <1>1 DEF EndDisconnect, IsRunning, Calls
<1>3. /\ Cardinality(Announced) \in Nat
      /\ Cardinality(Announced)' = Cardinality(Announced)
  BY <1>1, AnnouncedSame
<1>4. ~running /\ ~Pending' /\ (Pending <=> ~dEmitted)
  BY <1>1, <1>2 DEF Flags, Pending, Live
<1>5. Flags'
  BY <1>1, <1>2, <1>4 DEF Flags, Live
<1>6. CASE dEmitted
  <2>1. UNCHANGED owed
    BY <1>6 DEF EndDisconnect
  <2> QED BY <1>1, <1>3, <1>4, <1>5, <1>6, <2>1 DEF Balance
<1>7. CASE ~dEmitted
  <2>1. owed \in Nat \ {0}
    BY <1>1, <1>3, <1>4, <1>7 DEF Balance
  <2>2. owed' = owed - 1
    BY <1>7, <2>1, AnnouncedTaken DEF EndDisconnect
  <2> QED BY <1>1, <1>3, <1>4, <1>5, <1>7, <2>1, <2>2 DEF Balance
<1> QED BY <1>6, <1>7

\* A click asks the thread to stop, or opens a session when there is none.
LEMMA AccountUser == IInv /\ Account /\ User => Account'
<1> SUFFICES ASSUME IInv, Account, User, ~slowOpen PROVE Flags' /\ Balance'
  BY SlowOpenFixed DEF Account, Next
<1>1. /\ TypeOK /\ Flags /\ Balance /\ gui = "loop" /\ UNCHANGED queue
  BY DEF IInv, Account, User, ClickDisconnect, ClickStop, ClickConnect, ClickFlash,
         ToggleAuto, Prompt
<1>2. /\ Cardinality(Announced) \in Nat
      /\ Cardinality(Announced)' = Cardinality(Announced)
  BY <1>1, AnnouncedSame DEF TypeOK
<1>3. CASE /\ thread # "idle" /\ running' = FALSE /\ gui' # "loop"
           /\ UNCHANGED <<dEmitted, thread, owed>>
  <2>1. Pending' <=> Pending
    BY <1>1, <1>3 DEF Flags, Pending, Live, TypeOK
  <2>2. Flags'
    BY <1>1, <1>3 DEF Flags, Live
  <2> QED BY <1>1, <1>2, <1>3, <2>1, <2>2 DEF Balance
<1>4. CASE UNCHANGED <<running, dEmitted, thread, gui, owed>>
  BY <1>1, <1>4, AccountFrame
<1>5. CASE /\ thread = "idle" /\ UNCHANGED gui /\ dEmitted' = FALSE /\ running' = TRUE
           /\ thread' \in {"loop", "opening"} /\ owed' = owed + 1
  BY <1>1, <1>5, OpensPending
<1>6. ClickDisconnect \/ ClickStop \/ ClickFlash \/ ToggleAuto
        => \/ /\ thread # "idle" /\ running' = FALSE /\ gui' # "loop"
              /\ UNCHANGED <<dEmitted, thread, owed>>
           \/ UNCHANGED <<running, dEmitted, thread, gui, owed>>
  BY <1>1 DEF ClickDisconnect, ClickStop, ClickFlash, ToggleAuto, BeginDisconnect,
              LaunchTool, IsRunning, reader
<1>7. ClickConnect
        => \/ /\ thread = "idle" /\ UNCHANGED gui /\ dEmitted' = FALSE /\ running' = TRUE
              /\ thread' \in {"loop", "opening"} /\ owed' = owed + 1
           \/ UNCHANGED <<running, dEmitted, thread, gui, owed>>
  BY DEF ClickConnect, ConnectSync, ConnectAsync, IsRunning, reader
<1> QED BY <1>3, <1>4, <1>5, <1>6, <1>7 DEF User

LEMMA AccountWorld ==
  IInv /\ Account /\ (ToolEnd \/ PlugOrUnplug \/ UNCHANGED vars) => Account'
<1> SUFFICES ASSUME IInv, Account, ToolEnd \/ PlugOrUnplug \/ UNCHANGED vars, ~slowOpen
             PROVE  Flags' /\ Balance'
  BY SlowOpenFixed DEF Account, Next
<1>1. /\ Flags /\ Balance /\ UNCHANGED <<running, dEmitted, thread, gui, owed>>
      /\ UNCHANGED queue \/ Post("flash_done")
  BY DEF Account, ToolEnd, PlugOrUnplug, vars, reader
<1> QED BY <1>1, AccountFrame

-----------------------------------------------------------------------------
(* The theorems *)

LEMMA InitHolds == Init => IInv
<1> SUFFICES ASSUME Init PROVE IInv
  OBVIOUS
<1>1. queue = <<>> /\ Len(queue) = 0 /\ (\A e \in Events : ~Waits(e))
  BY DEF Init, Waits
<1>2. TypeOK
  <2>1. /\ running \in BOOLEAN /\ dEmitted \in BOOLEAN /\ lost \in BOOLEAN
        /\ reconnecting \in BOOLEAN /\ timer \in BOOLEAN /\ failed \in BOOLEAN
    BY DEF Init
  <2>2. /\ resume \in BOOLEAN /\ auto \in BOOLEAN /\ present \in BOOLEAN
        /\ userOff \in BOOLEAN /\ crossed \in BOOLEAN
    BY DEF Init
  <2>3. queue \in Seq(Events)
    BY <1>1
  <2> QED BY <2>1, <2>2, <2>3 DEF Init, TypeOK
<1>3. OneDone
  BY <1>1 DEF OneDone, Once, Events
<1>4. LossNoted /\ Blocked /\ ResumeWanted /\ Agrees /\ ScreenTrue
  BY DEF Init, LossNoted, Blocked, ResumeWanted, Agrees, ScreenTrue, Live
<1>5. AtRest /\ EndsItself
  BY <1>1 DEF Init, AtRest, EndsItself, Quiet, Events
<1> QED BY <1>2, <1>3, <1>4, <1>5 DEF IInv

LEMMA StepHolds == IInv /\ [Next]_vars => IInv'
<1> SUFFICES ASSUME IInv, [Next]_vars PROVE IInv'
  OBVIOUS
<1>1. ReaderStep => IInv'
  BY OpenOkKeeps, OpenFailKeeps, LoopStopKeeps, LoopFailKeeps, LoopExitKeeps
  DEF ReaderStep, Frame
<1>2. User => IInv'
  BY ClickDisconnectKeeps, ClickStopKeeps, ClickConnectKeeps, ClickFlashKeeps,
     WorldKeeps DEF User
<1> QED BY <1>1, <1>2, TickKeeps, HandleKeeps, EndDisconnectKeeps, ToolEndKeeps,
           WorldKeeps DEF Next

LEMMA Invariance == Spec => []IInv
<1> QED BY InitHolds, StepHolds, PTL DEF Spec

LEMMA AccountHolds == Spec => []Account
<1>1. Init => Account
  <2> SUFFICES ASSUME Init PROVE Account
    OBVIOUS
  <2>1. Announced = {}
    BY DEF Init, Announced
  <2>2. Cardinality(Announced) = 0
    BY <2>1, FS_EmptySet
  <2> QED BY <2>2 DEF Init, Account, Flags, Balance, Pending, Live
<1>2. IInv /\ Account /\ [Next]_vars => Account'
  BY AccountReader, AccountTick, AccountHandle, AccountEnd, AccountUser, AccountWorld
  DEF Next
<1> QED BY <1>1, <1>2, Invariance, PTL DEF Spec

\* Every variable keeps its type, whatever the transport and the bounds.
THEOREM TypeCorrect == Spec => []TypeOK
<1>1. IInv => TypeOK
  BY DEF IInv
<1> QED BY <1>1, Invariance, PTL

\* toggle_connection: a link the user closed stays closed and is not retried,
\* unless the close crossed an event of the link that was already posted.
THEOREM CloseIsFinal == Spec => []OffStaysOff
<1>1. IInv => OffStaysOff
  BY DEF IInv, AtRest, Quiet, OffStaysOff
<1> QED BY <1>1, Invariance, PTL

\* FlashController.run: the flash command has the port to itself, unless the
\* release crossed an event of the link that was already posted.
THEOREM ToolAlone == Spec => []ToolHasPort
<1>1. IInv => ToolHasPort
  BY DEF IInv, Blocked, AtRest, Quiet, ToolHasPort
<1> QED BY <1>1, Invariance, PTL

\* start_reconnect, stop_reconnect and resume: a retry loop always has its timer
\* and shows on screen, so that the user can stop it; and nothing else shows it.
THEOREM RetryIsShown == Spec => []StopOffered
<1>1. IInv => StopOffered
  BY DEF IInv, ScreenTrue, StopOffered
<1> QED BY <1>1, Invariance, PTL

\* on_connected: the retry loop is over once the link it opened is settled.
THEOREM RetryEnds == Spec => []NoRetryWhileLive
<1>1. IInv => NoRetryWhileLive
  BY DEF IInv, EndsItself, NoRetryWhileLive, Settled, Waits, TypeOK
<1> QED BY <1>1, Invariance, PTL

\* Every session that was opened is announced disconnected exactly once, whichever
\* thread comes first to it (StreamReader._disconnected_emitted): when no open
\* outlasts the wait() of disconnect_port(), none is announced twice, and none is
\* left unannounced once the reader has ended and the events are handled.
THEOREM AnnouncedOnce == Spec => []OneAnnouncement
<1>1. IInv /\ Account => OneAnnouncement
  <2> SUFFICES ASSUME IInv, Account, ~slowOpen
               PROVE  owed >= 0 /\ (Settled /\ ~IsRunning => owed = 0)
    BY DEF OneAnnouncement
  <2>1. /\ Cardinality(Announced) \in Nat /\ Flags /\ Balance
    BY AnnouncedSame DEF IInv, TypeOK, Account
  <2>2. ASSUME Settled, ~IsRunning PROVE Cardinality(Announced) = 0 /\ ~Pending
    <3>1. Announced = {}
      BY <2>2 DEF Settled, Announced
    <3> QED BY <2>1, <2>2, <3>1, FS_EmptySet DEF Settled, IsRunning, Flags, Pending, Live
  <2> QED BY <2>1, <2>2 DEF Balance
<1> QED BY <1>1, Invariance, AccountHolds, PTL

-----------------------------------------------------------------------------
(* FlashRunner: where the bytes of a command are *)

\* The k-th byte is k, or -k.
Numbered(w) == \A k \in 1..Len(w) : w[k] \in {k, -k}
\* s is the bytes of w after the first lo, up to the hi-th.
Piece(s, w, lo, hi) ==
  /\ lo <= hi /\ hi <= Len(w) /\ Len(s) = hi - lo
  /\ \A i \in 1..(hi - lo) : s[i] = w[lo + i]
\* So are the chunks of ch, one after the other.
Cuts(ch, w, lo, hi) ==
  \E g \in [0..Len(ch) -> Nat] :
    /\ g[0] = lo /\ g[Len(ch)] = hi
    /\ \A n \in 1..Len(ch) : Piece(ch[n], w, g[n - 1], g[n])

\* s is some of the first a bytes, in order.
Sent(s, w, a) ==
  /\ Ordered(s)
  /\ \A i \in 1..Len(s) : Number(s[i]) \in 1..a /\ s[i] = w[Number(s[i])]
Precedes(s, t) == \A i \in 1..Len(s), j \in 1..Len(t) : Number(s[i]) < Number(t[j])
Has(s, b) == \E i \in 1..Len(s) : s[i] = b
\* What is shown and what is posted have the first a bytes, but for breaks.
Handed(sh, ps, w, a) ==
  /\ a <= Len(w)
  /\ Sent(sh, w, a)
  /\ \A m \in 1..Len(ps) : Sent(ps[m].text, w, a) /\ Precedes(sh, ps[m].text)
  /\ \A m, n \in 1..Len(ps) : m < n => Precedes(ps[m].text, ps[n].text)
  /\ \A k \in 1..a : w[k] > 0 => Has(sh, w[k]) \/ \E m \in 1..Len(ps) : Has(ps[m].text, w[k])

\* What a command wrote is shown or posted, then comes the buffer, then the queue,
\* then the pipe; the first n bytes are shown or posted.
Flow(w, sh, ps, bf, ch, pp, n) ==
  \E a, b, c \in Nat :
    /\ n <= a /\ Handed(sh, ps, w, a) /\ Piece(bf, w, a, b)
    /\ Cuts(ch, w, b, c) /\ Piece(pp, w, c, Len(w))

\* The threads and the processes in each stage of run().
Life(st, kn, al, ef, pp) ==
  /\ st \in {"none", "start"} => al = {}
  /\ st \in {"none", "start", "made"} => ~kn
  /\ st \in {"none", "start", "made", "check"} => ~ef
  /\ st = "end" => "shell" \notin al
  /\ ef => pp = <<>> /\ al = {}

\* How many bytes the end of the command has promised.
Promised(r) == IF stage[r] = "end" /\ known[r] THEN atExit[r] ELSE 0

RunnerOK(r) ==
  /\ r > runs => stage[r] = "none"
  /\ Life(stage[r], known[r], alive[r], eof[r], pipe[r])
  /\ Numbered(written[r]) /\ atExit[r] <= Len(written[r]) /\ Len(written[r]) <= MaxWrite
  /\ Flow(written[r], shown[r], posted[r], buf[r], chunks[r], pipe[r], Promised(r))

FlashInv == FlashTypeOK /\ \A r \in Runner : RunnerOK(r)

-----------------------------------------------------------------------------
(* Sequences *)

LEMMA WriteNumbers == MaxRun \in Nat /\ MaxWrite \in Nat
  BY RunsAssumption

\* A text is a sequence of integers.
LEMMA TextIs ==
  ASSUME NEW s \in Text
  PROVE  /\ s \in Seq(Int) /\ Len(s) \in Nat /\ \A i \in 1..Len(s) : s[i] \in Int
         /\ \A i \in 1..Len(s) : s[i] \in -MaxWrite..MaxWrite
<1> DEFINE B == -MaxWrite..MaxWrite
<1>1. s \in Seq(B)
  BY DEF Text
<1>2. B \subseteq Int
  BY WriteNumbers
<1> HIDE DEF B
<1>3. Len(s) \in Nat /\ \A i \in 1..Len(s) : s[i] \in B
  BY <1>1
<1>4. s \in Seq(Int)
  <2>1. s \in [1..Len(s) -> B]
    BY <1>1
  <2>2. s \in [1..Len(s) -> Int]
    BY <1>2, <2>1
  <2>3. s \in UNION {[1..n -> Int] : n \in Nat}
    BY <1>3, <2>2
  <2> QED BY <2>3 DEF Seq
<1> QED BY <1>2, <1>3, <1>4 DEF B

LEMMA EmptyText == <<>> \in Text
  BY DEF Text

LEMMA AppendSeq ==
  ASSUME NEW S, NEW s \in Seq(S), NEW e \in S
  PROVE  /\ Append(s, e) \in Seq(S) /\ Len(Append(s, e)) = Len(s) + 1 /\ Len(s) \in Nat
         /\ \A i \in 1..Len(s) : Append(s, e)[i] = s[i]
         /\ Append(s, e)[Len(s) + 1] = e
  OBVIOUS

LEMMA TailSeq ==
  ASSUME NEW S, NEW s \in Seq(S), s # <<>>
  PROVE  /\ Head(s) \in S /\ Head(s) = s[1] /\ Len(s) \in Nat /\ Len(s) > 0
         /\ Tail(s) \in Seq(S) /\ Len(Tail(s)) = Len(s) - 1
         /\ \A i \in 1..(Len(s) - 1) : Tail(s)[i] = s[i + 1]
  BY HeadTailProperties

LEMMA ConcatSeq ==
  ASSUME NEW S, NEW s \in Seq(S), NEW t \in Seq(S)
  PROVE  /\ s \o t \in Seq(S) /\ Len(s \o t) = Len(s) + Len(t) /\ Len(s) \in Nat /\ Len(t) \in Nat
         /\ \A i \in 1..Len(s) : (s \o t)[i] = s[i]
         /\ \A i \in 1..Len(t) : (s \o t)[Len(s) + i] = t[i]
         /\ \A i \in 1..(Len(s) + Len(t)) : ~(i <= Len(s)) =>
              i - Len(s) \in 1..Len(t) /\ (s \o t)[i] = t[i - Len(s)]
<1>1. /\ s \o t \in Seq(S) /\ Len(s \o t) = Len(s) + Len(t)
      /\ \A i \in 1 .. Len(s) + Len(t) : (s \o t)[i] = IF i <= Len(s) THEN s[i] ELSE t[i - Len(s)]
  BY ConcatProperties
<1>2. Len(s) \in Nat /\ Len(t) \in Nat
  OBVIOUS
<1>3. ASSUME NEW i \in 1..Len(t) PROVE (s \o t)[Len(s) + i] = t[i]
  <2>1. Len(s) + i \in 1..(Len(s) + Len(t)) /\ ~(Len(s) + i <= Len(s)) /\ (Len(s) + i) - Len(s) = i
    BY <1>2
  <2> QED BY <1>1, <2>1
<1>4. ASSUME NEW i \in 1..Len(s) PROVE (s \o t)[i] = s[i]
  <2>1. i \in 1..(Len(s) + Len(t)) /\ i <= Len(s)
    BY <1>2
  <2> QED BY <1>1, <2>1
<1>5. ASSUME NEW i \in 1..(Len(s) + Len(t)), ~(i <= Len(s))
      PROVE  i - Len(s) \in 1..Len(t) /\ (s \o t)[i] = t[i - Len(s)]
  <2>1. i - Len(s) \in 1..Len(t)
    BY <1>2, <1>5
  <2> QED BY <1>1, <1>5, <2>1
<1> HIDE DEF Len
<1> QED BY <1>1, <1>2, <1>3, <1>4, <1>5

LEMMA NumberIs ==
  ASSUME NEW w \in Text, Numbered(w), NEW k \in 1..Len(w)
  PROVE  Number(w[k]) = k /\ w[k] \in Int /\ w[k] # 0
<1>1. w[k] \in {k, -k} /\ k \in Nat /\ k > 0
  BY TextIs DEF Numbered
<1> QED BY <1>1 DEF Number

-----------------------------------------------------------------------------
(* The stream *)

\* What was written before stays where it is.
LEMMA PieceGrows ==
  ASSUME NEW w \in Text, NEW e \in -MaxWrite..MaxWrite, NEW s, NEW a \in Nat, NEW b \in Nat, Piece(s, w, a, b)
  PROVE  Piece(s, Append(w, e), a, b)
<1> DEFINE v == Append(w, e)
<1>1. Len(v) = Len(w) + 1 /\ Len(w) \in Nat /\ \A i \in 1..Len(w) : v[i] = w[i]
  BY AppendSeq, WriteNumbers DEF Text
<1> HIDE DEF v
<1>2. a <= b /\ b <= Len(w) /\ Len(s) = b - a /\ \A i \in 1..(b - a) : s[i] = w[a + i]
  BY DEF Piece
<1>3. \A i \in 1..(b - a) : a + i \in 1..Len(w)
  BY <1>1, <1>2
<1>4. b <= Len(v)
  BY <1>1, <1>2
<1>5. Piece(s, v, a, b)
  BY <1>1, <1>2, <1>3, <1>4 DEF Piece
<1> QED BY <1>5 DEF v

LEMMA CutsGrow ==
  ASSUME NEW w \in Text, NEW e \in -MaxWrite..MaxWrite, NEW ch \in Seq(Text), NEW b, NEW c, Cuts(ch, w, b, c)
  PROVE  Cuts(ch, Append(w, e), b, c)
<1>1. PICK g \in [0..Len(ch) -> Nat] : g[0] = b /\ g[Len(ch)] = c
        /\ \A n \in 1..Len(ch) : Piece(ch[n], w, g[n - 1], g[n])
  BY DEF Cuts
<1>2. Len(ch) \in Nat
  OBVIOUS
<1>3. ASSUME NEW n \in 1..Len(ch) PROVE Piece(ch[n], Append(w, e), g[n - 1], g[n])
  <2>1. n - 1 \in 0..Len(ch) /\ n \in 0..Len(ch)
    BY <1>2
  <2>2. g[n - 1] \in Nat /\ g[n] \in Nat /\ Piece(ch[n], w, g[n - 1], g[n])
    BY <1>1, <2>1
  <2> QED BY <2>2, PieceGrows
<1> QED BY <1>1, <1>3, Zenon DEF Cuts

LEMMA SentGrows ==
  ASSUME NEW w \in Text, NEW e \in -MaxWrite..MaxWrite, NEW s, NEW a \in Nat, a <= Len(w), Sent(s, w, a)
  PROVE  Sent(s, Append(w, e), a)
<1> DEFINE v == Append(w, e)
<1>1. Len(w) \in Nat /\ \A i \in 1..Len(w) : v[i] = w[i]
  BY AppendSeq, WriteNumbers DEF Text
<1> HIDE DEF v
<1>2. \A i \in 1..Len(s) : Number(s[i]) \in 1..a /\ s[i] = w[Number(s[i])]
  BY DEF Sent
<1>3. 1..a \subseteq 1..Len(w)
  BY <1>1
<1>4. \A i \in 1..Len(s) : s[i] = v[Number(s[i])]
  BY <1>1, <1>2, <1>3
<1> QED BY <1>2, <1>4 DEF Sent, v

LEMMA HandedGrows ==
  ASSUME NEW w \in Text, NEW e \in -MaxWrite..MaxWrite, NEW sh, NEW ps, NEW a \in Nat, Handed(sh, ps, w, a)
  PROVE  Handed(sh, ps, Append(w, e), a)
<1> DEFINE v == Append(w, e)
<1>1. Len(v) = Len(w) + 1 /\ Len(w) \in Nat /\ \A i \in 1..Len(w) : v[i] = w[i]
  BY AppendSeq, WriteNumbers DEF Text
<1>2. a <= Len(w) /\ Sent(sh, w, a)
      /\ \A m \in 1..Len(ps) : Sent(ps[m].text, w, a) /\ Precedes(sh, ps[m].text)
  BY DEF Handed
<1>3. Sent(sh, v, a) /\ \A m \in 1..Len(ps) : Sent(ps[m].text, v, a)
  BY <1>2, SentGrows
<1> HIDE DEF v
<1>4. \A k \in 1..a : k \in 1..Len(w) /\ v[k] = w[k]
  BY <1>1, <1>2
<1>5. a <= Len(v)
  BY <1>1, <1>2
<1>6. \A k \in 1..a : v[k] > 0 => Has(sh, v[k]) \/ \E m \in 1..Len(ps) : Has(ps[m].text, v[k])
  BY <1>4 DEF Handed
<1>7. \A m, n \in 1..Len(ps) : m < n => Precedes(ps[m].text, ps[n].text)
  BY DEF Handed
<1>8. Handed(sh, ps, v, a)
  BY <1>2, <1>3, <1>5, <1>6, <1>7, Zenon DEF Handed
<1> QED BY <1>8 DEF v

\* A byte that is written goes into the pipe.
LEMMA FlowWrites ==
  ASSUME NEW w \in Text, NEW sh, NEW ps, NEW bf, NEW ch \in Seq(Text), NEW pp \in Text, NEW n,
         NEW e \in -MaxWrite..MaxWrite, Flow(w, sh, ps, bf, ch, pp, n)
  PROVE  Flow(Append(w, e), sh, ps, bf, ch, Append(pp, e), n)
<1> DEFINE v == Append(w, e)
           q == Append(pp, e)
<1>1. PICK a \in Nat, b \in Nat, c \in Nat :
        /\ n <= a /\ Handed(sh, ps, w, a) /\ Piece(bf, w, a, b)
        /\ Cuts(ch, w, b, c) /\ Piece(pp, w, c, Len(w))
  BY DEF Flow
<1>2. Handed(sh, ps, v, a) /\ Piece(bf, v, a, b) /\ Cuts(ch, v, b, c)
  BY <1>1, HandedGrows, PieceGrows, CutsGrow
<1>3. Len(v) = Len(w) + 1 /\ Len(w) \in Nat /\ v[Len(w) + 1] = e /\ \A i \in 1..Len(w) : v[i] = w[i]
  BY AppendSeq, WriteNumbers DEF Text
<1>4. Len(q) = Len(pp) + 1 /\ q[Len(pp) + 1] = e /\ \A i \in 1..Len(pp) : q[i] = pp[i]
  BY AppendSeq, WriteNumbers DEF Text
<1>5. c <= Len(w) /\ Len(pp) = Len(w) - c /\ \A i \in 1..(Len(w) - c) : pp[i] = w[c + i]
  BY <1>1 DEF Piece
<1> HIDE DEF v, q
<1>6. ASSUME NEW i \in 1..(Len(v) - c) PROVE q[i] = v[c + i]
  <2>1. CASE i \in 1..(Len(w) - c)
    <3>1. i \in 1..Len(pp) /\ c + i \in 1..Len(w)
      BY <2>1, <1>3, <1>5
    <3> QED BY <3>1, <2>1, <1>3, <1>4, <1>5
  <2>2. CASE ~(i \in 1..(Len(w) - c))
    <3>1. i = Len(pp) + 1 /\ c + i = Len(w) + 1
      BY <2>2, <1>3, <1>5
    <3> QED BY <3>1, <1>3, <1>4
  <2> QED BY <2>1, <2>2
<1>7. c <= Len(v) /\ Len(q) = Len(v) - c
  BY <1>3, <1>4, <1>5
<1>8. Piece(q, v, c, Len(v))
  BY <1>3, <1>6, <1>7 DEF Piece
<1> QED BY <1>1, <1>2, <1>8, Zenon DEF Flow, v, q

\* A chunk joins the queue, and leaves it.
LEMMA CutsAppend ==
  ASSUME NEW w, NEW ch \in Seq(Text), NEW t \in Text, NEW b \in Nat, NEW c \in Nat, NEW d \in Nat,
         Cuts(ch, w, b, c), Piece(t, w, c, d)
  PROVE  Cuts(Append(ch, t), w, b, d)
<1> DEFINE r == Append(ch, t)
           L == Len(ch)
<1>1. PICK g \in [0..L -> Nat] : g[0] = b /\ g[L] = c
        /\ \A n \in 1..L : Piece(ch[n], w, g[n - 1], g[n])
  BY DEF Cuts
<1>2. Len(r) = L + 1 /\ L \in Nat /\ r[L + 1] = t /\ \A n \in 1..L : r[n] = ch[n]
  BY AppendSeq
<1> DEFINE h == [k \in 0..(L + 1) |-> IF k = L + 1 THEN d ELSE g[k]]
<1>3. \A k \in 0..L : h[k] = g[k] /\ g[k] \in Nat
  BY SMTT(30), <1>1, <1>2
<1>4. h[L + 1] = d /\ h \in [0..(L + 1) -> Nat]
  BY <1>1, <1>2
<1> HIDE DEF h, r
<1>5. ASSUME NEW n \in 1..(L + 1) PROVE Piece(r[n], w, h[n - 1], h[n])
  <2>1. CASE n = L + 1
    <3>1. n - 1 = L /\ L \in 0..L
      BY <2>1, <1>2
    <3> QED BY <3>1, <2>1, <1>1, <1>2, <1>3, <1>4
  <2>2. CASE n # L + 1
    <3>1. n \in 1..L /\ n \in 0..L /\ n - 1 \in 0..L
      BY <2>2, <1>2
    <3> QED BY <3>1, <1>1, <1>2, <1>3
  <2> QED BY <2>1, <2>2
<1>6. h[0] = b
  BY <1>1, <1>2, <1>3
<1>7. Cuts(r, w, b, d)
  BY <1>2, <1>4, <1>5, <1>6 DEF Cuts
<1> QED BY <1>7 DEF r

LEMMA CutsTail ==
  ASSUME NEW w, NEW ch \in Seq(Text), ch # <<>>, NEW b \in Nat, NEW c \in Nat, Cuts(ch, w, b, c)
  PROVE  \E m \in Nat : Piece(Head(ch), w, b, m) /\ Cuts(Tail(ch), w, m, c)
<1> DEFINE r == Tail(ch)
           L == Len(ch)
<1>1. PICK g \in [0..L -> Nat] : g[0] = b /\ g[L] = c
        /\ \A n \in 1..L : Piece(ch[n], w, g[n - 1], g[n])
  BY DEF Cuts
<1>2. Head(ch) = ch[1] /\ Len(r) = L - 1 /\ L \in Nat /\ L > 0 /\ \A i \in 1..(L - 1) : r[i] = ch[i + 1]
  BY TailSeq
<1> DEFINE h == [k \in 0..(L - 1) |-> g[k + 1]]
<1>3. h \in [0..(L - 1) -> Nat] /\ \A k \in 0..(L - 1) : h[k] = g[k + 1]
  BY <1>1, <1>2
<1> HIDE DEF h, r
<1>4. ASSUME NEW n \in 1..(L - 1) PROVE Piece(r[n], w, h[n - 1], h[n])
  <2>1. n + 1 \in 1..L /\ (n + 1) - 1 = (n - 1) + 1 /\ n - 1 \in 0..(L - 1) /\ n \in 0..(L - 1)
    BY <1>2
  <2>2. Piece(ch[n + 1], w, g[(n + 1) - 1], g[n + 1])
    BY <2>1, <1>1
  <2> QED BY <2>1, <2>2, <1>2, <1>3
<1>5. 0 \in 0..(L - 1) /\ 0 + 1 = 1 /\ L - 1 \in 0..(L - 1) /\ (L - 1) + 1 = L /\ 1 \in 1..L /\ 1 - 1 = 0
      /\ 1 \in 0..L
  BY <1>2
<1>6. h[0] = g[1] /\ h[L - 1] = c /\ g[1] \in Nat
  BY <1>1, <1>3, <1>5
<1>7. Cuts(r, w, g[1], c)
  BY <1>2, <1>3, <1>4, <1>6 DEF Cuts
<1>8. Piece(Head(ch), w, b, g[1])
  <2>1. Piece(ch[1], w, g[1 - 1], g[1])
    BY <1>1, <1>5
  <2> QED BY <2>1, <1>1, <1>2, <1>5
<1> QED BY <1>6, <1>7, <1>8 DEF r

LEMMA FlowPumps ==
  ASSUME NEW w \in Text, NEW sh, NEW ps, NEW bf, NEW ch \in Seq(Text), NEW pp \in Text, NEW n,
         Flow(w, sh, ps, bf, ch, pp, n)
  PROVE  Flow(w, sh, ps, bf, Append(ch, pp), <<>>, n)
<1>1. PICK a \in Nat, b \in Nat, c \in Nat :
        /\ n <= a /\ Handed(sh, ps, w, a) /\ Piece(bf, w, a, b)
        /\ Cuts(ch, w, b, c) /\ Piece(pp, w, c, Len(w))
  BY DEF Flow
<1>2. Len(w) \in Nat
  BY TextIs
<1>3. Cuts(Append(ch, pp), w, b, Len(w))
  BY <1>1, <1>2, CutsAppend
<1>4. Piece(<<>>, w, Len(w), Len(w))
  BY <1>2 DEF Piece
<1> QED BY <1>1, <1>2, <1>3, <1>4, Zenon DEF Flow

LEMMA FlowGets ==
  ASSUME NEW w \in Text, NEW sh, NEW ps, NEW bf \in Text, NEW ch \in Seq(Text), NEW pp, NEW n,
         ch # <<>>, Flow(w, sh, ps, bf, ch, pp, n)
  PROVE  Flow(w, sh, ps, bf \o Head(ch), Tail(ch), pp, n)
<1> DEFINE s == Head(ch)
           r == bf \o s
<1>1. PICK a \in Nat, b \in Nat, c \in Nat :
        /\ n <= a /\ Handed(sh, ps, w, a) /\ Piece(bf, w, a, b)
        /\ Cuts(ch, w, b, c) /\ Piece(pp, w, c, Len(w))
  BY DEF Flow
<1>2. PICK m \in Nat : Piece(s, w, b, m) /\ Cuts(Tail(ch), w, m, c)
  BY <1>1, CutsTail
<1>3. s \in Text
  BY TailSeq
<1> HIDE DEF s
<1>4. /\ Len(r) = Len(bf) + Len(s)
      /\ \A i \in 1..Len(bf) : r[i] = bf[i]
      /\ \A i \in 1..(Len(bf) + Len(s)) : ~(i <= Len(bf)) =>
           i - Len(bf) \in 1..Len(s) /\ r[i] = s[i - Len(bf)]
  BY <1>3, ConcatSeq DEF Text
<1> HIDE DEF r
<1>5. /\ a <= b /\ b <= Len(w) /\ Len(bf) = b - a /\ \A i \in 1..(b - a) : bf[i] = w[a + i]
      /\ b <= m /\ m <= Len(w) /\ Len(s) = m - b /\ \A i \in 1..(m - b) : s[i] = w[b + i]
  BY <1>1, <1>2 DEF Piece
<1>6. Len(r) = m - a /\ a <= m /\ Len(bf) + Len(s) = m - a
  BY <1>4, <1>5
<1>7. ASSUME NEW i \in 1..(m - a) PROVE r[i] = w[a + i]
  <2>1. CASE i <= b - a
    <3>1. i \in 1..Len(bf) /\ i \in 1..(b - a)
      BY <2>1, <1>5
    <3> QED BY <3>1, <1>4, <1>5
  <2>2. CASE ~(i <= b - a)
    <3>1. i - (b - a) \in 1..(m - b) /\ b + (i - (b - a)) = a + i
      BY <2>2, <1>5
    <3>2. r[i] = s[i - (b - a)]
      BY <2>2, <1>4, <1>5, <1>6
    <3> QED BY <3>1, <3>2, <1>5
  <2> QED BY <2>1, <2>2
<1>8. Piece(r, w, a, m)
  BY <1>5, <1>6, <1>7 DEF Piece
<1> QED BY <1>1, <1>2, <1>8, Zenon DEF Flow, r, s

-----------------------------------------------------------------------------
(* What is handed over *)

LEMMA SentMore ==
  ASSUME NEW s, NEW w, NEW a \in Nat, NEW b \in Nat, a <= b, Sent(s, w, a)
  PROVE  Sent(s, w, b)
<1>1. 1..a \subseteq 1..b
  OBVIOUS
<1> QED BY <1>1 DEF Sent

\* The bytes after the first a are in order, and after all that were sent.
LEMMA PieceSent ==
  ASSUME NEW w \in Text, Numbered(w), NEW t, NEW a \in Nat, NEW b \in Nat, Piece(t, w, a, b)
  PROVE  /\ Sent(t, w, b) /\ \A s : Sent(s, w, a) => Precedes(s, t)
         /\ \A k \in 1..b : k \in 1..a \/ Has(t, w[k])
<1>1. a <= b /\ b <= Len(w) /\ Len(t) = b - a /\ \A i \in 1..(b - a) : t[i] = w[a + i]
  BY DEF Piece
<1>2. Len(w) \in Nat
  BY TextIs
<1>3. ASSUME NEW i \in 1..Len(t) PROVE Number(t[i]) = a + i /\ t[i] = w[a + i] /\ a + i \in 1..b
  <2>1. a + i \in 1..Len(w) /\ i \in 1..(b - a) /\ a + i \in 1..b
    BY <1>1, <1>2
  <2> QED BY <2>1, <1>1, NumberIs
<1>4. Ordered(t)
  <2>1. Len(t) \in Nat
    BY <1>1
  <2>2. \A i, j \in 1..Len(t) : i < j => a + i < a + j
    BY <2>1
  <2> QED BY <1>3, <2>2 DEF Ordered
<1>5. Sent(t, w, b)
  BY <1>3, <1>4 DEF Sent
<1>6. ASSUME NEW s, Sent(s, w, a) PROVE Precedes(s, t)
  <2>1. \A i \in 1..Len(s) : Number(s[i]) \in 1..a
    BY <1>6 DEF Sent
  <2>2. \A x \in 1..a, j \in 1..Len(t) : x < a + j
    BY <1>1
  <2> QED BY <2>1, <2>2, <1>3 DEF Precedes
<1>7. ASSUME NEW k \in 1..b, k \notin 1..a PROVE Has(t, w[k])
  <2>1. k - a \in 1..(b - a) /\ a + (k - a) = k
    BY <1>7
  <2>2. t[k - a] = w[k] /\ k - a \in 1..Len(t)
    BY <2>1, <1>1
  <2> QED BY <2>2 DEF Has
<1> QED BY <1>5, <1>6, <1>7

LEMMA MessageIs ==
  ASSUME NEW m \in Message
  PROVE  m.kind \in {"output", "ok", "failed"} /\ m.text \in Text /\ (m.kind # "output" => m.text = <<>>)
  BY DEF Message

LEMMA DoneIs ==
  ASSUME NEW ok \in BOOLEAN
  PROVE  Done(ok) \in Message /\ Done(ok).text = <<>> /\ Done(ok).kind # "output"
  BY EmptyText DEF Done, Message

LEMMA EmptySent ==
  ASSUME NEW w, NEW a
  PROVE  Sent(<<>>, w, a) /\ \A s : Precedes(s, <<>>) /\ Precedes(<<>>, s)
  BY DEF Sent, Precedes, Ordered

\* A message is posted: one of the next bytes, or one without any.
LEMMA HandedAppend ==
  ASSUME NEW w, NEW sh, NEW ps \in Seq(Message), NEW a \in Nat, NEW b \in Nat, a <= b, b <= Len(w),
         NEW m \in Message, Handed(sh, ps, w, a), Sent(m.text, w, b),
         \A s : Sent(s, w, a) => Precedes(s, m.text),
         \A k \in 1..b : k \in 1..a \/ Has(m.text, w[k])
  PROVE  Handed(sh, Append(ps, m), w, b)
<1> DEFINE q == Append(ps, m)
           L == Len(ps)
<1>1. Len(q) = L + 1 /\ L \in Nat /\ q[L + 1] = m /\ \A i \in 1..L : q[i] = ps[i]
  BY AppendSeq
<1> HIDE DEF q
<1>2. \A i \in 1..(L + 1) : i \in 1..L \/ i = L + 1
  BY <1>1
<1>3. L + 1 \in 1..(L + 1) /\ \A i \in 1..L : i \in 1..(L + 1)
  BY <1>1
<1>4. Sent(sh, w, a) /\ \A i \in 1..L : Sent(ps[i].text, w, a) /\ Precedes(sh, ps[i].text)
  BY DEF Handed
<1>5. Sent(sh, w, b) /\ \A i \in 1..L : Sent(ps[i].text, w, b)
  BY <1>4, SentMore
<1>6. \A i \in 1..Len(q) : Sent(q[i].text, w, b) /\ Precedes(sh, q[i].text)
  BY <1>1, <1>2, <1>4, <1>5
<1>7. ASSUME NEW i \in 1..Len(q), NEW j \in 1..Len(q), i < j PROVE Precedes(q[i].text, q[j].text)
  <2>1. i \in 1..L /\ (j \in 1..L \/ j = L + 1)
    BY <1>1, <1>7
  <2>2. CASE j \in 1..L
    <3>1. Precedes(ps[i].text, ps[j].text)
      BY <2>1, <2>2, <1>7 DEF Handed
    <3> QED BY <3>1, <2>1, <2>2, <1>1
  <2>3. CASE j = L + 1
    BY <2>1, <2>3, <1>1, <1>4
  <2> QED BY <2>1, <2>2, <2>3
<1>8. ASSUME NEW k \in 1..b, w[k] > 0 PROVE Has(sh, w[k]) \/ \E i \in 1..Len(q) : Has(q[i].text, w[k])
  <2>1. CASE k \in 1..a
    <3>1. Has(sh, w[k]) \/ \E i \in 1..L : Has(ps[i].text, w[k])
      BY <2>1, <1>8 DEF Handed
    <3> QED BY <3>1, <1>1, <1>3
  <2>2. CASE Has(m.text, w[k])
    BY <2>2, <1>1, <1>3
  <2> QED BY <2>1, <2>2
<1>9. Handed(sh, q, w, b)
  BY <1>5, <1>6, <1>7, <1>8, Zenon DEF Handed
<1> QED BY <1>9 DEF q

\* The lines of a text are posted.
LEMMA HandedText ==
  ASSUME NEW w \in Text, Numbered(w), NEW sh, NEW ps \in Seq(Message), NEW t \in Text,
         NEW a \in Nat, NEW b \in Nat, Piece(t, w, a, b), Handed(sh, ps, w, a)
  PROVE  ps \o Output(t) \in Seq(Message) /\ Handed(sh, ps \o Output(t), w, b)
<1>1. a <= b /\ b <= Len(w) /\ Len(w) \in Nat
  BY TextIs DEF Piece
<1>2. /\ Sent(t, w, b) /\ \A s : Sent(s, w, a) => Precedes(s, t)
      /\ \A k \in 1..b : k \in 1..a \/ Has(t, w[k])
  BY PieceSent
<1>3. CASE \A i \in 1..Len(t) : t[i] < 0
  <2>1. ps \o Output(t) = ps
    <3>1. Output(t) = <<>>
      BY <1>3, Zenon DEF Output
    <3> QED BY <3>1
  <2>2. Sent(sh, w, b) /\ \A m \in 1..Len(ps) : Sent(ps[m].text, w, b)
    BY <1>1, SentMore DEF Handed
  <2>3. \A k \in 1..b : w[k] > 0 => k \in 1..a
    <3> SUFFICES ASSUME NEW k \in 1..b, w[k] > 0, Has(t, w[k]) PROVE FALSE
      BY <1>2
    <3>1. k \in 1..Len(w)
      BY <1>1
    <3>2. w[k] \in Int /\ w[k] < 0
      BY <3>1, <1>3, TextIs DEF Has
    <3> QED BY <3>2
  <2>4. \A k \in 1..b : w[k] > 0 => Has(sh, w[k]) \/ \E m \in 1..Len(ps) : Has(ps[m].text, w[k])
    BY <2>3 DEF Handed
  <2>5. \A m, n \in 1..Len(ps) : m < n => Precedes(ps[m].text, ps[n].text)
    BY DEF Handed
  <2>6. \A m \in 1..Len(ps) : Precedes(sh, ps[m].text)
    BY DEF Handed
  <2>7. Handed(sh, ps, w, b)
    BY <1>1, <2>2, <2>4, <2>5, <2>6, Zenon DEF Handed
  <2> QED BY <2>1, <2>7
<1>4. CASE ~ \A i \in 1..Len(t) : t[i] < 0
  <2> DEFINE m == [kind |-> "output", text |-> t]
  <2>1. m \in Message /\ m.text = t
    BY DEF Message
  <2>2. Output(t) = <<m>>
    BY <1>4, Zenon DEF Output
  <2> HIDE DEF m
  <2>3. ps \o Output(t) = Append(ps, m)
    BY <2>1, <2>2, AppendIsConcat
  <2>4. Append(ps, m) \in Seq(Message)
    BY <2>1, AppendSeq
  <2>5. Handed(sh, Append(ps, m), w, b)
    BY <1>1, <1>2, <2>1, HandedAppend
  <2> QED BY <2>3, <2>4, <2>5
<1> QED BY <1>3, <1>4

\* The result is posted.
LEMMA HandedDone ==
  ASSUME NEW w \in Text, NEW sh, NEW ps \in Seq(Message), NEW ok \in BOOLEAN, NEW a \in Nat, Handed(sh, ps, w, a)
  PROVE  ps \o <<Done(ok)>> \in Seq(Message) /\ Handed(sh, ps \o <<Done(ok)>>, w, a)
<1> DEFINE m == Done(ok)
<1>1. m \in Message /\ m.text = <<>>
  BY DoneIs
<1> HIDE DEF m
<1>2. ps \o <<m>> = Append(ps, m) /\ Append(ps, m) \in Seq(Message)
  BY <1>1, AppendIsConcat, AppendSeq
<1>3. a <= Len(w)
  BY DEF Handed
<1>4. Handed(sh, Append(ps, m), w, a)
  BY <1>1, <1>3, EmptySent, HandedAppend
<1> QED BY <1>2, <1>4 DEF m

\* A message is handled: its text comes after all that is shown.
LEMMA HandedShows ==
  ASSUME NEW w \in Text, NEW sh \in Text, NEW ps \in Seq(Message), ps # <<>>, NEW a \in Nat, Handed(sh, ps, w, a)
  PROVE  /\ sh \o Head(ps).text \in Text /\ Tail(ps) \in Seq(Message)
         /\ Handed(sh \o Head(ps).text, Tail(ps), w, a)
<1> DEFINE t == Head(ps).text
           r == sh \o t
           q == Tail(ps)
           L == Len(ps)
<1>1. Head(ps) \in Message /\ Head(ps) = ps[1] /\ L \in Nat /\ L > 0 /\ q \in Seq(Message) /\ Len(q) = L - 1
      /\ \A i \in 1..(L - 1) : q[i] = ps[i + 1]
  BY TailSeq
<1>2. t \in Text
  BY <1>1, MessageIs
<1>3. t = ps[1].text /\ 1 \in 1..L /\ \A i \in 1..(L - 1) : i + 1 \in 1..L /\ 1 < i + 1
  BY <1>1
<1> HIDE DEF t
<1>4. /\ r \in Text /\ Len(r) = Len(sh) + Len(t) /\ Len(sh) \in Nat /\ Len(t) \in Nat
      /\ \A i \in 1..Len(sh) : r[i] = sh[i]
      /\ \A i \in 1..Len(t) : r[Len(sh) + i] = t[i]
      /\ \A i \in 1..(Len(sh) + Len(t)) : ~(i <= Len(sh)) =>
           i - Len(sh) \in 1..Len(t) /\ r[i] = t[i - Len(sh)]
  BY <1>2, ConcatSeq DEF Text
<1> HIDE DEF r, q
<1>5. Sent(sh, w, a) /\ Sent(t, w, a) /\ Precedes(sh, t)
  BY <1>3 DEF Handed
<1>6. ASSUME NEW i \in 1..Len(r)
      PROVE  \/ i \in 1..Len(sh) /\ r[i] = sh[i]
             \/ ~(i <= Len(sh)) /\ i - Len(sh) \in 1..Len(t) /\ r[i] = t[i - Len(sh)]
  <2>1. i \in 1..(Len(sh) + Len(t))
    BY <1>4
  <2>2. CASE i <= Len(sh)
    <3>1. i \in 1..Len(sh)
      BY <2>2
    <3> QED BY <3>1, <1>4
  <2> QED BY <2>1, <2>2, <1>4
<1>7. Sent(r, w, a)
  <2>1. ASSUME NEW i \in 1..Len(r), NEW j \in 1..Len(r), i < j PROVE Number(r[i]) < Number(r[j])
    <3>1. CASE j \in 1..Len(sh) /\ r[j] = sh[j]
      <4>1. i \in 1..Len(sh) /\ r[i] = sh[i]
        BY <3>1, <2>1, <1>4
      <4> QED BY <4>1, <3>1, <2>1, <1>5 DEF Sent, Ordered
    <3>2. CASE j - Len(sh) \in 1..Len(t) /\ r[j] = t[j - Len(sh)]
      <4>1. CASE i \in 1..Len(sh) /\ r[i] = sh[i]
        BY <4>1, <3>2, <1>5 DEF Precedes
      <4>2. CASE i - Len(sh) \in 1..Len(t) /\ r[i] = t[i - Len(sh)]
        <5>1. i - Len(sh) < j - Len(sh)
          BY <2>1, <1>4
        <5> QED BY <5>1, <4>2, <3>2, <1>5 DEF Sent, Ordered
      <4> QED BY <4>1, <4>2, <1>6
    <3> QED BY <3>1, <3>2, <1>6
  <2>2. ASSUME NEW i \in 1..Len(r) PROVE Number(r[i]) \in 1..a /\ r[i] = w[Number(r[i])]
    BY <1>5, <1>6 DEF Sent
  <2> QED BY <2>1, <2>2 DEF Sent, Ordered
<1>8. ASSUME NEW s, Precedes(sh, s), Precedes(t, s) PROVE Precedes(r, s)
  BY <1>6, <1>8 DEF Precedes
<1>9. ASSUME NEW i \in 1..Len(q) PROVE Sent(q[i].text, w, a) /\ Precedes(r, q[i].text)
  <2>1. i \in 1..(L - 1) /\ q[i] = ps[i + 1]
    BY <1>1
  <2>2. Sent(ps[i + 1].text, w, a) /\ Precedes(sh, ps[i + 1].text) /\ Precedes(t, ps[i + 1].text)
    BY <2>1, <1>3 DEF Handed
  <2> QED BY <2>1, <2>2, <1>8
<1>10. ASSUME NEW i \in 1..Len(q), NEW j \in 1..Len(q), i < j PROVE Precedes(q[i].text, q[j].text)
  <2>1. i \in 1..(L - 1) /\ j \in 1..(L - 1) /\ i + 1 < j + 1
    BY <1>1, <1>10
  <2>2. Precedes(ps[i + 1].text, ps[j + 1].text)
    BY <2>1, <1>3 DEF Handed
  <2> QED BY <2>1, <2>2, <1>1
<1>11. ASSUME NEW b, Has(sh, b) \/ Has(t, b) PROVE Has(r, b)
  <2>1. \A i \in 1..Len(sh) : i \in 1..Len(r)
    BY <1>4
  <2>2. \A i \in 1..Len(t) : Len(sh) + i \in 1..Len(r)
    BY <1>4
  <2> QED BY <2>1, <2>2, <1>4, <1>11 DEF Has
<1>12. ASSUME NEW k \in 1..a, w[k] > 0 PROVE Has(r, w[k]) \/ \E i \in 1..Len(q) : Has(q[i].text, w[k])
  <2>1. CASE Has(sh, w[k])
    BY <2>1, <1>11
  <2>2. ASSUME NEW m \in 1..L, Has(ps[m].text, w[k])
        PROVE  Has(r, w[k]) \/ \E i \in 1..Len(q) : Has(q[i].text, w[k])
    <3>1. CASE m = 1
      BY <3>1, <2>2, <1>3, <1>11
    <3>2. CASE m # 1
      <4>1. m - 1 \in 1..(L - 1) /\ (m - 1) + 1 = m
        BY <3>2, <1>1
      <4>2. q[m - 1] = ps[m] /\ m - 1 \in 1..Len(q)
        BY <4>1, <1>1
      <4> QED BY <4>2, <2>2
    <3> QED BY <3>1, <3>2
  <2> QED BY <2>1, <2>2, <1>12 DEF Handed
<1>13. a <= Len(w)
  BY DEF Handed
<1>14. Handed(r, q, w, a)
  BY <1>7, <1>9, <1>10, <1>12, <1>13, Zenon DEF Handed
<1> QED BY <1>1, <1>4, <1>14 DEF r, q, t

LEMMA SubSeqText ==
  ASSUME NEW s \in Text, NEW n \in 0..Len(s)
  PROVE  /\ SubSeq(s, 1, n) \in Text /\ Len(SubSeq(s, 1, n)) = n
         /\ \A i \in 1..n : SubSeq(s, 1, n)[i] = s[i]
         /\ SubSeq(s, n + 1, Len(s)) \in Text /\ Len(SubSeq(s, n + 1, Len(s))) = Len(s) - n
         /\ \A i \in 1..(Len(s) - n) : SubSeq(s, n + 1, Len(s))[i] = s[n + i]
<1> DEFINE B == -MaxWrite..MaxWrite
<1>1. s \in Seq(B) /\ Len(s) \in Nat
  BY DEF Text
<1> HIDE DEF B
<1>2. SubSeq(s, 1, n) \in Seq(B) /\ Len(SubSeq(s, 1, n)) = n /\ \A i \in 1..n : SubSeq(s, 1, n)[i] = s[i]
  BY <1>1, SubSeqProperties
<1>3. /\ SubSeq(s, n + 1, Len(s)) \in Seq(B) /\ Len(SubSeq(s, n + 1, Len(s))) = Len(s) - n
      /\ \A i \in 1..(Len(s) - n) : SubSeq(s, n + 1, Len(s))[i] = s[n + i]
  BY <1>1, SubSeqProperties
<1> QED BY <1>2, <1>3 DEF B, Text

\* The buffer is cut in two.
LEMMA PieceCut ==
  ASSUME NEW w \in Text, NEW s \in Text, NEW n \in 0..Len(s), NEW a \in Nat, NEW b \in Nat, Piece(s, w, a, b)
  PROVE  /\ a + n \in Nat /\ Piece(SubSeq(s, 1, n), w, a, a + n)
         /\ Piece(SubSeq(s, n + 1, Len(s)), w, a + n, b)
<1> DEFINE x == SubSeq(s, 1, n)
           y == SubSeq(s, n + 1, Len(s))
<1>1. /\ Len(x) = n /\ \A i \in 1..n : x[i] = s[i]
      /\ Len(y) = Len(s) - n /\ \A i \in 1..(Len(s) - n) : y[i] = s[n + i]
  BY SubSeqText
<1> HIDE DEF x, y
<1>2. a <= b /\ b <= Len(w) /\ Len(s) = b - a /\ \A i \in 1..(b - a) : s[i] = w[a + i]
  BY DEF Piece
<1>3. Len(w) \in Nat /\ n \in Nat /\ n <= b - a
  BY <1>2, TextIs
<1>4. Piece(x, w, a, a + n)
  <2>1. a <= a + n /\ a + n <= Len(w) /\ (a + n) - a = n
    BY <1>2, <1>3
  <2>2. \A i \in 1..n : i \in 1..(b - a)
    BY <1>3
  <2> QED BY <2>1, <2>2, <1>1, <1>2 DEF Piece
<1>5. Piece(y, w, a + n, b)
  <2>1. a + n <= b /\ b - (a + n) = (b - a) - n
    BY <1>2, <1>3
  <2>2. ASSUME NEW i \in 1..((b - a) - n) PROVE y[i] = w[(a + n) + i]
    <3>1. n + i \in 1..(b - a) /\ a + (n + i) = (a + n) + i
      BY <1>3
    <3> QED BY <3>1, <1>1, <1>2
  <2> QED BY <2>1, <2>2, <1>1, <1>2 DEF Piece
<1> QED BY <1>3, <1>4, <1>5 DEF x, y

\* The first bytes of the buffer are posted.
LEMMA FlowEmits ==
  ASSUME NEW w \in Text, Numbered(w), NEW sh, NEW ps \in Seq(Message), NEW s \in Text, NEW cut \in 0..Len(s),
         NEW ch, NEW pp, NEW n \in Nat, Flow(w, sh, ps, s, ch, pp, n)
  PROVE  /\ ps \o Output(SubSeq(s, 1, cut)) \in Seq(Message) /\ SubSeq(s, cut + 1, Len(s)) \in Text
         /\ Flow(w, sh, ps \o Output(SubSeq(s, 1, cut)), SubSeq(s, cut + 1, Len(s)), ch, pp, n)
<1>1. PICK a \in Nat, b \in Nat, c \in Nat :
        /\ n <= a /\ Handed(sh, ps, w, a) /\ Piece(s, w, a, b)
        /\ Cuts(ch, w, b, c) /\ Piece(pp, w, c, Len(w))
  BY DEF Flow
<1> DEFINE x == SubSeq(s, 1, cut)
           y == SubSeq(s, cut + 1, Len(s))
           d == a + cut
<1>2. x \in Text /\ y \in Text /\ d \in Nat /\ Piece(x, w, a, d) /\ Piece(y, w, d, b)
  BY <1>1, SubSeqText, PieceCut
<1>3. n <= d
  BY <1>1
<1> HIDE DEF x, y, d
<1>4. ps \o Output(x) \in Seq(Message) /\ Handed(sh, ps \o Output(x), w, d)
  BY <1>1, <1>2, HandedText
<1>5. Flow(w, sh, ps \o Output(x), y, ch, pp, n)
  BY <1>1, <1>2, <1>3, <1>4, Zenon DEF Flow
<1> QED BY <1>2, <1>4, <1>5 DEF x, y

\* The end: nothing is in the queue, and nothing in the pipe that was written by the
\* first n bytes; the buffer is posted, then the result.
LEMMA FlowEnds ==
  ASSUME NEW w \in Text, Numbered(w), NEW sh, NEW ps \in Seq(Message), NEW s \in Text, NEW ok \in BOOLEAN,
         NEW pp \in Text, NEW n \in Nat, n <= Len(w), Flow(w, sh, ps, s, <<>>, pp, 0),
         pp = <<>> \/ \A i \in 1..Len(pp) : Number(pp[i]) > n
  PROVE  /\ ps \o Output(s) \o <<Done(ok)>> \in Seq(Message)
         /\ Flow(w, sh, ps \o Output(s) \o <<Done(ok)>>, <<>>, <<>>, pp, n)
<1>1. PICK a \in Nat, b \in Nat, c \in Nat :
        /\ Handed(sh, ps, w, a) /\ Piece(s, w, a, b)
        /\ Cuts(<<>>, w, b, c) /\ Piece(pp, w, c, Len(w))
  BY DEF Flow
<1>2. b = c
  BY <1>1 DEF Cuts
<1>3. Len(w) \in Nat /\ c <= Len(w) /\ Len(pp) = Len(w) - c /\ \A i \in 1..(Len(w) - c) : pp[i] = w[c + i]
  BY <1>1, TextIs DEF Piece
<1>4. n <= c
  <2>1. CASE pp = <<>>
    BY <2>1, <1>3
  <2>2. CASE \A i \in 1..Len(pp) : Number(pp[i]) > n
    <3> SUFFICES ASSUME c < n PROVE FALSE
      OBVIOUS
    <3>1. 1 \in 1..(Len(w) - c) /\ c + 1 \in 1..Len(w) /\ 1 \in 1..Len(pp)
      BY <1>3
    <3>2. pp[1] = w[c + 1] /\ Number(w[c + 1]) = c + 1
      BY <3>1, <1>3, NumberIs
    <3> QED BY <2>2, <3>1, <3>2
  <2> QED BY <2>1, <2>2
<1> DEFINE q == ps \o Output(s)
<1>5. q \in Seq(Message) /\ Handed(sh, q, w, b)
  BY <1>1, HandedText
<1> HIDE DEF q
<1>6. q \o <<Done(ok)>> \in Seq(Message) /\ Handed(sh, q \o <<Done(ok)>>, w, b)
  BY <1>5, HandedDone
<1>7. Piece(<<>>, w, b, b)
  BY <1>2, <1>3 DEF Piece
<1>8. n <= b
  BY <1>2, <1>4
<1>9. Flow(w, sh, q \o <<Done(ok)>>, <<>>, <<>>, pp, n)
  BY <1>1, <1>6, <1>7, <1>8, Zenon DEF Flow
<1> QED BY <1>6, <1>9 DEF q

LEMMA FlowShows ==
  ASSUME NEW w \in Text, NEW sh \in Text, NEW ps \in Seq(Message), ps # <<>>, NEW bf, NEW ch, NEW pp, NEW n,
         Flow(w, sh, ps, bf, ch, pp, n)
  PROVE  /\ sh \o Head(ps).text \in Text /\ Tail(ps) \in Seq(Message)
         /\ Flow(w, sh \o Head(ps).text, Tail(ps), bf, ch, pp, n)
<1>1. PICK a \in Nat, b \in Nat, c \in Nat :
        /\ n <= a /\ Handed(sh, ps, w, a) /\ Piece(bf, w, a, b)
        /\ Cuts(ch, w, b, c) /\ Piece(pp, w, c, Len(w))
  BY DEF Flow
<1>2. /\ sh \o Head(ps).text \in Text /\ Tail(ps) \in Seq(Message)
      /\ Handed(sh \o Head(ps).text, Tail(ps), w, a)
  BY <1>1, HandedShows
<1> QED BY <1>1, <1>2, Zenon DEF Flow

\* A process that could not be started: only the result is posted.
LEMMA FlowNone ==
  ASSUME NEW w \in Text, NEW sh, NEW ps \in Seq(Message), NEW bf, NEW ch, NEW pp, NEW n, NEW ok \in BOOLEAN,
         Flow(w, sh, ps, bf, ch, pp, n)
  PROVE  ps \o <<Done(ok)>> \in Seq(Message) /\ Flow(w, sh, ps \o <<Done(ok)>>, bf, ch, pp, n)
<1>1. PICK a \in Nat, b \in Nat, c \in Nat :
        /\ n <= a /\ Handed(sh, ps, w, a) /\ Piece(bf, w, a, b)
        /\ Cuts(ch, w, b, c) /\ Piece(pp, w, c, Len(w))
  BY DEF Flow
<1>2. ps \o <<Done(ok)>> \in Seq(Message) /\ Handed(sh, ps \o <<Done(ok)>>, w, a)
  BY <1>1, HandedDone
<1> QED BY <1>1, <1>2, Zenon DEF Flow

\* A set of naturals that is not empty has a least element.
LEMMA LeastNat ==
  ASSUME NEW T, T \subseteq Nat, T # {}
  PROVE  \E x \in T : \A y \in T : x <= y
<1> DEFINE R == {r \in Nat \X Nat : r[1] < r[2]}
<1>1. IsWellFoundedOn(R, Nat)
  BY NatLessThanWellFounded, Zenon DEF OpToRel
<1>2. PICK x \in T : \A y \in T : ~(<<y, x>> \in R)
  BY <1>1, WFMin, Zenon
<1>3. ASSUME NEW y \in T, y < x PROVE <<y, x>> \in R
  BY <1>3
<1> HIDE DEF R
<1>4. \A y \in T : ~(y < x)
  BY <1>2, <1>3
<1> QED BY <1>4

\* The last break of a text is one of its places.
LEMMA LastBreakIs ==
  ASSUME NEW s \in Text, NEW partial
  PROVE  Cut(s, partial) \in 0..Len(s)
<1> DEFINE at == {i \in 1..Len(s) : s[i] < 0}
           N == Len(s)
           T == {N - i : i \in at}
<1>1. N \in Nat /\ at \subseteq 1..N
  BY TextIs
<1>2. LastBreak(s) = IF at = {} THEN 0 ELSE CHOOSE i \in at : \A j \in at : j <= i
  BY Zenon DEF LastBreak
<1> HIDE DEF at, N
<1>3. ASSUME at # {} PROVE \E i \in at : \A j \in at : j <= i
  <2>1. T \subseteq Nat /\ T # {}
    <3>1. \A i \in at : N - i \in Nat
      BY <1>1
    <3> QED BY <3>1, <1>3
  <2>2. PICK x \in T : \A y \in T : x <= y
    <3> HIDE DEF T
    <3> QED BY <2>1, LeastNat
  <2>3. PICK i \in at : x = N - i
    BY <2>2
  <2>4. ASSUME NEW j \in at PROVE j <= i
    <3>1. N - j \in T
      OBVIOUS
    <3>2. N - i <= N - j /\ i \in Nat /\ j \in Nat
      BY <3>1, <2>2, <2>3, <1>1
    <3> QED BY <3>2, <1>1
  <2> QED BY <2>4
<1>4. LastBreak(s) \in 0..N
  <2>1. CASE at = {}
    BY <2>1, <1>1, <1>2
  <2>2. CASE at # {}
    <3>1. LastBreak(s) = CHOOSE i \in at : \A j \in at : j <= i
      BY <2>2, <1>2, Zenon
    <3>2. (CHOOSE i \in at : \A j \in at : j <= i) \in at
      BY <2>2, <1>3, Zenon
    <3>3. LastBreak(s) \in at
      BY <3>1, <3>2, Zenon
    <3>4. 1..N \subseteq 0..N
      BY <1>1
    <3> QED BY <3>3, <3>4, <1>1, Zenon
  <2> QED BY <2>1, <2>2
<1>5. N \in 0..N
  BY <1>1
<1> QED BY <1>4, <1>5, Zenon DEF Cut, N

-----------------------------------------------------------------------------
(* The steps *)

LEMMA RunnerIs ==
  ASSUME FlashTypeOK, NEW r \in Runner
  PROVE  /\ stage[r] \in {"none", "start", "made", "check", "read", "end"}
         /\ alive[r] \subseteq Process /\ stubborn[r] \subseteq Process
         /\ known[r] \in BOOLEAN /\ eof[r] \in BOOLEAN
         /\ pipe[r] \in Text /\ chunks[r] \in Seq(Text) /\ buf[r] \in Text /\ posted[r] \in Seq(Message)
         /\ shown[r] \in Text /\ written[r] \in Text /\ atExit[r] \in 0..MaxWrite
  BY DEF FlashTypeOK

\* A step that leaves a runner's variables leaves what is said of it.
LEMMA RunnerStays ==
  ASSUME NEW r, RunnerOK(r), r > runs' => r > runs,
         stage'[r] = stage[r], known'[r] = known[r], alive'[r] = alive[r], eof'[r] = eof[r],
         pipe'[r] = pipe[r], written'[r] = written[r], atExit'[r] = atExit[r], shown'[r] = shown[r],
         posted'[r] = posted[r], buf'[r] = buf[r], chunks'[r] = chunks[r]
  PROVE  RunnerOK(r)'
<1>1. Promised(r)' = Promised(r)
  BY DEF Promised
<1>2. Life(stage[r], known[r], alive[r], eof[r], pipe[r])'
  BY DEF RunnerOK, Life
<1>3. Flow(written[r], shown[r], posted[r], buf[r], chunks[r], pipe[r], Promised(r))'
  BY <1>1 DEF RunnerOK
<1> QED BY <1>2, <1>3 DEF RunnerOK

LEMMA WindowIs ==
  ASSUME FlashTypeOK
  PROVE  /\ runs \in Nat /\ runs <= MaxRun /\ runner \in Nat /\ runner <= runs
         /\ stopping \in Nat /\ stopping <= runs
<1>1. runs \in 0..MaxRun /\ runner \in 0..runs /\ stopping \in 0..runs
  BY DEF FlashTypeOK
<1> QED BY <1>1, WriteNumbers

LEMMA ExceptIs ==
  ASSUME NEW S, NEW f \in [Runner -> S], NEW r \in Runner, NEW v \in S, NEW g, g = [f EXCEPT ![r] = v]
  PROVE  g \in [Runner -> S] /\ g[r] = v /\ \A q \in Runner : q # r => g[q] = f[q]
  OBVIOUS

\* A step of one runner.
LEMMA OneRunner ==
  ASSUME FlashInv, FlashTypeOK', NEW r \in Runner, RunnerOK(r)', runs' = runs,
         \A q \in Runner : q # r =>
           /\ stage'[q] = stage[q] /\ known'[q] = known[q] /\ alive'[q] = alive[q] /\ eof'[q] = eof[q]
           /\ pipe'[q] = pipe[q] /\ written'[q] = written[q] /\ atExit'[q] = atExit[q]
           /\ shown'[q] = shown[q] /\ posted'[q] = posted[q] /\ buf'[q] = buf[q] /\ chunks'[q] = chunks[q]
  PROVE  FlashInv'
<1>1. ASSUME NEW q \in Runner, q # r PROVE RunnerOK(q)'
  BY <1>1, RunnerStays DEF FlashInv
<1>2. \A q \in Runner : RunnerOK(q)'
  BY <1>1, Zenon
<1>3. Runner' = Runner
  BY DEF Runner
<1> QED BY <1>2, <1>3 DEF FlashInv

\* A step of the window only.
LEMMA WindowOnly ==
  ASSUME FlashInv, FlashTypeOK', runs' = runs, UNCHANGED <<procVars, pumpVars, workVars, shown>>
  PROVE  FlashInv'
<1>1. ASSUME NEW q \in Runner PROVE RunnerOK(q)'
  BY RunnerStays DEF FlashInv, procVars, pumpVars, workVars
<1>2. Runner' = Runner
  BY DEF Runner
<1> QED BY <1>1, <1>2 DEF FlashInv

LEMMA RefusedStep == ASSUME FlashInv, Refused PROVE FlashInv'
<1>1. FlashTypeOK'
  BY DEF Refused, FlashInv, FlashTypeOK, procVars, pumpVars, workVars, stopVars
<1> QED BY <1>1, WindowOnly DEF Refused

LEMMA StopFlashStep == ASSUME FlashInv, Stop PROVE FlashInv'
<1>1. FlashTypeOK /\ runner # 0
  BY DEF Stop, FlashInv
<1>2. runner \in Runner /\ runner \in 0..runs
  BY <1>1, WindowIs, WriteNumbers DEF Runner
<1>3. stopped' \in [Runner -> BOOLEAN]
  BY <1>1, <1>2, ExceptIs DEF Stop, Asked, FlashTypeOK
<1>4. FlashTypeOK'
  BY <1>1, <1>2, <1>3 DEF Stop, Asked, FlashInv, FlashTypeOK, procVars, pumpVars, workVars
<1> QED BY <1>4, WindowOnly DEF Stop

LEMMA ShutdownStep == ASSUME FlashInv, Shutdown PROVE FlashInv'
<1>1. FlashTypeOK
  BY DEF FlashInv
<1>2. /\ closed' = TRUE /\ runner' = 0
      /\ UNCHANGED <<runs, face, status, shown, procVars, pumpVars, workVars, killTimer, due>>
  BY DEF Shutdown
<1>3. stopping' \in 0..runs /\ stopped' \in [Runner -> BOOLEAN]
  <2>1. CASE runner = 0
    BY <1>1, <2>1 DEF Shutdown, FlashTypeOK
  <2>2. CASE runner # 0
    <3>1. stopping' = runner /\ stopped' = [stopped EXCEPT ![runner] = TRUE]
      BY <2>2 DEF Shutdown, Asked
    <3>2. runner \in Runner /\ runner \in 0..runs
      BY <1>1, <2>2, WindowIs, WriteNumbers DEF Runner
    <3> QED BY <1>1, <3>1, <3>2, ExceptIs DEF FlashTypeOK
  <2> QED BY <2>1, <2>2
<1>4. 0 \in 0..runs
  BY <1>1, WindowIs
<1>5. FlashTypeOK'
  BY <1>1, <1>2, <1>3, <1>4 DEF FlashTypeOK, procVars, pumpVars, workVars
<1> QED BY <1>5, WindowOnly DEF Shutdown

\* A runner that has not begun.
LEMMA RunStep == ASSUME FlashInv, Run PROVE FlashInv'
<1>0. FlashTypeOK
  BY DEF FlashInv
<1>7. PICK r \in Runner : r = runs + 1
  <2>1. runs < MaxRun
    BY DEF Run
  <2>2. runs + 1 \in Runner
    BY <1>0, <2>1, WindowIs, WriteNumbers DEF Runner
  <2> QED BY <2>2
<1>1. /\ runs < MaxRun /\ runs' = runs + 1 /\ runner' = runs + 1 /\ face' = Face(TRUE) /\ status' = "running"
      /\ stage' = [stage EXCEPT ![r] = "start"]
      /\ UNCHANGED <<closed, stopping, shown, procVars, pumpVars, known, buf, exited, posted, stopVars>>
  BY <1>7 DEF Run
<1>2. r \in Runner /\ runs \in Nat /\ runs \in 0..MaxRun /\ r > runs
  BY <1>0, <1>1, <1>7, WindowIs, WriteNumbers DEF Runner
<1>6. /\ stage' \in [Runner -> {"none", "start", "made", "check", "read", "end"}]
      /\ stage'[r] = "start" /\ \A q \in Runner : q # r => stage'[q] = stage[q]
  BY <1>0, <1>1, <1>2, ExceptIs DEF FlashTypeOK
<1>3. FlashTypeOK'
  <2>1. runs' \in 0..MaxRun /\ runner' \in 0..runs'
    BY <1>1, <1>2, <1>7, WriteNumbers
  <2>2. stopping' \in 0..runs'
    BY <1>0, <1>1, <1>2, WindowIs
  <2> QED BY <1>0, <1>1, <1>6, <2>1, <2>2 DEF FlashTypeOK, Face, procVars, pumpVars, stopVars
<1>4. ASSUME NEW q \in Runner PROVE RunnerOK(q)'
  <2>1. CASE q = r
    <3>0. ~(r > runs')
      BY <1>1, <1>2, <1>7
    <3>1. stage[r] = "none" /\ stage'[r] = "start" /\ ~(r > runs')
      BY <1>2, <1>6, <3>0 DEF FlashInv, RunnerOK
    <3>2. Promised(r) = 0 /\ Promised(r)' = 0
      BY <3>1 DEF Promised
    <3>3. /\ known' = known /\ alive' = alive /\ eof' = eof /\ pipe' = pipe /\ written' = written
          /\ atExit' = atExit /\ shown' = shown /\ posted' = posted /\ buf' = buf /\ chunks' = chunks
      BY <1>1 DEF procVars, pumpVars
    <3>4. RunnerOK(r)
      BY <1>2 DEF FlashInv
    <3>5. Life(stage[r], known[r], alive[r], eof[r], pipe[r])'
      BY <3>1, <3>3, <3>4 DEF RunnerOK, Life
    <3>6. Flow(written[r], shown[r], posted[r], buf[r], chunks[r], pipe[r], Promised(r))'
      BY <3>2, <3>3, <3>4 DEF RunnerOK
    <3>7. RunnerOK(r)'
      BY <3>1, <3>3, <3>4, <3>5, <3>6 DEF RunnerOK
    <3> QED BY <2>1, <3>7
  <2>2. CASE q # r
    <3>1. stage'[q] = stage[q]
      BY <1>6, <2>2
    <3>2. q > runs' => q > runs
      BY <1>1, <1>2, <1>7, WriteNumbers DEF Runner
    <3> QED BY <1>1, <3>1, <3>2, RunnerStays DEF FlashInv, procVars, pumpVars
  <2> QED BY <2>1, <2>2
<1>5. Runner' = Runner
  BY DEF Runner
<1> QED BY <1>3, <1>4, <1>5 DEF FlashInv

\* Processes end.
LEMMA Dies ==
  ASSUME FlashInv, FlashTypeOK', NEW r \in Runner, NEW A, A \subseteq alive[r],
         alive' = [alive EXCEPT ![r] = A],
         atExit' = [atExit EXCEPT ![r] = IF "shell" \in alive[r] /\ "shell" \notin A
                                         THEN Len(written[r]) ELSE @],
         UNCHANGED <<written, shown, pumpVars, workVars>>, runs' = runs
  PROVE  FlashInv'
<1>1. FlashTypeOK /\ RunnerOK(r)
  BY DEF FlashInv
<1> DEFINE X == IF "shell" \in alive[r] /\ "shell" \notin A THEN Len(written[r]) ELSE atExit[r]
<1>a. alive'[r] = A /\ \A q \in Runner : q # r => alive'[q] = alive[q]
  <2>1. alive \in [Runner -> SUBSET Process]
    BY <1>1 DEF FlashTypeOK
  <2> QED BY <2>1
<1>b. atExit'[r] = X /\ \A q \in Runner : q # r => atExit'[q] = atExit[q]
  <2>1. atExit \in [Runner -> 0..MaxWrite] /\ atExit' = [atExit EXCEPT ![r] = X]
    BY <1>1 DEF FlashTypeOK
  <2> HIDE DEF X
  <2> QED BY <2>1
<1>2. alive'[r] = A /\ atExit'[r] = X
      /\ \A q \in Runner : q # r => alive'[q] = alive[q] /\ atExit'[q] = atExit[q]
  BY <1>a, <1>b
<1>3. /\ stage' = stage /\ known' = known /\ eof' = eof /\ pipe' = pipe /\ written' = written
      /\ shown' = shown /\ posted' = posted /\ buf' = buf /\ chunks' = chunks
  BY DEF pumpVars, workVars
<1>4. Len(written[r]) \in Nat
  BY <1>1, RunnerIs, TextIs
<1>5. Promised(r)' = Promised(r)
  BY <1>1, <1>2, <1>3 DEF Promised, RunnerOK, Life
<1>6. Life(stage[r], known[r], alive[r], eof[r], pipe[r])'
  BY <1>1, <1>2, <1>3 DEF RunnerOK, Life
<1>7. Flow(written[r], shown[r], posted[r], buf[r], chunks[r], pipe[r], Promised(r))'
  BY <1>1, <1>3, <1>5 DEF RunnerOK
<1>8. atExit'[r] <= Len(written'[r])
  BY <1>1, <1>2, <1>3, <1>4 DEF RunnerOK
<1>9. RunnerOK(r)'
  BY <1>1, <1>3, <1>6, <1>7, <1>8 DEF RunnerOK
<1> QED BY <1>2, <1>3, <1>9, OneRunner

LEMMA KillIs ==
  ASSUME FlashInv, NEW r \in Runner, NEW force \in BOOLEAN, KillTree(r, force)
  PROVE  \E A \in SUBSET alive[r] :
           /\ alive' = [alive EXCEPT ![r] = A]
           /\ atExit' = [atExit EXCEPT ![r] = IF "shell" \in alive[r] /\ "shell" \notin A
                                              THEN Len(written[r]) ELSE @]
           /\ alive' \in [Runner -> SUBSET Process] /\ atExit' \in [Runner -> 0..MaxWrite]
           /\ UNCHANGED <<stubborn, written>>
<1> DEFINE A == IF force THEN {} ELSE alive[r] \cap stubborn[r]
<1>1. alive' = [alive EXCEPT ![r] = A] /\ UNCHANGED <<stubborn, written>>
      /\ atExit' = [atExit EXCEPT ![r] = IF "shell" \in alive[r] \ alive'[r] THEN Len(written[r]) ELSE @]
  BY Zenon DEF KillTree
<1>2. FlashTypeOK /\ A \subseteq alive[r] /\ alive[r] \subseteq Process
  BY RunnerIs DEF FlashInv
<1> HIDE DEF A
<1>7. alive \in [Runner -> SUBSET Process] /\ atExit \in [Runner -> 0..MaxWrite]
  BY <1>2 DEF FlashTypeOK
<1>3. alive'[r] = A
  BY <1>1, <1>7
<1>4. Len(written[r]) \in 0..MaxWrite
  <2>1. Len(written[r]) \in Nat /\ Len(written[r]) <= MaxWrite
    BY <1>2, RunnerIs, TextIs DEF FlashInv, RunnerOK
  <2> QED BY <2>1, WriteNumbers
<1>5. atExit' = [atExit EXCEPT ![r] = IF "shell" \in alive[r] /\ "shell" \notin A THEN Len(written[r]) ELSE @]
  BY <1>1, <1>3
<1>8. alive' \in [Runner -> SUBSET Process]
  BY <1>1, <1>2, <1>7
<1>6. atExit' \in [Runner -> 0..MaxWrite]
  BY <1>4, <1>5, <1>7
<1> QED BY <1>1, <1>2, <1>5, <1>6, <1>8

LEMMA KillTimerStep == ASSUME FlashInv, NEW r \in Runner, KillTimer(r) PROVE FlashInv'
<1>1. killTimer' = [killTimer EXCEPT ![r] = FALSE] /\ KillTree(r, TRUE)
      /\ UNCHANGED <<guiVars, pumpVars, workVars, stopped, due>>
  BY DEF KillTimer
<1>2. PICK A \in SUBSET alive[r] :
           /\ alive' = [alive EXCEPT ![r] = A]
           /\ atExit' = [atExit EXCEPT ![r] = IF "shell" \in alive[r] /\ "shell" \notin A
                                              THEN Len(written[r]) ELSE @]
           /\ alive' \in [Runner -> SUBSET Process] /\ atExit' \in [Runner -> 0..MaxWrite]
           /\ UNCHANGED <<stubborn, written>>
  BY <1>1, KillIs
<1>4. killTimer' \in [Runner -> BOOLEAN] /\ FlashTypeOK
  BY <1>1, ExceptIs DEF FlashInv, FlashTypeOK
<1>3. FlashTypeOK'
  BY <1>1, <1>2, <1>4 DEF FlashTypeOK, guiVars, pumpVars, workVars
<1> QED BY <1>1, <1>2, <1>3, Dies DEF guiVars

LEMMA StopKillsStep == ASSUME FlashInv, NEW r \in Runner, StopKills(r) PROVE FlashInv'
<1>1. stopping' = 0 /\ due' \subseteq due \cup {r}
      /\ UNCHANGED <<runner, runs, face, status, closed, shown, pumpVars, workVars, stopped>>
  BY DEF StopKills
<1>5. FlashTypeOK
  BY DEF FlashInv
<1>2. 0 \in 0..runs
  BY <1>5, WindowIs
<1>6. due' \subseteq Runner
  BY <1>1, <1>5 DEF FlashTypeOK
<1>3. CASE KillTree(r, FALSE) /\ killTimer' = [killTimer EXCEPT ![r] = TRUE]
  <2>1. PICK A \in SUBSET alive[r] :
           /\ alive' = [alive EXCEPT ![r] = A]
           /\ atExit' = [atExit EXCEPT ![r] = IF "shell" \in alive[r] /\ "shell" \notin A
                                              THEN Len(written[r]) ELSE @]
           /\ alive' \in [Runner -> SUBSET Process] /\ atExit' \in [Runner -> 0..MaxWrite]
           /\ UNCHANGED <<stubborn, written>>
    BY <1>3, KillIs
  <2>3. killTimer' \in [Runner -> BOOLEAN]
    BY <1>3, <1>5, ExceptIs DEF FlashTypeOK
  <2>2. FlashTypeOK'
    BY <1>1, <1>2, <1>5, <1>6, <2>1, <2>3 DEF FlashTypeOK, pumpVars, workVars
  <2> QED BY <1>1, <2>1, <2>2, Dies
<1>4. CASE UNCHANGED <<procVars, killTimer>>
  <2>1. FlashTypeOK'
    BY <1>1, <1>2, <1>4, <1>5, <1>6 DEF FlashTypeOK, procVars, pumpVars, workVars
  <2> QED BY <1>1, <1>4, <2>1, WindowOnly
<1> QED BY <1>3, <1>4 DEF StopKills

LEMMA ExitsStep == ASSUME FlashInv, NEW r \in Runner, NEW p \in Process, Exits(r, p) PROVE FlashInv'
<1> DEFINE A == alive[r] \ {p}
<1>1. p \in alive[r] /\ alive' = [alive EXCEPT ![r] = A]
      /\ atExit' = (IF p = "shell" THEN [atExit EXCEPT ![r] = Len(written[r])] ELSE atExit)
      /\ UNCHANGED <<guiVars, stubborn, written, pumpVars, workVars, stopVars>>
  BY Zenon DEF Exits
<1>2. FlashTypeOK /\ alive[r] \subseteq Process /\ Len(written[r]) \in 0..MaxWrite
  <2>1. Len(written[r]) \in Nat /\ Len(written[r]) <= MaxWrite /\ FlashTypeOK
    BY RunnerIs, TextIs DEF FlashInv, RunnerOK
  <2>2. Len(written[r]) \in 0..MaxWrite
    BY <2>1, WriteNumbers
  <2> QED BY <2>1, <2>2, RunnerIs
<1>3. atExit \in [Runner -> 0..MaxWrite] /\ alive \in [Runner -> SUBSET Process]
  BY <1>2 DEF FlashTypeOK
<1>4. atExit' = [atExit EXCEPT ![r] = IF "shell" \in alive[r] /\ "shell" \notin A THEN Len(written[r]) ELSE @]
  <2>1. CASE p = "shell"
    BY <2>1, <1>1
  <2>2. CASE p # "shell"
    <3>1. atExit = [atExit EXCEPT ![r] = atExit[r]]
      BY <1>3
    <3> QED BY <2>2, <3>1, <1>1
  <2> QED BY <2>1, <2>2
<1>8. alive' \in [Runner -> SUBSET Process]
  BY <1>1, <1>2, <1>3
<1>9. atExit' \in [Runner -> 0..MaxWrite]
  BY <1>2, <1>3, <1>4
<1>5. alive' \in [Runner -> SUBSET Process] /\ atExit' \in [Runner -> 0..MaxWrite]
  BY <1>8, <1>9
<1>6. A \subseteq alive[r]
  OBVIOUS
<1> HIDE DEF A
<1>7. FlashTypeOK'
  BY <1>1, <1>2, <1>5 DEF FlashTypeOK, guiVars, pumpVars, workVars, stopVars
<1> QED BY <1>1, <1>4, <1>6, <1>7, Dies DEF guiVars

LEMMA OnOutputStep == ASSUME FlashInv, NEW r \in Runner, OnOutput(r) PROVE FlashInv'
<1>1. FlashTypeOK /\ RunnerOK(r)
  BY DEF FlashInv
<1>2. /\ posted[r] # <<>> /\ posted' = [posted EXCEPT ![r] = Tail(posted[r])]
      /\ shown' = [shown EXCEPT ![r] = shown[r] \o Head(posted[r]).text]
      /\ UNCHANGED <<runner, runs, face, status, closed, stopping, procVars, pumpVars, known, stage, buf, exited, stopVars>>
  BY DEF OnOutput
<1>3. /\ shown[r] \o Head(posted[r]).text \in Text /\ Tail(posted[r]) \in Seq(Message)
      /\ Flow(written[r], shown[r] \o Head(posted[r]).text, Tail(posted[r]), buf[r], chunks[r], pipe[r], Promised(r))
  BY <1>1, <1>2, RunnerIs, FlowShows DEF RunnerOK
<1>4. posted \in [Runner -> Seq(Message)] /\ shown \in [Runner -> Text]
  BY <1>1 DEF FlashTypeOK
<1>5. /\ posted' \in [Runner -> Seq(Message)] /\ posted'[r] = Tail(posted[r])
      /\ \A q \in Runner : q # r => posted'[q] = posted[q]
  BY <1>2, <1>3, <1>4, ExceptIs
<1>6. /\ shown' \in [Runner -> Text] /\ shown'[r] = shown[r] \o Head(posted[r]).text
      /\ \A q \in Runner : q # r => shown'[q] = shown[q]
  BY <1>2, <1>3, <1>4, ExceptIs
<1>7. FlashTypeOK'
  BY <1>1, <1>2, <1>5, <1>6 DEF FlashTypeOK, procVars, pumpVars, stopVars
<1>8. /\ stage' = stage /\ known' = known /\ eof' = eof /\ pipe' = pipe /\ written' = written
      /\ alive' = alive /\ atExit' = atExit /\ buf' = buf /\ chunks' = chunks /\ runs' = runs
  BY <1>2 DEF procVars, pumpVars
<1>9. Promised(r)' = Promised(r)
  BY <1>8 DEF Promised
<1>10. RunnerOK(r)'
  <2>1. Flow(written[r], shown[r], posted[r], buf[r], chunks[r], pipe[r], Promised(r))'
    BY <1>3, <1>5, <1>6, <1>8, <1>9
  <2>2. Life(stage[r], known[r], alive[r], eof[r], pipe[r])'
    BY <1>1, <1>8 DEF RunnerOK, Life
  <2> QED BY <1>1, <1>8, <2>1, <2>2 DEF RunnerOK
<1> QED BY <1>5, <1>6, <1>7, <1>8, <1>10, OneRunner

\* What tells how it ended has no text.
LEMMA OnDoneStep == ASSUME FlashInv, NEW r \in Runner, OnDone(r) PROVE FlashInv'
<1>1. FlashTypeOK /\ RunnerOK(r)
  BY DEF FlashInv
<1>2. /\ posted[r] # <<>> /\ posted' = [posted EXCEPT ![r] = Tail(posted[r])]
      /\ Head(posted[r]).kind # "output"
      /\ UNCHANGED <<runs, closed, stopping, shown, procVars, pumpVars, known, stage, buf, exited, stopVars>>
  BY DEF OnDone
<1>3. Head(posted[r]) \in Message
  BY <1>1, <1>2, RunnerIs, TailSeq
<1>4. Head(posted[r]).text = <<>> /\ Head(posted[r]).kind \in {"ok", "failed"}
  BY <1>2, <1>3, MessageIs
<1>5. shown[r] \o <<>> = shown[r]
  BY <1>1, RunnerIs, ConcatEmptySeq DEF Text
<1>6. /\ Tail(posted[r]) \in Seq(Message)
      /\ Flow(written[r], shown[r], Tail(posted[r]), buf[r], chunks[r], pipe[r], Promised(r))
  <2>1. /\ Tail(posted[r]) \in Seq(Message)
        /\ Flow(written[r], shown[r] \o Head(posted[r]).text, Tail(posted[r]), buf[r], chunks[r], pipe[r], Promised(r))
    BY <1>1, <1>2, RunnerIs, FlowShows DEF RunnerOK
  <2> QED BY <1>4, <1>5, <2>1
<1>7. posted \in [Runner -> Seq(Message)]
  BY <1>1 DEF FlashTypeOK
<1>8. /\ posted' \in [Runner -> Seq(Message)] /\ posted'[r] = Tail(posted[r])
      /\ \A q \in Runner : q # r => posted'[q] = posted[q]
  BY <1>2, <1>6, <1>7, ExceptIs
<1>9. /\ runner' \in 0..runs /\ face' \in {"Stop", "Build & flash"}
      /\ status' \in {"", "refused", "running", "stopped", "ok", "failed"}
  <2>4. 0 \in 0..runs
    BY <1>1, WindowIs
  <2>1. runner \in 0..runs /\ 0 \in 0..runs
    BY <1>1, <2>4 DEF FlashTypeOK
  <2>2. CASE runner = 0
    BY <1>1, <2>1, <2>2 DEF OnDone, FlashTypeOK
  <2>3. CASE runner # 0
    <3>1. /\ runner' = 0 /\ face' = Face(FALSE)
          /\ status' = IF stopped[runner] THEN "stopped" ELSE Head(posted[r]).kind
      BY <2>3 DEF OnDone
    <3>2. face' \in {"Stop", "Build & flash"}
      BY <3>1 DEF Face
    <3>3. status' \in {"", "refused", "running", "stopped", "ok", "failed"}
      BY <3>1, <1>4
    <3> QED BY <2>1, <3>1, <3>2, <3>3
  <2> QED BY <2>2, <2>3
<1>10. FlashTypeOK'
  BY <1>1, <1>2, <1>8, <1>9 DEF FlashTypeOK, procVars, pumpVars, stopVars
<1>11. /\ stage' = stage /\ known' = known /\ eof' = eof /\ pipe' = pipe /\ written' = written
       /\ alive' = alive /\ atExit' = atExit /\ buf' = buf /\ chunks' = chunks /\ runs' = runs /\ shown' = shown
  BY <1>2 DEF procVars, pumpVars
<1>12. Promised(r)' = Promised(r)
  BY <1>11 DEF Promised
<1>13. RunnerOK(r)'
  <2>1. Flow(written[r], shown[r], posted[r], buf[r], chunks[r], pipe[r], Promised(r))'
    BY <1>6, <1>8, <1>11, <1>12
  <2>2. Life(stage[r], known[r], alive[r], eof[r], pipe[r])'
    BY <1>1, <1>11 DEF RunnerOK, Life
  <2> QED BY <1>1, <1>11, <2>1, <2>2 DEF RunnerOK
<1> QED BY <1>8, <1>10, <1>11, <1>13, OneRunner

LEMMA WritesStep == ASSUME FlashInv, NEW r \in Runner, Writes(r) PROVE FlashInv'
<1>1. FlashTypeOK /\ RunnerOK(r)
  BY DEF FlashInv
<1>2. Len(written[r]) \in Nat /\ written[r] \in Text /\ pipe[r] \in Text /\ chunks[r] \in Seq(Text)
  BY <1>1, RunnerIs, TextIs
<1> DEFINE k == Len(written[r]) + 1
<1>3. PICK e \in {k, -k} :
        /\ written' = [written EXCEPT ![r] = Append(written[r], e)]
        /\ pipe' = [pipe EXCEPT ![r] = Append(pipe[r], e)]
  <2>1. PICK sign \in {1, -1} :
          /\ written' = [written EXCEPT ![r] = Append(written[r], sign * k)]
          /\ pipe' = [pipe EXCEPT ![r] = Append(pipe[r], sign * k)]
    BY DEF Writes
  <2>2. sign * k \in {k, -k}
    BY <1>2
  <2> HIDE DEF k
  <2> QED BY <2>1, <2>2
<1>4. /\ alive[r] # {} /\ Len(written[r]) < MaxWrite
      /\ UNCHANGED <<guiVars, alive, stubborn, atExit, chunks, eof, workVars, stopVars>>
  BY DEF Writes
<1>5. e \in -MaxWrite..MaxWrite
  BY <1>2, <1>4, WriteNumbers
<1>6. /\ Append(written[r], e) \in Text /\ Append(pipe[r], e) \in Text
      /\ Len(Append(written[r], e)) = k /\ Append(written[r], e)[k] = e
      /\ \A i \in 1..Len(written[r]) : Append(written[r], e)[i] = written[r][i]
  BY <1>2, <1>5, AppendSeq DEF Text
<1>7. written \in [Runner -> Text] /\ pipe \in [Runner -> Text]
  BY <1>1 DEF FlashTypeOK
<1>8. /\ written' \in [Runner -> Text] /\ written'[r] = Append(written[r], e)
      /\ \A q \in Runner : q # r => written'[q] = written[q]
  BY <1>3, <1>6, <1>7, ExceptIs
<1>9. /\ pipe' \in [Runner -> Text] /\ pipe'[r] = Append(pipe[r], e)
      /\ \A q \in Runner : q # r => pipe'[q] = pipe[q]
  BY <1>3, <1>6, <1>7, ExceptIs
<1>10. FlashTypeOK'
  BY <1>1, <1>4, <1>8, <1>9 DEF FlashTypeOK, guiVars, workVars, stopVars
<1>11. /\ stage' = stage /\ known' = known /\ eof' = eof /\ posted' = posted /\ alive' = alive
       /\ atExit' = atExit /\ buf' = buf /\ chunks' = chunks /\ runs' = runs /\ shown' = shown
  BY <1>4 DEF guiVars, workVars
<1>12. Promised(r)' = Promised(r)
  BY <1>11 DEF Promised
<1>13. RunnerOK(r)'
  <2>1. Flow(written[r], shown[r], posted[r], buf[r], chunks[r], pipe[r], Promised(r))'
    <3>1. Flow(Append(written[r], e), shown[r], posted[r], buf[r], chunks[r], Append(pipe[r], e), Promised(r))
      BY <1>1, <1>2, <1>5, FlowWrites DEF RunnerOK
    <3> QED BY <3>1, <1>8, <1>9, <1>11, <1>12
  <2>2. Life(stage[r], known[r], alive[r], eof[r], pipe[r])'
    BY <1>1, <1>4, <1>11 DEF RunnerOK, Life
  <2>3. Numbered(Append(written[r], e))
    <3> HIDE DEF k
    <3>1. ASSUME NEW i \in 1..k PROVE Append(written[r], e)[i] \in {i, -i}
      <4>1. CASE i = k
        BY <4>1, <1>6
      <4>2. CASE i # k
        <5>1. i \in 1..Len(written[r])
          BY <4>2, <1>2 DEF k
        <5> QED BY <5>1, <1>1, <1>6 DEF RunnerOK, Numbered
      <4> QED BY <4>1, <4>2
    <3> QED BY <3>1, <1>6 DEF Numbered
  <2>4. atExit[r] <= k /\ k <= MaxWrite
    <3>1. atExit[r] \in 0..MaxWrite /\ atExit[r] <= Len(written[r])
      BY <1>1, RunnerIs DEF RunnerOK
    <3> QED BY <3>1, <1>2, <1>4, WriteNumbers
  <2>5. atExit'[r] <= Len(written'[r]) /\ Len(written'[r]) <= MaxWrite
    BY <2>4, <1>6, <1>8, <1>11
  <2>6. Numbered(written[r])'
    BY <2>3, <1>8 DEF Numbered
  <2>7. r > runs' => stage'[r] = "none"
    BY <1>1, <1>11 DEF RunnerOK
  <2> QED BY <2>1, <2>2, <2>5, <2>6, <2>7, Zenon DEF RunnerOK
<1> QED BY <1>8, <1>9, <1>10, <1>11, <1>13, OneRunner

LEMMA ToolStartsStep == ASSUME FlashInv, NEW r \in Runner, ToolStarts(r) PROVE FlashInv'
<1>1. FlashTypeOK /\ RunnerOK(r)
  BY DEF FlashInv
<1>2. /\ alive[r] = {"shell"} /\ alive' = [alive EXCEPT ![r] = Process]
      /\ UNCHANGED <<guiVars, stubborn, written, atExit, pumpVars, workVars, stopVars>>
  BY DEF ToolStarts
<1>3. alive \in [Runner -> SUBSET Process]
  BY <1>1 DEF FlashTypeOK
<1>4. /\ alive' \in [Runner -> SUBSET Process] /\ alive'[r] = Process
      /\ \A q \in Runner : q # r => alive'[q] = alive[q]
  BY <1>2, <1>3
<1>5. FlashTypeOK'
  BY <1>1, <1>2, <1>4 DEF FlashTypeOK, guiVars, pumpVars, workVars, stopVars
<1>6. /\ stage' = stage /\ known' = known /\ eof' = eof /\ posted' = posted /\ written' = written /\ pipe' = pipe
      /\ atExit' = atExit /\ buf' = buf /\ chunks' = chunks /\ runs' = runs /\ shown' = shown
  BY <1>2 DEF guiVars, pumpVars, workVars
<1>7. Promised(r)' = Promised(r)
  BY <1>6 DEF Promised
<1>8. RunnerOK(r)'
  <2>1. Flow(written[r], shown[r], posted[r], buf[r], chunks[r], pipe[r], Promised(r))'
    BY <1>1, <1>6, <1>7 DEF RunnerOK
  <2>2. Life(stage[r], known[r], alive[r], eof[r], pipe[r])'
    BY <1>1, <1>2, <1>6 DEF RunnerOK, Life
  <2> QED BY <1>1, <1>6, <2>1, <2>2 DEF RunnerOK
<1> QED BY <1>4, <1>5, <1>6, <1>8, OneRunner

LEMMA PumpStep == ASSUME FlashInv, NEW r \in Runner, Pump(r) PROVE FlashInv'
<1>1. FlashTypeOK /\ RunnerOK(r)
  BY DEF FlashInv
<1>2. /\ stage[r] \in {"read", "end"}
      /\ UNCHANGED <<guiVars, procVars, workVars, stopVars>>
  BY DEF Pump
<1>3. /\ stage' = stage /\ known' = known /\ alive' = alive /\ posted' = posted /\ written' = written
      /\ atExit' = atExit /\ buf' = buf /\ runs' = runs /\ shown' = shown
  BY <1>2 DEF guiVars, procVars, workVars
<1>4. Promised(r)' = Promised(r)
  BY <1>3 DEF Promised
<1>5. CASE /\ pipe[r] # <<>> /\ ~eof[r] /\ chunks' = [chunks EXCEPT ![r] = Append(chunks[r], pipe[r])]
           /\ pipe' = [pipe EXCEPT ![r] = <<>>] /\ eof' = eof
  <2>1. /\ Append(chunks[r], pipe[r]) \in Seq(Text)
        /\ Flow(written[r], shown[r], posted[r], buf[r], Append(chunks[r], pipe[r]), <<>>, Promised(r))
    BY <1>1, RunnerIs, FlowPumps, AppendSeq DEF RunnerOK
  <2>2. chunks \in [Runner -> Seq(Text)] /\ pipe \in [Runner -> Text]
    BY <1>1 DEF FlashTypeOK
  <2>3. /\ chunks' \in [Runner -> Seq(Text)] /\ chunks'[r] = Append(chunks[r], pipe[r])
        /\ \A q \in Runner : q # r => chunks'[q] = chunks[q]
    BY <1>5, <2>1, <2>2, ExceptIs
  <2>4. /\ pipe' \in [Runner -> Text] /\ pipe'[r] = <<>> /\ \A q \in Runner : q # r => pipe'[q] = pipe[q]
    BY <1>5, <2>2, EmptyText, ExceptIs
  <2>5. FlashTypeOK'
    BY <1>1, <1>2, <1>5, <2>3, <2>4 DEF FlashTypeOK, guiVars, procVars, workVars, stopVars
  <2>6. RunnerOK(r)'
    <3>1. Flow(written[r], shown[r], posted[r], buf[r], chunks[r], pipe[r], Promised(r))'
      BY <1>3, <1>4, <2>1, <2>3, <2>4
    <3>2. Life(stage[r], known[r], alive[r], eof[r], pipe[r])'
      BY <1>1, <1>3, <1>5 DEF RunnerOK, Life
    <3> QED BY <1>1, <1>3, <3>1, <3>2 DEF RunnerOK
  <2> QED BY <1>3, <1>5, <2>3, <2>4, <2>5, <2>6, OneRunner
<1>6. CASE /\ pipe[r] = <<>> /\ alive[r] = {} /\ eof' = [eof EXCEPT ![r] = TRUE] /\ UNCHANGED <<pipe, chunks>>
  <2>1. eof \in [Runner -> BOOLEAN]
    BY <1>1 DEF FlashTypeOK
  <2>2. eof' \in [Runner -> BOOLEAN] /\ eof'[r] = TRUE /\ \A q \in Runner : q # r => eof'[q] = eof[q]
    BY <1>6, <2>1, ExceptIs
  <2>3. FlashTypeOK'
    BY <1>1, <1>2, <1>6, <2>2 DEF FlashTypeOK, guiVars, procVars, workVars, stopVars
  <2>4. RunnerOK(r)'
    <3>1. Flow(written[r], shown[r], posted[r], buf[r], chunks[r], pipe[r], Promised(r))'
      BY <1>1, <1>3, <1>4, <1>6 DEF RunnerOK
    <3>2. Life(stage[r], known[r], alive[r], eof[r], pipe[r])'
      BY <1>1, <1>2, <1>3, <1>6, <2>2 DEF RunnerOK, Life
    <3> QED BY <1>1, <1>3, <3>1, <3>2 DEF RunnerOK
  <2> QED BY <1>3, <1>6, <2>2, <2>3, <2>4, OneRunner
<1> QED BY <1>5, <1>6 DEF Pump

LEMMA SpawnsStep == ASSUME FlashInv, NEW r \in Runner, Spawns(r) PROVE FlashInv'
<1>1. FlashTypeOK /\ RunnerOK(r)
  BY DEF FlashInv
<1>2. /\ stage[r] = "start"
      /\ UNCHANGED <<guiVars, written, atExit, pumpVars, known, buf, exited, stopVars>>
  BY DEF Spawns
<1>3. /\ known' = known /\ written' = written /\ pipe' = pipe /\ chunks' = chunks /\ eof' = eof
      /\ atExit' = atExit /\ buf' = buf /\ runs' = runs /\ shown' = shown
  BY <1>2 DEF guiVars, pumpVars
<1>4. ~known[r] /\ alive[r] = {} /\ ~eof[r] /\ ~(r > runs)
  BY <1>1, <1>2 DEF RunnerOK, Life
<1>5. Promised(r) = 0 /\ Promised(r)' = 0
  BY <1>3, <1>4 DEF Promised
<1>6. stage \in [Runner -> {"none", "start", "made", "check", "read", "end"}]
      /\ alive \in [Runner -> SUBSET Process] /\ stubborn \in [Runner -> SUBSET Process]
      /\ posted \in [Runner -> Seq(Message)]
  BY <1>1 DEF FlashTypeOK
<1>7. CASE /\ stage' = [stage EXCEPT ![r] = "made"] /\ alive' = [alive EXCEPT ![r] = {"shell"}]
           /\ \E s \in SUBSET Process : stubborn' = [stubborn EXCEPT ![r] = s]
           /\ UNCHANGED posted
  <2>1. /\ stage' \in [Runner -> {"none", "start", "made", "check", "read", "end"}] /\ stage'[r] = "made"
        /\ \A q \in Runner : q # r => stage'[q] = stage[q]
    BY <1>6, <1>7, ExceptIs
  <2>2. /\ alive' \in [Runner -> SUBSET Process] /\ alive'[r] = {"shell"}
        /\ \A q \in Runner : q # r => alive'[q] = alive[q]
    <3>1. {"shell"} \in SUBSET Process
      BY DEF Process
    <3> QED BY <1>6, <1>7, <3>1
  <2>3. stubborn' \in [Runner -> SUBSET Process]
    BY <1>6, <1>7
  <2>4. FlashTypeOK'
    BY <1>1, <1>2, <1>7, <2>1, <2>2, <2>3 DEF FlashTypeOK, guiVars, pumpVars, stopVars
  <2>5. RunnerOK(r)'
    <3>1. Flow(written[r], shown[r], posted[r], buf[r], chunks[r], pipe[r], Promised(r))'
      BY <1>1, <1>3, <1>5, <1>7 DEF RunnerOK
    <3>2. Life(stage[r], known[r], alive[r], eof[r], pipe[r])'
      BY <1>1, <1>3, <1>4, <2>1, <2>2 DEF RunnerOK, Life
    <3> QED BY <1>1, <1>3, <1>4, <3>1, <3>2 DEF RunnerOK
  <2> QED BY <1>3, <1>7, <2>1, <2>2, <2>4, <2>5, OneRunner
<1>8. CASE /\ stage' = [stage EXCEPT ![r] = "end"] /\ posted' = [posted EXCEPT ![r] = posted[r] \o <<Done(FALSE)>>]
           /\ UNCHANGED <<alive, stubborn>>
  <2>1. /\ stage' \in [Runner -> {"none", "start", "made", "check", "read", "end"}] /\ stage'[r] = "end"
        /\ \A q \in Runner : q # r => stage'[q] = stage[q]
    BY <1>6, <1>8, ExceptIs
  <2>2. /\ posted[r] \o <<Done(FALSE)>> \in Seq(Message)
        /\ Flow(written[r], shown[r], posted[r] \o <<Done(FALSE)>>, buf[r], chunks[r], pipe[r], Promised(r))
    BY <1>1, RunnerIs, FlowNone DEF RunnerOK
  <2>3. /\ posted' \in [Runner -> Seq(Message)] /\ posted'[r] = posted[r] \o <<Done(FALSE)>>
        /\ \A q \in Runner : q # r => posted'[q] = posted[q]
    BY <1>6, <1>8, <2>2, ExceptIs
  <2>4. FlashTypeOK'
    BY <1>1, <1>2, <1>8, <2>1, <2>3 DEF FlashTypeOK, guiVars, pumpVars, stopVars
  <2>5. RunnerOK(r)'
    <3>1. Flow(written[r], shown[r], posted[r], buf[r], chunks[r], pipe[r], Promised(r))'
      BY <1>3, <1>5, <2>2, <2>3
    <3>2. Life(stage[r], known[r], alive[r], eof[r], pipe[r])'
      BY <1>1, <1>3, <1>4, <1>8, <2>1 DEF RunnerOK, Life
    <3> QED BY <1>1, <1>3, <1>4, <3>1, <3>2 DEF RunnerOK
  <2> QED BY <1>3, <1>8, <2>1, <2>3, <2>4, <2>5, OneRunner
<1> QED BY <1>7, <1>8 DEF Spawns

LEMMA AssignsStep == ASSUME FlashInv, NEW r \in Runner, Assigns(r) PROVE FlashInv'
<1>1. FlashTypeOK /\ RunnerOK(r)
  BY DEF FlashInv
<1>2. /\ stage[r] = "made" /\ stage' = [stage EXCEPT ![r] = "check"] /\ known' = [known EXCEPT ![r] = TRUE]
      /\ UNCHANGED <<guiVars, procVars, pumpVars, buf, exited, posted, stopVars>>
  BY DEF Assigns
<1>3. /\ stage' \in [Runner -> {"none", "start", "made", "check", "read", "end"}] /\ stage'[r] = "check"
      /\ \A q \in Runner : q # r => stage'[q] = stage[q]
  BY <1>1, <1>2, ExceptIs DEF FlashTypeOK
<1>4. known' \in [Runner -> BOOLEAN] /\ \A q \in Runner : q # r => known'[q] = known[q]
  BY <1>1, <1>2, ExceptIs DEF FlashTypeOK
<1>5. FlashTypeOK'
  BY <1>1, <1>2, <1>3, <1>4 DEF FlashTypeOK, guiVars, procVars, pumpVars, stopVars
<1>6. /\ eof' = eof /\ posted' = posted /\ written' = written /\ pipe' = pipe /\ alive' = alive
      /\ atExit' = atExit /\ buf' = buf /\ chunks' = chunks /\ runs' = runs /\ shown' = shown
  BY <1>2 DEF guiVars, procVars, pumpVars
<1>7. Promised(r) = 0 /\ Promised(r)' = 0
  BY <1>2, <1>3 DEF Promised
<1>8. RunnerOK(r)'
  <2>1. Flow(written[r], shown[r], posted[r], buf[r], chunks[r], pipe[r], Promised(r))'
    BY <1>1, <1>6, <1>7 DEF RunnerOK
  <2>2. Life(stage[r], known[r], alive[r], eof[r], pipe[r])'
    BY <1>1, <1>2, <1>3, <1>6 DEF RunnerOK, Life
  <2> QED BY <1>1, <1>2, <1>6, <2>1, <2>2 DEF RunnerOK
<1> QED BY <1>3, <1>4, <1>5, <1>6, <1>8, OneRunner

LEMMA ChecksStep == ASSUME FlashInv, NEW r \in Runner, Checks(r) PROVE FlashInv'
<1>1. FlashTypeOK /\ RunnerOK(r)
  BY DEF FlashInv
<1>2. /\ stage[r] = "check" /\ stage' = [stage EXCEPT ![r] = "read"]
      /\ UNCHANGED <<guiVars, pumpVars, known, buf, exited, posted, stopVars>>
  BY DEF Checks
<1>3. /\ stage' \in [Runner -> {"none", "start", "made", "check", "read", "end"}] /\ stage'[r] = "read"
      /\ \A q \in Runner : q # r => stage'[q] = stage[q]
  BY <1>1, <1>2, ExceptIs DEF FlashTypeOK
<1>4. /\ eof' = eof /\ posted' = posted /\ pipe' = pipe /\ known' = known
      /\ buf' = buf /\ chunks' = chunks /\ runs' = runs /\ shown' = shown
  BY <1>2 DEF guiVars, pumpVars
<1>5. Promised(r) = 0 /\ Promised(r)' = 0
  BY <1>2, <1>3 DEF Promised
<1>6. /\ alive' \in [Runner -> SUBSET Process] /\ atExit' \in [Runner -> 0..MaxWrite]
      /\ stubborn' = stubborn /\ written' = written
      /\ alive'[r] \subseteq alive[r] /\ atExit'[r] \in {atExit[r], Len(written[r])}
      /\ \A q \in Runner : q # r => alive'[q] = alive[q] /\ atExit'[q] = atExit[q]
  <2>1. CASE KillTree(r, TRUE)
    <3>1. PICK A \in SUBSET alive[r] :
           /\ alive' = [alive EXCEPT ![r] = A]
           /\ atExit' = [atExit EXCEPT ![r] = IF "shell" \in alive[r] /\ "shell" \notin A
                                              THEN Len(written[r]) ELSE @]
           /\ alive' \in [Runner -> SUBSET Process] /\ atExit' \in [Runner -> 0..MaxWrite]
           /\ UNCHANGED <<stubborn, written>>
      BY <2>1, KillIs
    <3>2. alive \in [Runner -> SUBSET Process] /\ atExit \in [Runner -> 0..MaxWrite]
      BY <1>1 DEF FlashTypeOK
    <3>3. alive'[r] = A /\ \A q \in Runner : q # r => alive'[q] = alive[q]
      BY <3>1, <3>2
    <3>4. atExit'[r] \in {atExit[r], Len(written[r])} /\ \A q \in Runner : q # r => atExit'[q] = atExit[q]
      BY <3>1, <3>2
    <3> QED BY <3>1, <3>3, <3>4
  <2>2. CASE UNCHANGED procVars
    BY <1>1, <2>2 DEF FlashTypeOK, procVars
  <2> QED BY <2>1, <2>2 DEF Checks
<1>7. FlashTypeOK'
  BY <1>1, <1>2, <1>3, <1>6 DEF FlashTypeOK, guiVars, pumpVars, stopVars
<1>8. RunnerOK(r)'
  <2>1. Flow(written[r], shown[r], posted[r], buf[r], chunks[r], pipe[r], Promised(r))'
    BY <1>1, <1>4, <1>5, <1>6 DEF RunnerOK
  <2>2. Life(stage[r], known[r], alive[r], eof[r], pipe[r])'
    BY <1>1, <1>2, <1>3, <1>4, <1>6 DEF RunnerOK, Life
  <2>3. ~(r > runs')
    BY <1>1, <1>2, <1>4 DEF RunnerOK
  <2>4. Len(written[r]) \in Nat
    BY <1>1, RunnerIs, TextIs
  <2>5. atExit'[r] <= Len(written'[r])
    BY <1>1, <1>6, <2>4 DEF RunnerOK
  <2> QED BY <1>1, <1>6, <2>1, <2>2, <2>3, <2>5 DEF RunnerOK
<1> QED BY <1>3, <1>4, <1>6, <1>7, <1>8, OneRunner

\* The lines of a text go, the rest of it stays in the buffer.
LEMMA FlowLines ==
  ASSUME NEW w \in Text, Numbered(w), NEW sh, NEW ps \in Seq(Message), NEW s \in Text, NEW partial,
         NEW ch, NEW pp, Flow(w, sh, ps, s, ch, pp, 0)
  PROVE  /\ ps \o Output(SubSeq(s, 1, Cut(s, partial))) \o <<>> \in Seq(Message)
         /\ SubSeq(s, Cut(s, partial) + 1, Len(s)) \in Text
         /\ Flow(w, sh, ps \o Output(SubSeq(s, 1, Cut(s, partial))) \o <<>>,
                 SubSeq(s, Cut(s, partial) + 1, Len(s)), ch, pp, 0)
<1> DEFINE q == ps \o Output(SubSeq(s, 1, Cut(s, partial)))
<1>1. Cut(s, partial) \in 0..Len(s)
  BY LastBreakIs
<1>2. /\ q \in Seq(Message) /\ SubSeq(s, Cut(s, partial) + 1, Len(s)) \in Text
      /\ Flow(w, sh, q, SubSeq(s, Cut(s, partial) + 1, Len(s)), ch, pp, 0)
  BY <1>1, FlowEmits
<1> HIDE DEF q
<1>3. q \o <<>> = q
  BY <1>2, ConcatEmptySeq
<1>4. q \o <<>> \in Seq(Message) /\ Flow(w, sh, q \o <<>>, SubSeq(s, Cut(s, partial) + 1, Len(s)), ch, pp, 0)
  BY <1>2, <1>3
<1> QED BY <1>2, <1>4 DEF q

\* A turn of the loop: some messages are posted, the buffer and the queue change.
LEMMA LoopStep ==
  ASSUME FlashInv, NEW r \in Runner, NEW ps \in Seq(Message), NEW bf \in Text, NEW ch \in Seq(Text),
         stage[r] = "read", Flow(written[r], shown[r], ps, bf, ch, pipe[r], 0),
         posted' = [posted EXCEPT ![r] = ps], buf' = [buf EXCEPT ![r] = bf],
         chunks' = [chunks EXCEPT ![r] = ch], exited' \in [Runner -> BOOLEAN],
         UNCHANGED <<guiVars, procVars, pipe, eof, known, stage, stopVars>>
  PROVE  FlashInv'
<1>1. FlashTypeOK /\ RunnerOK(r)
  BY DEF FlashInv
<1>2. posted \in [Runner -> Seq(Message)] /\ buf \in [Runner -> Text] /\ chunks \in [Runner -> Seq(Text)]
  BY <1>1 DEF FlashTypeOK
<1>3. posted' \in [Runner -> Seq(Message)] /\ posted'[r] = ps /\ \A q \in Runner : q # r => posted'[q] = posted[q]
  BY <1>2, ExceptIs
<1>4. buf' \in [Runner -> Text] /\ buf'[r] = bf /\ \A q \in Runner : q # r => buf'[q] = buf[q]
  BY <1>2, ExceptIs
<1>5. chunks' \in [Runner -> Seq(Text)] /\ chunks'[r] = ch /\ \A q \in Runner : q # r => chunks'[q] = chunks[q]
  BY <1>2, ExceptIs
<1>6. FlashTypeOK'
  BY <1>1, <1>3, <1>4, <1>5 DEF FlashTypeOK, guiVars, procVars, stopVars
<1>7. /\ stage' = stage /\ eof' = eof /\ alive' = alive /\ pipe' = pipe /\ known' = known
      /\ atExit' = atExit /\ written' = written /\ runs' = runs /\ shown' = shown
  BY DEF guiVars, procVars
<1>8. Promised(r)' = 0
  BY <1>7 DEF Promised
<1>9. RunnerOK(r)'
  <2>1. Flow(written[r], shown[r], posted[r], buf[r], chunks[r], pipe[r], Promised(r))'
    BY <1>3, <1>4, <1>5, <1>7, <1>8
  <2>2. Life(stage[r], known[r], alive[r], eof[r], pipe[r])'
    BY <1>1, <1>7 DEF RunnerOK, Life
  <2> QED BY <1>1, <1>7, <2>1, <2>2 DEF RunnerOK
<1> QED BY <1>3, <1>4, <1>5, <1>6, <1>7, <1>9, OneRunner

LEMMA TurnsStep == ASSUME FlashInv, NEW r \in Runner, Turns(r) PROVE FlashInv'
<1>1. FlashTypeOK /\ RunnerOK(r)
  BY DEF FlashInv
<1>2. /\ stage[r] = "read" /\ exited' = [exited EXCEPT ![r] = "shell" \notin alive[r]]
      /\ UNCHANGED <<guiVars, procVars, pipe, eof, known, stage, stopVars>>
  BY DEF Turns
<1>3. exited' \in [Runner -> BOOLEAN]
  BY <1>1, <1>2, ExceptIs DEF FlashTypeOK
<1>4. /\ Numbered(written[r]) /\ Promised(r) = 0
      /\ Flow(written[r], shown[r], posted[r], buf[r], chunks[r], pipe[r], 0)
  <2>1. Promised(r) = 0
    BY <1>2 DEF Promised
  <2> QED BY <1>1, <2>1 DEF RunnerOK
<1>5. written[r] \in Text /\ posted[r] \in Seq(Message) /\ buf[r] \in Text /\ chunks[r] \in Seq(Text)
  BY <1>1, RunnerIs
<1>6. CASE chunks[r] # <<>> /\ chunks' = [chunks EXCEPT ![r] = Tail(chunks[r])]
           /\ Emits(r, buf[r] \o Head(chunks[r]), FALSE, <<>>)
  <2>1. PICK s : s = buf[r] \o Head(chunks[r])
    OBVIOUS
  <2>2. Head(chunks[r]) \in Text /\ Tail(chunks[r]) \in Seq(Text)
    BY <1>5, <1>6, TailSeq
  <2>3. s \in Text
    BY <1>5, <2>1, <2>2, ConcatSeq DEF Text
  <2>4. Flow(written[r], shown[r], posted[r], s, Tail(chunks[r]), pipe[r], 0)
    BY <1>4, <1>5, <1>6, <2>1, FlowGets
  <2>5. /\ posted' = [posted EXCEPT ![r] = posted[r] \o Output(SubSeq(s, 1, Cut(s, FALSE))) \o <<>>]
        /\ buf' = [buf EXCEPT ![r] = SubSeq(s, Cut(s, FALSE) + 1, Len(s))]
    BY <1>6, <2>1, Zenon DEF Emits
  <2>6. /\ posted[r] \o Output(SubSeq(s, 1, Cut(s, FALSE))) \o <<>> \in Seq(Message)
        /\ SubSeq(s, Cut(s, FALSE) + 1, Len(s)) \in Text
        /\ Flow(written[r], shown[r], posted[r] \o Output(SubSeq(s, 1, Cut(s, FALSE))) \o <<>>,
                SubSeq(s, Cut(s, FALSE) + 1, Len(s)), Tail(chunks[r]), pipe[r], 0)
    BY <1>4, <1>5, <2>3, <2>4, FlowLines
  <2> QED BY <1>2, <1>3, <1>6, <2>2, <2>5, <2>6, LoopStep, Zenon
<1>7. CASE chunks[r] = <<>> /\ chunks' = chunks /\ \E still \in BOOLEAN : Emits(r, buf[r], still, <<>>)
  <2>1. PICK still \in BOOLEAN : Emits(r, buf[r], still, <<>>)
    BY <1>7
  <2>2. PICK s \in Text : s = buf[r]
    BY <1>5
  <2>5. /\ posted' = [posted EXCEPT ![r] = posted[r] \o Output(SubSeq(s, 1, Cut(s, still))) \o <<>>]
        /\ buf' = [buf EXCEPT ![r] = SubSeq(s, Cut(s, still) + 1, Len(s))]
    BY <2>1, <2>2, Zenon DEF Emits
  <2>6. /\ posted[r] \o Output(SubSeq(s, 1, Cut(s, still))) \o <<>> \in Seq(Message)
        /\ SubSeq(s, Cut(s, still) + 1, Len(s)) \in Text
        /\ Flow(written[r], shown[r], posted[r] \o Output(SubSeq(s, 1, Cut(s, still))) \o <<>>,
                SubSeq(s, Cut(s, still) + 1, Len(s)), chunks[r], pipe[r], 0)
    BY <1>4, <1>5, <2>2, FlowLines
  <2>7. chunks' = [chunks EXCEPT ![r] = chunks[r]]
    BY <1>1, <1>7 DEF FlashTypeOK
  <2> QED BY <1>2, <1>3, <1>5, <2>5, <2>6, <2>7, LoopStep, Zenon
<1>8. \/ /\ chunks[r] # <<>> /\ chunks' = [chunks EXCEPT ![r] = Tail(chunks[r])]
         /\ Emits(r, buf[r] \o Head(chunks[r]), FALSE, <<>>)
      \/ /\ chunks[r] = <<>> /\ chunks' = chunks /\ \E still \in BOOLEAN : Emits(r, buf[r], still, <<>>)
  BY Zenon DEF Turns
<1> QED BY <1>6, <1>7, <1>8

LEMMA FlowLess ==
  ASSUME NEW w, NEW sh, NEW ps, NEW bf, NEW ch, NEW pp, NEW n \in Nat, Flow(w, sh, ps, bf, ch, pp, n)
  PROVE  Flow(w, sh, ps, bf, ch, pp, 0)
<1>1. PICK a \in Nat, b \in Nat, c \in Nat :
        /\ n <= a /\ Handed(sh, ps, w, a) /\ Piece(bf, w, a, b)
        /\ Cuts(ch, w, b, c) /\ Piece(pp, w, c, Len(w))
  BY DEF Flow
<1>2. 0 <= a
  OBVIOUS
<1> QED BY <1>1, <1>2, Zenon DEF Flow

\* The whole of a text.
LEMMA WholeText ==
  ASSUME NEW s \in Text
  PROVE  Cut(s, TRUE) = Len(s) /\ SubSeq(s, 1, Len(s)) = s /\ SubSeq(s, Len(s) + 1, Len(s)) = <<>>
<1>1. Len(s) \in Nat /\ Len(s) \in 0..Len(s)
  BY TextIs
<1>2. /\ SubSeq(s, 1, Len(s)) \in Text /\ Len(SubSeq(s, 1, Len(s))) = Len(s)
      /\ \A i \in 1..Len(s) : SubSeq(s, 1, Len(s))[i] = s[i]
      /\ SubSeq(s, Len(s) + 1, Len(s)) \in Text /\ Len(SubSeq(s, Len(s) + 1, Len(s))) = Len(s) - Len(s)
  BY <1>1, SubSeqText
<1>3. SubSeq(s, 1, Len(s)) = s
  <2> DEFINE t == SubSeq(s, 1, Len(s))
  <2>1. t \in Seq(-MaxWrite..MaxWrite) /\ s \in Seq(-MaxWrite..MaxWrite) /\ Len(t) = Len(s)
        /\ \A i \in 1..Len(s) : t[i] = s[i]
    BY <1>2 DEF Text
  <2> HIDE DEF t
  <2>2. t = s
    BY <2>1, SeqEqual
  <2> QED BY <2>2 DEF t
<1>4. SubSeq(s, Len(s) + 1, Len(s)) = <<>>
  <2> DEFINE t == SubSeq(s, Len(s) + 1, Len(s))
  <2>1. t \in Seq(-MaxWrite..MaxWrite) /\ Len(t) = 0
    BY <1>1, <1>2 DEF Text
  <2> HIDE DEF t
  <2>2. t = <<>>
    BY <2>1
  <2> QED BY <2>2 DEF t
<1> QED BY <1>3, <1>4 DEF Cut

LEMMA EndsStep == ASSUME FlashInv, NEW r \in Runner, Ends(r) PROVE FlashInv'
<1>1. FlashTypeOK /\ RunnerOK(r)
  BY DEF FlashInv
<1>2. /\ stage[r] = "read" /\ "shell" \notin alive[r] /\ chunks[r] = <<>>
      /\ stage' = [stage EXCEPT ![r] = "end"]
      /\ UNCHANGED <<guiVars, procVars, pumpVars, known, exited, stopVars>>
  BY DEF Ends, Drained
<1>3. written[r] \in Text /\ posted[r] \in Seq(Message) /\ pipe[r] \in Text
      /\ Numbered(written[r]) /\ Promised(r) = 0
  <2>1. Promised(r) = 0
    BY <1>2 DEF Promised
  <2> QED BY <1>1, <2>1, RunnerIs DEF RunnerOK
<1>4. PICK s \in Text : s = buf[r]
  BY <1>1, RunnerIs
<1>5. PICK ok \in BOOLEAN : Emits(r, buf[r], TRUE, <<Done(ok)>>)
  BY DEF Ends
<1>6. /\ posted' = [posted EXCEPT ![r] = posted[r] \o Output(s) \o <<Done(ok)>>]
      /\ buf' = [buf EXCEPT ![r] = <<>>]
  <2>1. /\ posted' = [posted EXCEPT ![r] = posted[r] \o Output(SubSeq(s, 1, Cut(s, TRUE))) \o <<Done(ok)>>]
        /\ buf' = [buf EXCEPT ![r] = SubSeq(s, Cut(s, TRUE) + 1, Len(s))]
    BY <1>4, <1>5, Zenon DEF Emits
  <2>2. Cut(s, TRUE) = Len(s) /\ SubSeq(s, 1, Len(s)) = s /\ SubSeq(s, Len(s) + 1, Len(s)) = <<>>
    BY WholeText
  <2> QED BY <2>1, <2>2, Zenon
<1>7. pipe[r] = <<>> \/ \A i \in 1..Len(pipe[r]) : Number(pipe[r][i]) > atExit[r]
  BY <1>1 DEF Ends, Drained, RunnerOK, Life
<1>8. atExit[r] \in Nat /\ atExit[r] <= Len(written[r])
  <2>1. atExit[r] \in 0..MaxWrite
    BY <1>1, RunnerIs
  <2> QED BY <1>1, <2>1, WriteNumbers DEF RunnerOK
<1> DEFINE q == posted[r] \o Output(s) \o <<Done(ok)>>
<1>9. q \in Seq(Message) /\ Flow(written[r], shown[r], q, <<>>, <<>>, pipe[r], atExit[r])
  <2>1. Flow(written[r], shown[r], posted[r], s, <<>>, pipe[r], 0)
    BY <1>1, <1>2, <1>3, <1>4 DEF RunnerOK
  <2> QED BY <1>3, <1>7, <1>8, <2>1, FlowEnds
<1>10. PICK ps \in Seq(Message) : ps = q
  BY <1>9
<1> HIDE DEF q
<1>11. /\ stage' \in [Runner -> {"none", "start", "made", "check", "read", "end"}] /\ stage'[r] = "end"
       /\ \A o \in Runner : o # r => stage'[o] = stage[o]
  BY <1>1, <1>2, ExceptIs DEF FlashTypeOK
<1>12. posted' = [posted EXCEPT ![r] = ps]
  BY <1>6, <1>10 DEF q
<1>13. /\ posted' \in [Runner -> Seq(Message)] /\ posted'[r] = ps
       /\ \A o \in Runner : o # r => posted'[o] = posted[o]
  BY ZenonT(40), <1>1, <1>12, ExceptIs DEF FlashTypeOK
<1>14. buf' \in [Runner -> Text] /\ buf'[r] = <<>> /\ \A o \in Runner : o # r => buf'[o] = buf[o]
  BY <1>1, <1>6, EmptyText, ExceptIs DEF FlashTypeOK
<1>15. FlashTypeOK'
  BY <1>1, <1>2, <1>11, <1>13, <1>14 DEF FlashTypeOK, guiVars, procVars, pumpVars, stopVars
<1>16. /\ eof' = eof /\ alive' = alive /\ pipe' = pipe /\ known' = known /\ chunks' = chunks
       /\ atExit' = atExit /\ written' = written /\ runs' = runs /\ shown' = shown
  BY <1>2 DEF guiVars, procVars, pumpVars
<1>17. Flow(written[r], shown[r], ps, <<>>, <<>>, pipe[r], Promised(r)')
  <2>1. Promised(r)' \in {0, atExit[r]}
    BY <1>16 DEF Promised
  <2>2. Flow(written[r], shown[r], ps, <<>>, <<>>, pipe[r], atExit[r])
    BY <1>9, <1>10
  <2>3. Flow(written[r], shown[r], ps, <<>>, <<>>, pipe[r], 0)
    BY <2>2, <1>8, FlowLess
  <2> QED BY <2>1, <2>2, <2>3
<1>18. RunnerOK(r)'
  <2>1. Flow(written[r], shown[r], posted[r], buf[r], chunks[r], pipe[r], Promised(r))'
    BY <1>2, <1>13, <1>14, <1>16, <1>17
  <2>2. Life(stage[r], known[r], alive[r], eof[r], pipe[r])'
    BY <1>1, <1>2, <1>11, <1>16 DEF RunnerOK, Life
  <2>3. ~(r > runs')
    BY <1>1, <1>2, <1>16 DEF RunnerOK
  <2> QED BY <1>1, <1>16, <2>1, <2>2, <2>3 DEF RunnerOK
<1> QED BY <1>11, <1>13, <1>14, <1>15, <1>16, <1>18, OneRunner

-----------------------------------------------------------------------------
LEMMA NothingFlows == Flow(<<>>, <<>>, <<>>, <<>>, <<>>, <<>>, 0)
<1>1. Handed(<<>>, <<>>, <<>>, 0)
  BY EmptySent DEF Handed
<1>2. Piece(<<>>, <<>>, 0, 0)
  BY DEF Piece
<1>3. Cuts(<<>>, <<>>, 0, 0)
  <2> DEFINE g == [k \in 0..0 |-> 0]
  <2>1. g \in [0..0 -> Nat] /\ g[0] = 0
    OBVIOUS
  <2> HIDE DEF g
  <2>2. Len(<<>>) = 0 /\ \A n \in 1..0 : FALSE
    OBVIOUS
  <2> QED BY <2>1, <2>2 DEF Cuts
<1>4. Len(<<>>) = 0 /\ 0 \in Nat /\ 0 <= 0
  OBVIOUS
<1> QED BY <1>1, <1>2, <1>3, <1>4 DEF Flow

LEMMA FlashStart == ASSUME FlashInit PROVE FlashInv
<1>1. FlashTypeOK
  <2>1. 0 \in 0..MaxRun /\ 0 \in 0..MaxWrite /\ 0 \in 0..0
    BY WriteNumbers
  <2>2. <<>> \in Seq(Text) /\ <<>> \in Seq(Message)
    OBVIOUS
  <2> QED BY <2>1, <2>2, EmptyText DEF FlashInit, FlashTypeOK, Face
<1>2. ASSUME NEW r \in Runner PROVE RunnerOK(r)
  <2>1. Promised(r) = 0
    BY DEF FlashInit, Promised
  <2>2. /\ stage[r] = "none" /\ alive[r] = {} /\ ~known[r] /\ ~eof[r] /\ written[r] = <<>> /\ atExit[r] = 0
        /\ shown[r] = <<>> /\ posted[r] = <<>> /\ buf[r] = <<>> /\ chunks[r] = <<>> /\ pipe[r] = <<>>
    BY DEF FlashInit
  <2>3. Flow(written[r], shown[r], posted[r], buf[r], chunks[r], pipe[r], Promised(r))
    BY <2>1, <2>2, NothingFlows
  <2>4. Numbered(<<>>) /\ Len(<<>>) = 0 /\ 0 <= MaxWrite
    BY WriteNumbers DEF Numbered
  <2>5. Life(stage[r], known[r], alive[r], eof[r], pipe[r])
    BY <2>2 DEF Life
  <2>6. Numbered(written[r]) /\ atExit[r] <= Len(written[r]) /\ Len(written[r]) <= MaxWrite
    BY <2>2, <2>4
  <2> QED BY <2>2, <2>3, <2>5, <2>6 DEF RunnerOK
<1> QED BY <1>1, <1>2 DEF FlashInv

LEMMA FlashStep == ASSUME FlashInv, [FlashNext]_flashVars PROVE FlashInv'
<1>1. CASE UNCHANGED flashVars
  <2>1. /\ runs' = runs /\ UNCHANGED <<procVars, pumpVars, workVars, shown>>
    BY <1>1 DEF flashVars, guiVars
  <2>2. FlashTypeOK'
    BY <1>1 DEF FlashInv, FlashTypeOK, flashVars, guiVars, procVars, pumpVars, workVars, stopVars
  <2> QED BY <2>1, <2>2, WindowOnly
<1>2. CASE Refused \/ Run \/ Stop \/ Shutdown
  BY <1>2, RefusedStep, RunStep, StopFlashStep, ShutdownStep
<1>3. ASSUME NEW r \in Runner, StopKills(r) \/ KillTimer(r) \/ Gui(r) PROVE FlashInv'
  BY <1>3, StopKillsStep, KillTimerStep, OnOutputStep, OnDoneStep DEF Gui
<1>4. ASSUME NEW r \in Runner, Work(r) \/ Pump(r) PROVE FlashInv'
  BY <1>4, SpawnsStep, AssignsStep, ChecksStep, TurnsStep, EndsStep, PumpStep DEF Work
<1>5. ASSUME NEW r \in Runner, Writes(r) \/ ToolStarts(r) \/ \E p \in Process : Exits(r, p) PROVE FlashInv'
  BY <1>5, WritesStep, ToolStartsStep, ExitsStep
<1> QED BY <1>1, <1>2, <1>3, <1>4, <1>5 DEF FlashNext

LEMMA FlashAlways == FlashSpec => []FlashInv
  BY FlashStart, FlashStep, PTL DEF FlashSpec

\* Every variable of the build & flash command keeps its type.
THEOREM FlashTypeCorrect == FlashSpec => []FlashTypeOK
<1>1. FlashInv => FlashTypeOK
  BY DEF FlashInv
<1> QED BY <1>1, FlashAlways, PTL

\* What the invariant says when a command has ended.
LEMMA InvComplete == FlashInv => OutputComplete
<1> SUFFICES ASSUME FlashInv, NEW r \in Runner, Finished(r)
             PROVE  /\ Ordered(shown[r]) /\ ToSet(shown[r]) \subseteq ToSet(written[r])
                    /\ \A k \in 1..atExit[r] : written[r][k] > 0 => written[r][k] \in ToSet(shown[r])
  BY Zenon DEF OutputComplete
<1>1. FlashTypeOK /\ RunnerOK(r) /\ posted[r] = <<>> /\ Promised(r) = atExit[r]
  BY DEF FlashInv, Finished, Promised
<1>2. PICK a \in Nat : atExit[r] <= a /\ Handed(shown[r], <<>>, written[r], a)
  BY <1>1, Zenon DEF RunnerOK, Flow
<1>3. shown[r] \in Text /\ written[r] \in Text /\ atExit[r] \in Nat /\ Len(written[r]) \in Nat
  <2>1. atExit[r] \in 0..MaxWrite
    BY <1>1, RunnerIs
  <2> QED BY <1>1, <2>1, WriteNumbers, RunnerIs, TextIs
<1>4. /\ a <= Len(written[r]) /\ Sent(shown[r], written[r], a)
      /\ \A k \in 1..a : written[r][k] > 0 => Has(shown[r], written[r][k])
  BY <1>2 DEF Handed
<1>5. /\ ToSet(shown[r]) = {shown[r][i] : i \in 1..Len(shown[r])}
      /\ ToSet(written[r]) = {written[r][i] : i \in 1..Len(written[r])}
  BY <1>3 DEF ToSet, Text
<1>6. 1..atExit[r] \subseteq 1..a /\ 1..a \subseteq 1..Len(written[r])
  BY <1>2, <1>3, <1>4
<1>7. Ordered(shown[r]) /\ \A i \in 1..Len(shown[r]) :
        Number(shown[r][i]) \in 1..a /\ shown[r][i] = written[r][Number(shown[r][i])]
  BY <1>4 DEF Sent
<1>8. ToSet(shown[r]) \subseteq ToSet(written[r])
  <2>1. ASSUME NEW i \in 1..Len(shown[r]) PROVE shown[r][i] \in {written[r][j] : j \in 1..Len(written[r])}
    <3>1. Number(shown[r][i]) \in 1..Len(written[r])
      BY <1>6, <1>7
    <3> QED BY <3>1, <1>7, Zenon
  <2> QED BY <2>1, <1>5, Zenon
<1>9. ASSUME NEW k \in 1..atExit[r], written[r][k] > 0 PROVE written[r][k] \in ToSet(shown[r])
  <2>1. Has(shown[r], written[r][k])
    BY <1>4, <1>6, <1>9
  <2> QED BY <2>1, <1>5 DEF Has
<1> QED BY <1>7, <1>8, <1>9

\* When the panel says how a command ended, the terminal has all the command wrote
\* before it exited, in order and once, and nothing it did not write.
THEOREM OutputWhole == FlashSpec => []OutputComplete
  BY InvComplete, FlashAlways, PTL
=============================================================================
