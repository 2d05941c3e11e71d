--------------------------- MODULE LinkLifecycle ---------------------------
(***************************************************************************)
(* One connection of the terminal: the reader thread that owns the link    *)
(* (core/stream_reader.py, net_reader.py, ssh_reader.py), the GUI thread   *)
(* that opens, closes and auto-reconnects it (serial_controller.py), and   *)
(* the flash command that borrows its port (flash_controller.py).          *)
(*                                                                         *)
(* The threads share the reader's attributes and talk through Qt's posted  *)
(* events: a signal emitted by the reader thread is appended to `queue'    *)
(* and handled later; one emitted by the GUI thread runs its handler at    *)
(* once.  Clicks and timer ticks do not wait for the queue.                *)
(***************************************************************************)
EXTENDS Integers, Sequences

CONSTANTS
  Kinds,       \* the transports: some of "Serial", "Network" and "SSH"
  MaxPending   \* bound: clicks and ticks come only while at most this many
               \* posted events wait

ASSUME KindAssumption == Kinds \subseteq {"Serial", "Network", "SSH"}
ASSUME PendingAssumption == MaxPending \in Nat

VARIABLES
  running,       \* StreamReader._running
  dEmitted,      \* StreamReader._disconnected_emitted
  lost,          \* StreamReader.lost
  ser,           \* StreamReader._serial: "none", "open" or "closed"
  thread,        \* where the reader thread is; "idle" iff not isRunning()
  queue,         \* events posted to the GUI thread and not handled yet
  gui,           \* "loop", or the disconnect_port() call the GUI is blocked in
  reconnecting,  \* Connection.reconnecting
  tries,         \* Connection.reconnect_tries, modulo 3
  timer,         \* SerialController._reconnect_timer is active
  failed,        \* Connection.failed
  flash,         \* Connection.flash_runner: "none", "running", "ended"
  resume,        \* Connection.resume_after_flash
  view,          \* what the status bar and the Connect button show
  auto,          \* the Auto-reconnect box
  present,       \* the device is plugged in / the host is up
  kind,          \* the transport of this connection
  slowOpen,      \* a blocking open may outlast the wait() of disconnect_port()
  userOff,       \* history: the user's last word was to be disconnected
  owed,          \* history: sessions opened minus on_disconnected calls
  crossed        \* history: see Crossed

reader == <<running, dEmitted, lost, ser, thread>>
retry  == <<reconnecting, tries, timer>>
tool   == <<flash, resume>>
env    == <<auto, present, kind, slowOpen>>
vars   == <<reader, queue, gui, retry, failed, tool, view, env,
            userOff, owed, crossed>>

Serial    == kind = "Serial"
IsRunning == thread # "idle"
Events    == {"connected", "error", "disconnected", "flash_done"}
Calls     == {"user", "stop", "flash_stop", "flash"}

Waits(e) == \E i \in 1..Len(queue) : queue[i] = e
\* connect_port and disconnect_port do not look at the posted events: this
\* tells a call that returns while one of the link's events is in flight.
Crossed(t) == \/ t # "idle"
              \/ Waits("connected") \/ Waits("disconnected")

\* A mutant: disconnect_port() forgets to close the link.
CloseLink_Leaks == UNCHANGED ser
CloseLink == ser' = IF ser = "open" THEN "closed" ELSE ser
Post(e) == queue' = Append(queue, e)

\* MainWindow._refresh_conn_state
Shown(f, r, t, bad) ==
  CASE f # "none"                          -> "flashing"
    [] f = "none" /\ r                     -> "waiting"
    [] f = "none" /\ ~r /\ t # "idle"      -> "live"
    [] f = "none" /\ ~r /\ t = "idle"      -> IF bad THEN "failed" ELSE "idle"
Refresh == view' = Shown(flash', reconnecting', thread', failed')
Prompt  == gui = "loop" /\ Len(queue) <= MaxPending
Settled == gui = "loop" /\ queue = <<>> /\ thread \in {"idle", "loop"}

Init ==
  /\ running = FALSE /\ dEmitted = FALSE /\ lost = FALSE
  /\ ser = "none" /\ thread = "idle" /\ queue = <<>> /\ gui = "loop"
  /\ reconnecting = FALSE /\ tries = 0 /\ timer = FALSE /\ failed = FALSE
  /\ flash = "none" /\ resume = FALSE /\ view = "idle"
  /\ auto = TRUE /\ present = TRUE
  /\ kind \in Kinds /\ slowOpen \in BOOLEAN /\ (slowOpen => ~Serial)
  /\ userOff = TRUE /\ owed = 0 /\ crossed = FALSE

-----------------------------------------------------------------------------
(* The reader thread *)

\* run(), the blocking open of a network or SSH link succeeds.
OpenOk ==
  /\ thread = "opening" /\ present
  /\ ser' = "open" /\ thread' = "loop"
  /\ Post("connected")
  /\ UNCHANGED <<running, dEmitted, lost>>

\* run(), the open raises: error, then disconnected, then the thread ends.
OpenFail ==
  /\ thread = "opening"
  /\ running' = FALSE /\ dEmitted' = TRUE /\ thread' = "finishing"
  /\ queue' = queue \o <<"error", "disconnected">>
  /\ UNCHANGED <<lost, ser>>

\* _read_loop() sees that _running was cleared.
LoopStop ==
  /\ thread = "loop" /\ ~running
  /\ thread' = "exit"
  /\ UNCHANGED <<running, dEmitted, lost, ser, queue>>

\* The read raises, or the remote end closed.  _running may have been cleared
\* since the loop tested it.  Only pyserial links report the exception.
LoopFail ==
  /\ thread = "loop"
  /\ thread' = "exit"
  /\ IF kind = "SSH" THEN UNCHANGED queue ELSE Post("error")
  /\ UNCHANGED <<running, dEmitted, lost, ser>>

\* Mutants: the thread's own announcement is not remembered; a stop that was
\* asked for counts as a loss.
LoopExit_Unmarked ==
  /\ thread = "exit" /\ thread' = "finishing" /\ UNCHANGED dEmitted
  /\ IF running
     THEN running' = FALSE /\ lost' = TRUE /\ ser' = "closed" /\ Post("disconnected")
     ELSE UNCHANGED <<ser, running, lost, queue>>
LoopExit_AlwaysLost ==
  /\ thread = "exit" /\ thread' = "finishing"
  /\ running' = FALSE /\ lost' = TRUE
  /\ IF running
     THEN dEmitted' = TRUE /\ ser' = "closed" /\ Post("disconnected")
     ELSE UNCHANGED <<ser, dEmitted, queue>>

\* After the loop: the link was lost, or disconnect_port() asked to stop.
LoopExit ==
  /\ thread = "exit"
  /\ thread' = "finishing"
  /\ IF running
     THEN /\ running' = FALSE /\ lost' = TRUE /\ dEmitted' = TRUE
          /\ ser' = "closed"
          /\ Post("disconnected")
     ELSE /\ ser' = IF kind = "SSH" THEN "closed" ELSE ser
          /\ UNCHANGED <<running, lost, dEmitted, queue>>

\* run() returned; QThread.isRunning() turns false only now.
ThreadEnd ==
  /\ thread = "finishing"
  /\ thread' = "idle"
  /\ UNCHANGED <<running, dEmitted, lost, ser, queue>>

ReaderStep ==
  /\ OpenOk \/ OpenFail \/ LoopStop \/ LoopFail \/ LoopExit \/ ThreadEnd
  /\ UNCHANGED <<gui, retry, failed, tool, view, env, userOff, owed, crossed>>

-----------------------------------------------------------------------------
(* Handlers and helpers of the GUI thread *)

\* Mutants: the retry loop is not ended by a connection; is not armed.
OnConnected_KeepsRetry ==
  /\ UNCHANGED reconnecting /\ failed' = FALSE
  /\ view' = IF reconnecting THEN "waiting" ELSE "live"
StartReconnect_NoTimer ==
  reconnecting' = TRUE /\ tries' = 0 /\ UNCHANGED timer /\ Refresh

\* SerialController.on_connected
OnConnected ==
  /\ reconnecting' = FALSE /\ failed' = FALSE /\ view' = "live"

\* SerialController.start_reconnect
StartReconnect ==
  /\ reconnecting' = TRUE /\ tries' = 0 /\ timer' = TRUE
  /\ Refresh

\* SerialController.on_disconnected
OnDisconnected ==
  /\ owed' = IF owed = -1 THEN -1 ELSE owed - 1
  /\ \/ reconnecting /\ UNCHANGED <<retry, view>>       \* a failed retry
     \/ ~reconnecting /\ lost /\ auto /\ StartReconnect
     \/ ~reconnecting /\ ~(lost /\ auto) /\ UNCHANGED retry /\ Refresh

\* SerialController.on_serial_error
OnError ==
  \/ reconnecting /\ UNCHANGED <<failed, view>>
  \/ ~reconnecting /\ failed' = TRUE /\ Refresh

\* StreamReader.connect_port: opened on the GUI thread, connected emitted there.
ConnectSync ==
  /\ present
  /\ ser' = "open" /\ dEmitted' = FALSE /\ lost' = FALSE /\ running' = TRUE
  /\ thread' = "loop" /\ owed' = owed + 1
  /\ OnConnected

\* NetworkReader / SSHReader.connect_port: the thread will open the link.
ConnectAsync ==
  /\ ser' = "none" /\ dEmitted' = FALSE /\ lost' = FALSE /\ running' = TRUE
  /\ thread' = "opening" /\ owed' = owed + 1

NextTry(t) == (t + 1) % 3

\* One connection's turn in _reconnect_tick, `t' being its try count before.
Retry(t) ==
  /\ tries' = NextTry(t)
  /\ \/ /\ IsRunning \/ Serial \/ tries' # 0     \* in progress, not found, not due
        /\ UNCHANGED <<reader, failed, owed, crossed>>
        /\ reconnecting' = TRUE /\ Refresh
     \/ /\ ~IsRunning /\ Serial
        /\ ConnectSync
        /\ crossed' = (crossed \/ Crossed(thread))
     \/ /\ ~IsRunning /\ ~Serial /\ tries' = 0
        /\ ConnectAsync /\ UNCHANGED failed
        /\ reconnecting' = TRUE /\ Refresh
        /\ crossed' = (crossed \/ Crossed(thread))

\* SerialController._reconnect_tick
Tick ==
  /\ Prompt /\ timer
  /\ UNCHANGED <<queue, gui, tool, env, userOff>>
  /\ \/ /\ ~reconnecting /\ timer' = FALSE
        /\ UNCHANGED <<reader, reconnecting, tries, failed, view, owed, crossed>>
     \/ reconnecting /\ UNCHANGED timer /\ Retry(tries)

-----------------------------------------------------------------------------
(* Posted events *)

\* FlashController._on_done
OnFlashDone ==
  /\ flash' = "none"
  /\ UNCHANGED resume
  /\ \/ ~resume /\ UNCHANGED <<reader, retry, failed, owed, crossed>> /\ Refresh
     \/ resume /\ timer' = TRUE /\ Retry(0)          \* SerialController.resume

HandleEvent ==
  /\ gui = "loop" /\ queue # <<>>
  /\ queue' = Tail(queue)
  /\ \/ /\ Head(queue) = "connected"
        /\ UNCHANGED <<reader, tries, timer, tool, owed, crossed>>
        /\ OnConnected
     \/ /\ Head(queue) = "disconnected"
        /\ UNCHANGED <<reader, failed, tool, crossed>>
        /\ OnDisconnected
     \/ /\ Head(queue) = "error"
        /\ UNCHANGED <<reader, retry, tool, owed, crossed>>
        /\ OnError
     \/ /\ Head(queue) = "flash_done" /\ OnFlashDone
  /\ UNCHANGED <<gui, env, userOff>>

-----------------------------------------------------------------------------
(* The user *)

\* disconnect_port() as called by `caller': stop the thread, then join it.
BeginDisconnect(caller) == running' = FALSE /\ gui' = caller

\* toggle_connection: a click while the reader runs.
ClickDisconnect ==
  /\ Prompt /\ flash = "none" /\ ~reconnecting /\ IsRunning
  /\ BeginDisconnect("user")
  /\ userOff' = TRUE
  /\ UNCHANGED <<dEmitted, lost, ser, thread, queue, retry, failed, tool, view,
                 env, owed, crossed>>

\* toggle_connection: a click while waiting for a lost link (stop_reconnect).
ClickStop ==
  /\ Prompt /\ flash = "none" /\ reconnecting
  /\ UNCHANGED <<dEmitted, lost, ser, thread, queue, tries, timer, failed, tool,
                 env, owed>>
  /\ reconnecting' = FALSE /\ userOff' = TRUE
  /\ \/ IsRunning /\ BeginDisconnect("stop") /\ UNCHANGED <<view, crossed>>
     \/ /\ ~IsRunning /\ UNCHANGED <<running, gui>> /\ Refresh
        /\ crossed' = (crossed \/ Crossed(thread))

\* toggle_connection: a click while idle.  A serial open may be refused.
ClickConnect ==
  /\ Prompt /\ flash = "none" /\ ~reconnecting /\ ~IsRunning
  /\ userOff' = FALSE
  /\ \/ Serial /\ ConnectSync /\ crossed' = Crossed(thread)
     \/ Serial /\ UNCHANGED <<reader, reconnecting, failed, view, owed, crossed>>
     \/ /\ ~Serial /\ ConnectAsync /\ crossed' = Crossed(thread)
        /\ UNCHANGED <<reconnecting, failed, view>>
  /\ UNCHANGED <<queue, gui, tries, timer, tool, env>>

\* The end of FlashController.run: the runner starts.
LaunchTool == flash' = "running" /\ gui' = "loop" /\ Refresh

\* FlashController.run: release the port, then start the command.
ClickFlash ==
  /\ Prompt /\ flash = "none"
  /\ UNCHANGED <<dEmitted, lost, ser, thread, queue, tries, timer, failed, env,
                 owed>>
  /\ resume' = (IsRunning \/ reconnecting)
  /\ userOff' = (userOff /\ ~resume')
  /\ reconnecting' = FALSE
  /\ \/ /\ IsRunning
        /\ BeginDisconnect(IF reconnecting THEN "flash_stop" ELSE "flash")
        /\ UNCHANGED <<flash, view, crossed>>
     \/ ~IsRunning /\ LaunchTool /\ UNCHANGED running /\ crossed' = (crossed \/ Crossed(thread))

\* The rest of disconnect_port(), once wait() returns: the thread has ended, or
\* is still inside a blocking open when the wait times out.  Then its caller.
EndDisconnect ==
  /\ gui \in Calls /\ (thread = "idle" \/ (slowOpen /\ thread = "opening"))
  /\ UNCHANGED <<lost, thread, queue, failed, resume, env, userOff>>
  /\ CloseLink
  /\ dEmitted' = FALSE
  /\ crossed' = (crossed \/ Crossed(thread))
  /\ \/ gui \in {"user", "stop"} /\ gui' = "loop" /\ UNCHANGED <<running, flash>>
     \/ gui = "flash_stop" /\ IsRunning /\ BeginDisconnect("flash") /\ UNCHANGED flash
     \/ /\ gui = "flash" \/ (gui = "flash_stop" /\ ~IsRunning)
        /\ flash' = "running" /\ gui' = "loop" /\ UNCHANGED running
  /\ IF dEmitted THEN UNCHANGED <<retry, owed>> ELSE OnDisconnected
  /\ IF dEmitted /\ gui = "user" THEN UNCHANGED view ELSE Refresh

ToggleAuto ==
  /\ Prompt /\ auto' = ~auto
  /\ UNCHANGED <<reader, queue, gui, retry, failed, tool, view, present,
                 kind, slowOpen, userOff, owed, crossed>>

-----------------------------------------------------------------------------
(* The world *)

\* FlashRunner.run: the command is over, finished_code is posted.
ToolEnd ==
  /\ flash = "running" /\ flash' = "ended" /\ Post("flash_done")
  /\ UNCHANGED <<reader, gui, retry, failed, resume, view, env,
                 userOff, owed, crossed>>

\* The device is unplugged or comes back.
PlugOrUnplug ==
  /\ present' = ~present
  /\ UNCHANGED <<reader, queue, gui, retry, failed, tool, view, auto,
                 kind, slowOpen, userOff, owed, crossed>>

-----------------------------------------------------------------------------
User == ClickDisconnect \/ ClickStop \/ ClickConnect \/ ClickFlash \/ ToggleAuto
Next == ReaderStep \/ Tick \/ HandleEvent \/ EndDisconnect \/ User \/ ToolEnd \/ PlugOrUnplug

Spec == Init /\ [][Next]_vars

\* The threads and the event loop are scheduled; the user and the world owe
\* nothing, except that a device that is there is sometimes opened by a retry.
LinkDown == LoopFail /\ ~present
OpenEnds == OpenOk \/ OpenFail
Frame    == UNCHANGED <<gui, retry, failed, tool, view, env, userOff, owed, crossed>>
RetryOpens == Tick /\ Serial /\ ~IsRunning /\ thread' = "loop"
Fairness ==
  /\ WF_vars(LoopStop /\ Frame) /\ WF_vars(LoopExit /\ Frame)
  /\ WF_vars(ThreadEnd /\ Frame) /\ WF_vars(LinkDown /\ Frame)
  /\ WF_vars(OpenEnds /\ Frame) /\ SF_vars(OpenOk /\ Frame)
  /\ WF_vars(HandleEvent) /\ WF_vars(EndDisconnect) /\ WF_vars(Tick)
  /\ SF_vars(RetryOpens)
FairSpec == Spec /\ Fairness

-----------------------------------------------------------------------------
(* Properties *)

\* Every variable keeps its type.
TypeOK ==
  /\ running \in BOOLEAN /\ dEmitted \in BOOLEAN /\ lost \in BOOLEAN
  /\ ser \in {"none", "open", "closed"}
  /\ thread \in {"idle", "opening", "loop", "exit", "finishing"}
  /\ queue \in Seq(Events) /\ gui \in Calls \cup {"loop"}
  /\ reconnecting \in BOOLEAN /\ tries \in 0..2 /\ timer \in BOOLEAN
  /\ failed \in BOOLEAN
  /\ flash \in {"none", "running", "ended"} /\ resume \in BOOLEAN
  /\ view \in {"flashing", "waiting", "live", "failed", "idle"}
  /\ auto \in BOOLEAN /\ present \in BOOLEAN
  /\ kind \in Kinds /\ slowOpen \in BOOLEAN
  /\ userOff \in BOOLEAN /\ owed \in Int /\ crossed \in BOOLEAN

\* A link the user closed (or gave up on) stays closed, and nothing waits to
\* bring it back, unless the close crossed an event of the link in flight.
OffStaysOff ==
  userOff /\ gui = "loop" /\ ~crossed => ser # "open" /\ ~reconnecting

\* While the flash command runs the reader does not hold the port, unless the
\* release crossed an event of the link in flight (FlashController.run).
ToolHasPort == flash = "running" /\ ~crossed => ser # "open" /\ ~reconnecting

\* Whenever a retry loop is on, its timer runs and the interface says so: the
\* button that stops it is the one on screen, or the flash command's status.
StopOffered ==
  gui = "loop" => /\ reconnecting => timer /\ view \in {"waiting", "flashing"}
                  /\ view = "waiting" => reconnecting

\* Every session is announced disconnected exactly once, by the thread that
\* lost it or by the call that closed it: never by both, never by neither.
OneAnnouncement ==
  ~slowOpen => /\ owed >= 0
               /\ Settled /\ ~IsRunning => owed = 0

\* The retry loop never runs beside a live link: it would show "Reconnecting"
\* while data flows, and the click that means Disconnect would mean Stop.
NoRetryWhileLive ==
  Settled /\ ~crossed => ~(reconnecting /\ thread = "loop")

\* A lost link is retried until it is back or the user intervenes, and if the
\* device stays there it does come back.
ComesBack ==
  /\ (lost /\ Waits("disconnected") /\ auto /\ ~userOff)
       ~> (reconnecting \/ ~auto \/ userOff \/ crossed)
  /\ (<>[]present) => (reconnecting ~> (~reconnecting \/ crossed))

=============================================================================
