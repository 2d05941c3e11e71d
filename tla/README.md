# A TLA+ model of IsoDAQ Studio

IsoDAQ Studio is a serial terminal: it opens a serial, network or SSH link to a
device, shows and records what the device sends, reacts to it with triggers,
sends macros and controls, draws the values in the lines, lends the port to a
flashing tool, and shares the session with remote viewers. This directory models
the parts of it where the order of events decides whether it is right. Everything
is read off the Python sources; `PROJECT.json`, "map", has the lines each
definition stands for.

## 1. The system

The program is one Qt process. The **GUI thread** runs every click, timer and
posted event to its end, one at a time. Each connection has a **reader thread**
(a `QThread`); its signals become events posted to the GUI thread, while a
signal the GUI thread emits itself runs its handlers at once. Each connection's
logger has a **writer thread**, a flash command has a worker and a pump thread,
and sharing a session has socket and registration threads. The relay server is a
threaded HTTP program of its own.

`main.py` installs no `sys.excepthook`, so under PyQt6 an exception that a slot does
not catch aborts the process. Where a handler of the GUI thread can raise
(`Logger.start`, `_rows.index`, the missing `_rebuild_list`), the models leave out the
rest of the handler and go on: they have every behaviour of the program and, after
such an exception, more.

| Component | State | Operations | Talks to | What is hard, and what makes it right |
|---|---|---|---|---|
| Reader (`core/stream_reader.py`, `serial_reader`, `net_reader`, `ssh_reader`) | `_running`, `_disconnected_emitted`, `lost`, `_serial`, the thread | open (on the GUI thread, or by the thread itself), read loop, loss, `disconnect_port` | signals to the GUI thread; attributes shared with it | A session ends once; what the user closed stays closed |
| Serial controller (`ui/controllers/serial_controller.py`) | `reconnecting`, `reconnect_tries`, retry timer, `failed` | connect, disconnect, stop, retry tick, handlers of the reader's signals | calls the reader; handles events posted before its calls | A lost link comes back; the button says what a click does |
| Flash controller, panel and runner (`flash_controller.py`, `flash_panel.py`, `core/flash_runner.py`) | `flash_runner`, `resume_after_flash`, the child process, its pipe, the kill timer | run, stop, read, done | releases and resumes the link; fills the terminal | The tool has the port to itself; its output is complete; Stop ends it |
| Line splitter and delivery (`LineSplitter`, `deliver`) | partial line, carried bytes | feed, idle flush, deliver | posts batches | No byte is lost, doubled or swapped |
| RX pipeline (`MainWindow._on_conn_lines`, `_drain_rx`, `_shed_overload`, `_on_conn_line`, `_log`, `_flush_terminal`) | backlog, shed count, HEX offset, line ids, rows to paint, the document | drain on a budget, shed when late, paint in batches, trim | logger, triggers, terminal, macro runner, share | The record, the offsets and the jumps do not depend on what was drawn |
| Triggers (`core/triggers.py`, `trigger_panel.py`, `trigger_controller.py`) | the trigger list, its rows, the editor, hit counts, the reply guard | check a line, handle a match, edit, load, save | a match is posted to the GUI thread; replies go out on the link | Foreign Python code waits for consent; the log's button tells the truth; echoes end |
| Logger (`core/logger.py`) | `_active`, the queue, flush and stop events, sinks | start, write, stop, shutdown, the writer's loop | GUI and writer thread share a queue and two events | The record of a session is complete, in order, and in its own file |
| Macro runner and panel (`core/macros.py`, `ui/macro_panel.py`) | `_running`, `_idx`, `_wait_pat`, two timers, the rows | run, stop, timers, a received line, edit and delete | sends on the active connection, reads its lines | A run goes through its steps once, ends, and can be stopped |
| Session host (`core/session_server.py`, `session_controller.py`) | listening socket, clients, relay queue, worker, code | start, accept, feed, register, stop | TCP viewers, the relay | A stopped share lets go of its viewers and its port; lines arrive in order |
| Session viewer (`core/session_client.py`, `core/signaling.py`) | socket, thread, `_running` | join by address or code, read or poll, leave | the host or the relay | The button says what there is to leave; the end of a share reaches the viewer |
| Relay server (`relay/server.py`) | sessions, tunnels with viewers and recent lines, rate buckets | register, lookup, push, poll, clean | hosts and viewers over HTTP | Concurrent handlers keep the limits, and no line falls between two of them |
| Controls (`core/controls.py`, `ui/control_panel.py`) | the list of controls; per row a throttle timer and the last value sent | press, toggle, drag, edit, import, move, save | sends on the active connection | The last position goes out; a toggle shows what the device was told |
| Toolbar, tabs, saved targets (`main_window.py`, `serial_controller.py`, `settings_manager.py`, `dialogs`) | transport and target combos, per-tab memory, SSH sessions | switch, rescan, add, edit, delete, restart | the connection that Connect opens | What is shown is what is opened |
| Parser, Quick Plot, chart, indicators (`core/data_parser.py`, `core/quick_plot.py`, `parse_panel.py`, `chart_panel.py`, `indicators.py`) | channels, series, hidden names, columns, cards | edit, keep, hide, draw | three views are told of one list | The views agree with the list; curves catch up |
| Reset sequences, analytics, search, themes, i18n, palette, notifier, updater, emulator, tools | display state, single requests | | | not modelled, section 6 |

## 2. The modules

| Module | Models | Configuration |
|---|---|---|
| `LinkLifecycle` | one connection: reader thread, event queue, serial controller, flash controller | `Link` |
| `LogContract` | what a logging session promises of one sink (abstract) | in `Log` |
| `LogSession` | the logger: GUI calls and the writer's loop; implements `LogContract` twice, for the file and for the database | `Log` |
| `RxPipeline` | a received byte's way: splitter, delivery, backlog, drawing or shedding, painting, scrollback, trigger match, jump | `RxStream` |
| `MacroRunner` | the macro sequencer and its rows | `MacroRuns` |
| `RelayTunnel` | a shared session through the relay: host queue and worker, push, fan-out, polls, expiry | `ShareRelay` |
| `LanShare` | a shared session on the local network: both ends' buttons, sockets and threads | `ShareLan` |
| `ShareCode` | the session code: registration threads, the relay's registry and caps, a viewer's lookup | `ShareCode` |
| `RateLimit` | the relay's limit per address: the handlers, their clocks and the buckets | in `ShareCode` |
| `FlashRunner` | a build & flash command: processes, pipe, pump, worker, Stop and the kill timer | `Flash` |
| `ControlPanel` | the controls, their rows and what they send | `Controls` |
| `Toolbar` | the one toolbar of all tabs, the saved SSH sessions and the settings that carry them | `Toolbar` |
| `LineViews` | the channels of the parser and the views that follow them; Quick Plot's own series; lazy drawing | `LineViews` |
| `Triggers` | the triggers of a connection: list, rows, editor, matches, actions, echoes | `Triggers` |
| `Connection_proofs` | the theorems about `LinkLifecycle` and `FlashRunner` and their proofs, section 5 | by `tlapm` |
| `Relay_proofs` | about `RelayTunnel`, `ShareCode` and `RateLimit` | |
| `Sending_proofs` | about `MacroRunner` and `ControlPanel` | |
| `Window_proofs` | about `Toolbar` and `LineViews` | |
| `LogSession_proofs`, `RxPipeline_proofs`, `LanShare_proofs`, `Triggers_proofs` | about one model each | |
| `MC*` | one per model: what TLC needs for its run, and the statements of comments and manual that the code does not keep | |

Operators whose name has an underscore (`LoopExit_Unmarked`) are plausible bugs:
with one of them in place of the definition of that stem, TLC finds the property
named in `PROJECT.json`, "mutants", violated. They are part of no specification.

A module of proofs may extend several models. All but the first carry a
prefix on the names that every model has (`CodeSpec`, `LimitSpec`, `FlashNext`,
`ControlTypeOK`, `ViewsInit`).

How the models meet: `LinkLifecycle` and `FlashRunner` share the flash command;
the first has the port around it, the second everything inside, and the only
thing the first needs of the second is that `flash_done` is posted once
(`FlashRunner` posts it as the last signal of a worker). `RxPipeline` posts a
trigger match as an event; `Triggers` has what happens then. `RelayTunnel`
starts with a registered tunnel, which is the outcome of `ShareCode`. `Toolbar`
decides what a connect of `LinkLifecycle` opens. They are not composed into one
specification: through each of these seams passes one value or one event, and
the product of two of the state spaces is beyond TLC.

### LinkLifecycle

A variable per attribute, and `queue` for the events posted and not yet
handled. `thread` is where the reader thread stands: `opening` (a network or SSH
link opens in its own thread), `loop`, `exit` (left the loop, `_running` not yet
looked at), `finishing` (its last signal is out, `isRunning()` still true) and
`idle`. The two reads of `_running`, in the loop and after it, are thus separate
steps, and so is the gap between the last `emit` and the end of the thread.

A GUI handler is one action, except around `wait()`: `disconnect_port` blocks
the GUI thread, so `BeginDisconnect` clears `_running` and records the caller,
and `EndDisconnect` is the rest of the call and of its caller, when the thread
has ended or when the wait gave up (`slowOpen`: SSH waits up to 10 s for a
connection, `disconnect_port` 3 s). The kind of the transport and `slowOpen` are
chosen in `Init` and stay. `Retry` is one connection's turn of
`_reconnect_tick`, also run at once by `resume` after a flash command.

Of history there is `userOff` (the user's last word), `owed` (sessions begun
minus ends announced) and `crossed`. The last needs a word. `disconnect_port`
does not look at the events already posted, and some guarantees hold only if
none of the link's events was in flight: `crossed` remembers that one was, when a
call of the GUI thread returned. With `~crossed` the properties hold, and are
proved; without it, promises of the manual are refuted (section 4).

### LogSession and LogContract

The queue, the two buffers, the two sinks, and the handshake of
`flush_and_wait`. `pc` is the writer's place in its loop; a drain is a step per
line, since the sinks it asks (`file.active`) can be closed or reopened in
between. A file is named by the second it was opened in, so `Tick` matters. A
`bad` disk lets the waits of `stop` and `shutdown` give up and a write stop half
way. `LogContract` says of one sink: lines are taken while the session accepts
them, kept in that order, and the next session opens only when the last has kept
all it took. `File` and `Db` instantiate it with the queue, the buffers and the
handshake hidden; while the disk is bad nothing is promised.
The contract has its steps (`Safety`) and its fairness apart, because the first is
proved and the second model-checked.

### RxPipeline

Bytes are numbered in the order they arrive, and a line is the sequence of its
bytes' numbers; so "nothing lost, doubled or swapped" is an equation (`EveryByte`)
on the whole way of the bytes (`Stream`). The two loops of the reader, over the bytes of a
chunk and over the pieces of a batch, are recursive functions (`Split`, `Takes`).
A byte is text, a carriage return or a newline, which is all that the splitter
and `deliver` look at. The GUI side takes one line at a time. The code takes up
to 200 between two looks at its clock; a step per line allows every cut of a
burst and a few more than the code has, so what holds here holds there. Which
line a trigger matches is free. A line waits too long when the model says so:
`ShedLine` is always possible and never required. `Flush` is `_flush_terminal`:
it appends what was queued (of a burst longer than the scrollback only the end)
and trims the document by a tenth of the limit at a time.

### MacroRunner

All on the GUI thread, so a click, a timer and a line are whole handlers, with
the panel's signal handlers inside. A step is `send` (it only pauses) or `wait`.
A send fails (link down, file unreadable) by free choice. Rows are rebuilt by an
edit, a deletion and an addition, which forgets who is active.

### RelayTunnel

Lines are numbered as they are fed. `push` has three pushes that can be under
way at a time: the worker's, one that its timeout abandoned while the relay still
handles it, and the goodbye of `stop()`. The relay's handler takes the lock once
for `recent` and the list of viewers, and then fills the viewers' queues one by
one without it: `PushPuts` is a step per viewer, so a poll or a join can fall between.
A poll is likewise two steps, and its answer may be lost with the lines it took
out of the queue. `missed` and `lost` remember which lines a full queue or a lost
answer took, so `Gapless` can say that nothing else did.

### LanShare

Shares and clients are numbered objects, each with its thread. Closing a socket
on which another thread is blocked does not wake that thread at once everywhere,
so a socket is `closing` until its thread notices. `_serve` has its steps (make
the socket, accept, list the client) because `stop()` runs between them; on the
viewer's side `stop()` can meet a thread that has not begun. The handler of a
connection is sure to end only if something wakes its `recv` (`Woken`): the viewer
hung up, or it pings, which it does until it leaves (`session_client.py:134`). A viewer
that has left and a host that has stopped can wait on each other's closed
sockets for ever (section 4).

### ShareCode

A share's registration is a thread that outlives its share: `stage` is where each
request is, from STUN to the end. The thread itself sets the labels of the dialog
(`_discover_and_register`), in whatever dialog was opened last. A server URL that
`urlparse` refuses raises outside any `try`: the thread is gone (`raised`) and the label
stays. The relay side is in the order of the handler: limit, clean, create, each
under its lock. Other hosts come from one address and only register. A clock tick
ages sessions. Whether the limit lets a request through is free here.

### RateLimit

`_rate_ok` and `_clean` both read the clock before they take the lock, so `ReadsClock`
is a step of its own and a handler may come to the lock with a time that others have
overtaken. A bucket's times then need not rise, and `_clean` looks only at the last.
`admitted` is the history that the limit is judged by: the times with which each
address was let through, while they count. `lag` is the longest that a handler
was held up between the two. The module shares no variable with `ShareCode`, and
neither waits for the other, so `MCShareCode` checks each while the other rests.

### FlashRunner

The worker's `Popen`, the assignment of `_proc` and the second look at `stopped`
are three steps, because `stop()` is called on the GUI thread between them. The
command is a shell and a tool, either of which may ignore SIGTERM or outlive the
other and keep the pipe open. A byte of output is its number, negated for a break
between lines; the pump takes what the pipe holds, and the worker's loop polls the
exit, drains and gives up on an open pipe as `run()` does. A message to the terminal
has its lines with the breaks between them; of blank lines, which `_emit_lines`
drops, there is none. That a command could not be started is told like a failed
one, the line that says so is left out.

### ControlPanel

One variable: the list of controls, each with the memory of its row (the throttle
timer and `_last_sent`). A rebuild empties those. Numbers are counted in tenths,
with ranges that are no multiple of the step, and go through the rounding of
`core/controls.py`. The key that a loaded or imported control keeps depends on those
before it, which is a recursive function along the list. Sending succeeds or fails
by free choice.

### Toolbar

What the two combos hold and show, the memory of each tab that is not in front, the SSH sessions and
the settings file. A session has a name, a host, and a port that stands for all
its label does not say; nothing keeps two sessions from having one name
(`edit_ssh_session` even gives the name user@host to those without one), and
`populate_ssh_combo` looks for the name. Of entries that read alike, an edit may
mean any (`Current`). Each operation is a whole handler with the signals it blocks
or sets off (populate, pick, the rescan after a hot-plug, the shuffle of the
connections' order). `Restart` writes the settings and reads them back in the
order of `__init__`.

### LineViews

The panel's list of channels, an editor that is open on a row, and the three
views that are told of a change by name: that they are told of names, and not of
channels, is what makes it hard. A handler makes a list of requests, one per channel
and view, and `Follow` carries them out one after the other (`Followed`), each as the
view's own method does. Which names a line has values for is a free
choice among those the parser, Quick Plot and a snippet can find. Drawing is lazy:
`plot` has the names whose buffer is ahead of their curve, and the dirty flag that
the redraw timer reads.

### Triggers

`obj` are the `Trigger` objects; the engine's list is its first `size`, and a
queued match keeps an object that has left the list alive. `Become` renumbers the
objects in use after each step, so that no index grows. `gone` is `Synced`
while the rows are the engine's triggers, and after a load the number of rows left
from before. Each object has the clock of its reply guard (`since`, the ticks since
`_last_reply`, `Interval` for that or more). `Tick` moves the clocks of all triggers,
echoes and queued matches at once, and no echo and no match is under way for more
than `delay` ticks. `Logger.start` may raise at any resume (`LogStops`): the session is
paused, or was, and the button, the reply and the event are not reached. Not shown
are the hit counts; a row that is rebuilt says 0 until its trigger's next match.

## 3. What the runs show

| Run | Instance | Properties |
|---|---|---|
| `Link` | all three transports, prompt and slow opens, one click or tick while at most one event waits; 279 852 states | `ToolHasPort`, `OffStaysOff`, `StopOffered`, `NoRetryWhileLive`, `OneAnnouncement`; `ComesBack` |
| `Log` | 2 sessions, 2 lines, 2 seconds, a good and a bad disk; 269 633 states | `StopIsComplete`, `OwnSession`, `InOrder`; `Contracts` (both refinements), `CallsReturn` |
| `RxStream` | 3 bytes, lines of 2, chunks up to 3, two sessions, a scrollback of 2 blocks; 404 834 states | `EveryByte`, `OffsetTrue`, `EventTrue`; `NoneStuck` |
| `MacroRuns` | macros of up to 3 steps, 2 rows, 2 runs; 76 213 states | `OneRun`; `NoSkip`, `RunEnds` |
| `ShareRelay` | one client, 2 lines, queues of 2, 1 recent line, one place for a viewer, 2 lost or late requests; 346 218 states | `InOrder`, `Gapless`; `Farewell` |
| `ShareLan` | 2 shares, 2 joins; 66 792 states | `LeaveIsMeant`; `ViewersReleased`, `PortReleased` |
| `ShareCode` | 2 shares, one other host, 2 codes, every cap 1, 2 ticks; 3 handlers of one address, a limit of 2 within 2 ticks, 3 ticks; 126 411 states | `RateHonest`, `ShownCodeServed`; `DialogSettles` |
| `Flash` | one command, 3 bytes of output; 390 817 states | `OutputComplete`; `StopEnds` |
| `Controls` | 2 rows, one function key, bounds 0, 0.5, 2.5, steps 1 and 1.5; 23 221 states | `KeyFiresOne`, `ToggleHonest`; `SliderSettles` |
| `Toolbar` | 2 connections, 1 port, 1 URL, 2 SSH sessions out of 4, three of one name, two of these of one label; 902 388 states | `ShownIsOpened`, `OpensSaved`; `TabKeepsTarget` |
| `LineViews` | 2 channels over 2 names, one of them Quick Plot's own; 225 016 states | `ViewsFollow`; `CatchesUp` |
| `Triggers` | 2 rules, one of which answers itself, 2 triggers, 2 queued matches, a guard of 3 ticks and a delay of 1; 83 692 states | `BlockedNeverRuns`, `ButtonHonest`; `EchoEnds` |

Some properties state an exception, because the code has it; each is a history
variable or a named predicate of the module, and most have a counterpart in
section 4 that is refuted without it:

- `crossed` (`LinkLifecycle`): an event of the link was in flight when a call of
  the GUI thread returned.
- a bad disk (`LogSession`): `stop()` waits two seconds and no longer. `Emptied`:
  a second session within the same second.
- `dropped` (`RxPipeline`): the partial line that goes with the splitter at the
  end of a session. `Drawn`: a shed line has no row to jump to.
- `overlap` (`RelayTunnel`): a push was still handled by the relay after its
  timeout when the next was sent. `forgotten`: the relay expired a viewer that
  did not poll, and it joined again.
- `early` (`LanShare`): `stop()` before the thread had made its socket. `vanished`:
  the host's machine is gone without a word. `Leaving`: the thread of a viewer that
  has left. `Failed`: a join that never
  connected.
- `late` (`ShareCode`): the registration of a stopped share set the relay of the
  next one. `raised`: a server URL that cannot be parsed ended the thread.
- `lag` (`RateLimit`): how long a handler was held up between its clock and its lock.
- `due` (`FlashRunner`): only a Stop that found a process running, or none
  yet, has to end the whole group.
- `cut` (`ControlPanel`): the rows were rebuilt while a slider's position waited.
- `foreign` (`Toolbar`): a tab brought the label of a session back. Of two sessions
  with one name, the one shown has the name of the one that Connect opens and need
  not be it.
- `torn` (`LineViews`): two channels have had one name, or a save broke off.
- `Quick` (`Triggers`): a reply goes round all triggers, with a delay for each, before
  the guard of the first is over.

Each module also has one `TypeOK`, in every one a theorem (section 5); TLC checked it
with the constants of the run before it was proved.

### Bounds

`MaxPending = 1`: clicks and retry ticks wait until at most one posted event is
pending. Each reader step posts at most two events, so the queue holds several,
and every counterexample of section 4 needs only two (the inductive invariant of
section 5 was checked with 2). `tries` counts modulo 3 because the code looks at
it modulo 3 only. Two sessions are the fewest in which one can harm another, and
two seconds the fewest in which they can have the same name or different ones.
Three bytes with lines of two give a full piece, a rest, a blank line with a
carry, and a newline that meets a partial line; a scrollback of two blocks is
shorter than a burst. Two runs of a macro are enough for a run to replace another,
and two rows for a row to be deleted under the one that runs. In the relay a
queue of two can be full with one line in and one on its way; one recent line
makes the recent buffer shorter than the stream; two faults lose a request and
the answer to its repetition. One viewer is enough, as viewers share nothing but
the cap, and `OthersChange` takes and frees the other places. The limits of the
registry are all 1, so the second request is always one too many. Of the relay's
handlers three of one address are needed for the case that the limit loses: one that has
read the clock and waits, one that is let through meanwhile, and one that cleans; with a
limit and a window of 2 the deduction by `lag` is neither nothing nor everything. In `FlashRunner`
a second command starts only when the first is over and has a runner, a process
and a pipe of its own, so one command shows it all; three bytes are a line and a
rest. Two controls suffice for two to want one key, two tabs for one toolbar, two
channels for one name, and two triggers to answer each other. Four SSH sessions to
choose from are two of one label, a third of their name, and one that differs. With a
guard of 3 ticks and a delay of 1, a reply goes round one trigger or two before the guard
is over; MCTriggers has `TwoEchoesEnd` for a delay of 2, where two triggers do not stop.

### Fairness

The operating system runs the threads, and Qt's loop handles posted events and
timers: weak fairness on the reader's steps, the event handler, the retry tick,
the writer's steps, the macro's timers, the throttle timer of a slider, the redraw
timer, and the worker, pump and kill timer of a command. A blocked
`disconnect_port`, `flush_and_wait` or HTTP request returns (they have timeouts).
The relay handles what has arrived, clients go on polling, and a tunnel nobody
posts to expires. A handler of `LanShare` is sure to end only while something wakes its
`recv` (`Woken`): a viewer pings every two seconds, but only until it leaves. Strong fairness is used where a choice is open again and
again: `Batch` of the writer (its test of the interval is passed over while other
work comes between, and then made); `OpenOk` and `RetryOpens` (an open that is
possible again and again succeeds at some time; a serial retry may still find
the port busy); `ClientFinds404` (a request that is repeated for ever is
answered at some time). No user, device, trigger, process or viewer is ever
obliged to anything: `ComesBack` assumes that the device stays plugged from some
time on, `EchoEnds` that the user and the device add nothing and that replies go round
quickly (`Quick`), and `StopEnds`
needs no help from the command, since the kill timer ends one that ignores
SIGTERM.

`CHECK_DEADLOCK FALSE` is set where the system may really stop: the logger is down
after `shutdown`, the device of `RxPipeline` may fall silent, a share may be over
for all (`ShareRelay`, `ShareLan`, `ShareCode`, within the bounds of their
counters), and a command has ended or the window is closed (`Flash`).

## 4. Statements that the code does not keep

While the models were written, a number of statements of the manual, of comments
or of the interface turned out not to hold. The MC modules define them; TLC
refutes each when it is put in the cfg of its module (with the change given). No
run of the project depends on them.

| Module | Definition | What happens |
|---|---|---|
| `MCLinkLifecycle` | `ManualIsFinal`: "A disconnect you make yourself never reconnects" (`wiki/Serial-Connection.md:81`) | The link is lost, its event is queued; the user disconnects; the event is handled after it, finds `lost` still set, and starts the retry loop. |
| | `PortReleased` | As there, with a flash command for the disconnect: the retry opens the port under the tool. |
| | `DisconnectShown` | `disconnect_port` gives up waiting for an SSH link that is being opened; the link opens; the status turns to connected. |
| | `LossShown` | A loss is handled before its thread has ended; `isRunning()` is true; the status says connected until the next change. |
| `MCLogSession` | `RecordSurvives` | Stop and start within one second: the second session opens the first one's file with `"w"`. With a bad disk also: the flush takes more than 2 s (`core/logger.py:161`) and the sinks are closed before the writer gets to them, or a write error is swallowed and the buffer cleared. |
| `MCRxPipeline` | `LineCap` (`MaxByte` 4) | A partial line meets its newline in the chunk that makes it too long: it is emitted whole. |
| | `EveryByteShown` | The link ends with a partial line in the splitter, which is dropped. |
| | `JumpExact`: "the exact line that fired the trigger" (`wiki/Live-Views.md:75`) | A shed line matches a trigger: its event carries the id of the last drawn line. |
| | `BannerInOrder` | Two lines in one drain, the first matches: its banner comes after the second. |
| | `ScrollbackHolds`: "The scrollback is capped" (`wiki/Terminal.md:37`) | The trim moves its cursor down by lines as they are wrapped (`main_window.py:1858`), so with lines wider than the window it removes fewer blocks than the excess. |
| `MCMacroRunner` | `StepAdvances`: "4. advance to next step" (`core/macros.py:17`) | A step without a pattern: nothing increments `_idx`, the delay timer sends the same step again. |
| | `TimeoutAborts` (`wiki/Macros.md:28`) | A wait times out, and the macro goes on with the next step. |
| | `StopButton` | A row is edited or deleted during a run: the new rows are all idle, the macro goes on. |
| `MCLanShare` | `LossNoticed` | `PING_TIMEOUT` (`core/session_client.py:27`) is read by nothing: a viewer whose host is gone waits on. |
| | `LeftEnds` | `stop()` before `run()`: `run()` sets `_running` again and stays. |
| | `AllReleased` | A viewer leaves and the share is stopped: each end's `recv` waits on a socket it has closed itself, and neither sends anything any more. |
| | `StartedListens` | The port is taken: "Session server started" is logged all the same. |
| `MCShareCode` | `CodeIsOurs` | The registration of a stopped share comes late, and its code is shown for the next one. |
| | `CodeIsNotReused` | A session's hour is over, its code is given to another host, and the worker goes on posting to it. |
| | `SettlesForAnyUrl` | A server URL with an unmatched bracket: `normalize` (`session_controller.py:173`) raises, the thread ends, "Detecting" stays. |
| | `RateExact`: "max register+lookup requests per IP per window" (`relay/server.py:42`) | A handler reads the clock, others are let through, it takes the lock: its older time is the last of the bucket, and `_clean` throws the bucket away with times that still count. |
| `MCFlashRunner` | `StopEndsAll` | The shell has exited, a tool in the background goes on: `stop()` returns early. |
| `MCControlPanel` | `FinalGoesOut`: "the final position always goes out" (`control_panel.py:21`) | The rows are rebuilt within the throttle's 100 ms, by a resize, say. |
| | `AlwaysInRange` | A minimum of 0.5 and a step of 1: the value is rounded after it was clamped. |
| `MCToolbar` | `SelectsActive`: "and select the active one" (`serial_controller.py:346`) | Two sessions of one name: the combo shows the first, Connect opens the second. |
| | `RightSession` | A tab brings the label of its SSH session back; Connect opens the one picked in the other tab. |
| | `RescanKeepsPort` (two ports): "Priority: currently selected" (`serial_controller.py:600`) | The port of the settings comes first at every rescan. |
| | `UrlComesBack` | The ports are listed over the network target of the settings. |
| `MCLineViews` | `HiddenByUser` | A channel that is saved uncharted hides its name from Quick Plot for good. |
| | `EditorSafe` | Another row is deleted, or a series kept, while the editor is open: `index()` raises on save, half way. |
| | `ViewsFollowAll` | Two channels of one name: hiding one takes the other's series and column. |
| `MCTriggers` | `RowsAgree` | `load_triggers` calls `_rebuild_list` (`trigger_controller.py:170`), which the panel does not have; the rows stay as they were and act by index. |
| | `TwoEchoesEnd` (`Delays = {2}`): "A reply that the device echoes back could re-trigger itself forever; replies closer together than this are dropped" (`core/triggers.py:70-71`) | The guard is per trigger: with two that answer each other, each sees two delays between its own replies, which is more than the guard, for ever. |
| | `BoxHonest` | A blocked rule's check box can be ticked; the rule still does not fire. |

Met on the way and defined nowhere: `wiki/Triggers.md:78` says that the triggers are
"part of your persisted session settings", and no code saves them there; `signaling.register` is called by
nothing.

## 5. Proofs

Every invariant of the runs, every action property that is not one of liveness, and the
safety of the refinement are theorems. What they say holds for every value of the
constants that the assumptions admit; the bounds of a run cap its counters, and no
proof uses more of them than the assumptions say.

| Model | Theorem | Property |
|---|---|---|
| `LinkLifecycle` | `CloseIsFinal` | `OffStaysOff` |
| | `ToolAlone` | `ToolHasPort` |
| | `RetryIsShown` | `StopOffered` |
| | `RetryEnds` | `NoRetryWhileLive` |
| | `AnnouncedOnce` | `OneAnnouncement` |
| `FlashRunner` | `OutputWhole` | `OutputComplete` |
| `LogSession` | `LinesInOrder` | `InOrder` |
| | `LinesInOwnFile` | `OwnSession` |
| | `StopLosesNothing` | `StopIsComplete` |
| | `SinksKeepContract` | initial states and steps of both refinements of `LogContract` |
| `RxPipeline` | `NoByteLost` | `EveryByte` |
| | `OffsetsAreTrue` | `OffsetTrue` |
| | `EventsPointRight` | `EventTrue` |
| `MacroRunner` | `OneTimerPerRun` | `OneRun` |
| | `StepsInOrder` | `NoSkip` |
| `ControlPanel` | `KeyFires` | `KeyFiresOne` |
| | `ToggleTrue` | `ToggleHonest` |
| `RelayTunnel` | `LinesInOrder` | `InOrder` |
| | `NothingSkipped` | `Gapless` |
| `ShareCode` | `ShownCode` | `ShownCodeServed` |
| `RateLimit` | `RateHolds` | `RateHonest` |
| `LanShare` | `LeaveHasMeaning` | `LeaveIsMeant` |
| `Toolbar` | `OpensWhatIsSaved` | `OpensSaved` |
| | `OpensWhatIsShown` | `ShownIsOpened` |
| | `TabComesBack` | `TabKeepsTarget` |
| `LineViews` | `ViewsTrue` | `ViewsFollow` |
| `Triggers` | `ConsentHolds` | `BlockedNeverRuns` |
| | `ButtonAgrees` | `ButtonHonest` |

and for each model `TypeCorrect`, or `FlashTypeCorrect`, `CodeTypeCorrect`,
`ControlTypeCorrect`, `ViewsTypeCorrect`, which prove its `TypeOK`; the type invariant of
`RateLimit` is part of the invariant behind `RateHolds`.

### Assumptions

The bounds are natural numbers, and positive where the code has a positive constant (a
queue's size, the scrollback, the cap on a line). Beyond that: the transports are
among the three the program has (`KindAssumption`) and a disk is good or bad
(`DiskAssumption`); the ports of a scan are finitely many (`PortAssumption`), and a
saved session has a name, as the dialog requires (`SessionAssumption`);
other hosts are not shares of this one, and there are more codes than the relay
keeps sessions (`LimitsAssumption`: `_gen_code` would not end otherwise), none of
which is a text of the dialog (`CodeAssumption`: a code is six digits); bounds and
steps of a control are whole tenths (`NumbersAssumption`); the names of values are
finitely many and at least one (`NamesAssumption`);
a rule has the fields of the editor (`RuleAssumption`), and the default triggers are
rules, no more than the engine may hold (`DefaultAssumption`); the guard and the delays
are whole ticks (`ClockAssumption`), as are the window and the limit (`RateAssumption`). TLC evaluates all of
them in the runs.

### How the proofs go

No property is inductive; each module strengthens its own to an `IInv`, which TLC
checked as an invariant of the run before it was proved, has a lemma per action,
and takes the theorems from `IInv` by PTL. What the strengthening is, and why it
is needed:

- **`LinkLifecycle`**: whether a link stays closed depends on the events still queued
  and on where the thread is. `lost` is never set on a live session, and a loss that no
  thread announced is over (`LossNoted`); without a crossing the flag
  `_running` agrees with the thread (`Agrees`), nothing of the link is left after a
  close or a release (`AtRest`), and a retry that opened the link has posted the event
  that ends the retrying (`EndsItself`); while `disconnect_port` blocks, nothing retries
  (`Blocked`); a flash command posts one `flash_done` (`OneDone`) and resumes only
  what it took (`ResumeWanted`); the view follows the state (`ScreenTrue`). For
  `OneAnnouncement` the sessions are counted (`Account`): what is owed is the number of
  `disconnected` events in the queue, plus one while a thread or a blocked call has yet
  to announce. Posting adds one to that number and handling the head takes one away;
  both are lemmas about the cardinality of a set of places.
- **`FlashRunner`**: the bytes that a command wrote are in five places one after the
  other: shown, posted, in the buffer, in the pump's queue, in the pipe. `Flow` says so by
  three numbers, the ends of what is handed over, of the buffer and of the queue (`Handed`,
  `Piece`, `Cuts`); every action moves one of the three, and a blank stretch vanishes on
  its way into a message, which is why `Handed` has order and membership and no equation.
  The first bytes up to the exit are promised once the worker has ended (`Promised`): at
  that step the buffer and the queue are empty and the pipe has only later ones. What a
  process can still do is bounded by the stage of `run()` (`Life`), so nothing is
  written after the pump has seen the end of the pipe.
- **`LogSession`**: what is on the way counts with what is there. On any disk a file, its
  buffer and the queue are one rising sequence (`Ordered`), and the sinks are closed
  between two sessions (`Closing`). On a good one, `stop()` and the writer agree on the
  flush request (`Handshake`), all that is on its way is of the last session
  (`Current`), a file has lines of the sessions that opened it, older ones first
  (`Owned`), and what was accepted is in the sink, the buffer or the queue, as an
  equation between sequences (`Complete`). `SinksKeepContract` then maps every step to one
  of `LogContract` or to a stutter.
- **`RxPipeline`**: no empty line waits (`Solid`); bytes that went with the splitter have
  arrived (`Past`); the HEX offset is the number of bytes handled (`Counted`); each note
  of a match is of a handled line and, if that was drawn, of the row with its id
  (`Linked`); every row of a handled and drawn line is kept, or a scrollback less its
  tenth came after it (`Held`). The step that matters is that a line which waits was
  not handled before (`Fresh`): the numbers of the stream rise strictly, so its first byte
  would be in it twice. That the reader's loops keep the stream is shown along
  their recursive functions.
- **`MacroRunner`**: `OneRun` is nearly inductive; `NoSkip` needs where the run stands
  between two timers (`Place`) and that a waiting step was sent once (`Once`).
- **`ControlPanel`**: a row is of a kind that fits its key, a toggle's value is on or off
  and is the one last told (`GoodRow`), and no two rows have one key (`Distinct`). Every
  operation on the list is shown to keep both; for a load or an import this goes
  along the list, since each row's key depends on those taken before it.
- **`RelayTunnel`**: every place a line can be, from the host's queue through the three
  pushes, the recent lines and the viewer's queue to the answer, is below the one before
  it (`Source`, `Recent`, `Follows`), as long as no push overlapped another; what a push
  and a poll can hold at all is `Pushes` and `Requests`.
- **`ShareCode`**: shares are numbered and a worker knows which one it is of
  (`Numbered`); a share that met no older registration has the dialog and the workers for
  itself, and the code shown is the one its own thread got (`Alone`).
- **`RateLimit`**: a time in a bucket is at most `lag` older than those before it (`Near`),
  so when the last of them is out of the window, none before it counts at `time + lag`:
  what `_clean` throws away is over by then. Pruning later than before loses nothing that counts
  (`PrunedTwice`), so a bucket pruned at `time + lag` is what was let through and
  counts then (`Bucket`), and the limit on the bucket's length is one on that.
- **`LanShare`**: the button says Leave while the window has a client (`Button`), a thread
  gets its connection once (`Owners`), and a thread that ended has a signal out that was
  not handled yet (`Signals`).
- **`Toolbar`**: a label has the name of its session, so the name that is shown is the
  active one's (`NameShown`), however many sessions have it; with `OpensSaved` this is
  inductive, and where the name is held once it leaves one session.
- **`LineViews`**: the three views show exactly the names of the channels that ask for
  it (`Agree`), for all names at once. A handler tells the views one request at a
  time, and between two requests they agree with no list; so the lemma is about a set
  of channels that shrinks or grows with each request, along the list of requests. Quick
  Plot's limit is a cardinality, and the editor remembers the name its row had.
- **`Triggers`**: an object whose code the user never accepted is blocked, in the list and
  in the queue (`Consent`). The work is in `Become`: that objects which are in use are
  renumbered and none is lost. `ButtonHonest` goes through the stages of a match's handler:
  the pause sets the button with the session, and a resume that raises has touched neither.

Induction over a sequence or a set is done by hand, since the theorems of the
library take an operator as parameter: `LeastNat` gives a least element of a set
of naturals, and `NatSet`, `Steps` and `Recursion` follow from it.

### Only model-checked

- All liveness (`ComesBack`, `CallsReturn`, `NoneStuck`, `RunEnds`, `Farewell`,
  `ViewersReleased`, `PortReleased`, `DialogSettles`, `StopEnds`, `SliderSettles`,
  `CatchesUp`, `EchoEnds`), and the fairness that `Contracts` asks of both sinks: the provers
  do not reason about fairness and `ENABLED`.

No module uses a `RECURSIVE` operator, so every module can be proved about.

## 6. Not modelled

- **Reset sequences** (`SerialController.reset_board`): timed DTR and RTS levels;
  what a board makes of them is outside the program. Two sequences can overlap;
  nothing in the state tells.
- **Sending with a reader that does not read**: `feed_line` sends to every viewer
  under the lock, on the GUI thread. A send that blocks for ever would end every
  liveness property of `LanShare`, so its sends return.
- **A crash**: nothing is recovered at a start but the settings file, which is
  written by one call; after a torn write the program starts with its defaults.
  The logger's lines since the last batch are lost with the process.
- **Pattern matching**: triggers, parser, Quick Plot and log colours are pure
  functions of one line and have unit tests; the models let a line match or not.
- **The find bar** keeps the positions of its matches while the terminal is trimmed
  (`search_controller.py:156`); they are offsets in a text, which no model has.
- **Analytics, themes, translations, palette, dialogs, tool windows**:
  text, layout and display.
- **Notifier, updater, STUN and signaling packets**: single requests whose outcome is
  shown; the outcome of STUN and of the lookup is a choice in `ShareCode`.
- **Emulator, screenshot and release tools, packaging**: not part of the program.

## 7. Next

In order of worth: the composition of `RxPipeline` with `MacroRunner` (a line older than
the command answers it), that of `RxPipeline` with `LogSession` (a trigger's pause and
resume between two lines of a batch), two connections of `LinkLifecycle` under one
`Toolbar`, and a share whose host does not read (section 6), with `feed_line` able to
block the GUI thread.
