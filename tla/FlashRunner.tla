---------------------------- MODULE FlashRunner ----------------------------
(***************************************************************************)
(* The build & flash command of a connection: the Flash window's button    *)
(* and FlashController on the GUI thread, core/flash_runner.py's worker,   *)
(* its pump thread and kill timer, and the processes they start.  What     *)
(* becomes of the port meanwhile is LinkLifecycle.  A byte of output is    *)
(* its number, negated when it ends a line.                                *)
(***************************************************************************)
EXTENDS Integers, Sequences, SequencesExt, FiniteSets

CONSTANTS
  MaxRun,    \* bound: commands started
  MaxWrite   \* bound: bytes a command writes

ASSUME RunsAssumption == MaxRun \in Nat /\ MaxWrite \in Nat

VARIABLES
  runner,    \* conn.flash_runner, 0 for none
  runs,      \* commands started so far
  face,      \* what the panel's button shows
  status,    \* the panel's status line
  closed,    \* the connection has been shut down
  stopping,  \* the runner stop() is at work on, 0 for none
  stopped,   \* FlashRunner.stopped
  known,     \* FlashRunner._proc is set
  stage,     \* where run() is
  alive,     \* processes of the command's group
  stubborn,  \* those that ignore SIGTERM
  killTimer, \* the kill timer is running
  pipe,      \* bytes written and not read
  chunks,    \* the pump's queue
  eof,       \* the pump has ended
  buf,       \* run()'s buffer
  exited,    \* run() has seen the command exit
  posted,    \* signals the GUI has not handled
  shown,     \* what each command put into the terminal
  written,   \* history: the bytes written so far
  atExit,    \* history: how many of them when the command exited
  due        \* history: runners whose stop() found no process yet, or one that had not exited

guiVars   == <<runner, runs, face, status, closed, stopping, shown>>
procVars  == <<alive, stubborn, written, atExit>>
pumpVars  == <<pipe, chunks, eof>>
workVars  == <<known, stage, buf, exited, posted>>
stopVars  == <<stopped, killTimer, due>>
flashVars == <<guiVars, procVars, pumpVars, workVars, stopVars>>

Runner  == 1..MaxRun
Process == {"shell", "tool"}
Number(b) == IF b < 0 THEN -b ELSE b

\* FlashPanel.set_running
Face(on) == IF on THEN "Stop" ELSE "Build & flash"

FlashInit ==
  /\ runner = 0 /\ runs = 0 /\ face = Face(FALSE) /\ status = "" /\ closed = FALSE
  /\ stopping = 0 /\ shown = [r \in Runner |-> <<>>]
  /\ alive = [r \in Runner |-> {}] /\ stubborn = [r \in Runner |-> {}]
  /\ written = [r \in Runner |-> <<>>] /\ atExit = [r \in Runner |-> 0]
  /\ pipe = [r \in Runner |-> <<>>] /\ chunks = [r \in Runner |-> <<>>]
  /\ eof = [r \in Runner |-> FALSE]
  /\ known = [r \in Runner |-> FALSE] /\ stage = [r \in Runner |-> "none"]
  /\ buf = [r \in Runner |-> <<>>] /\ exited = [r \in Runner |-> FALSE]
  /\ posted = [r \in Runner |-> <<>>]
  /\ stopped = [r \in Runner |-> FALSE] /\ killTimer = [r \in Runner |-> FALSE] /\ due = {}

-----------------------------------------------------------------------------
(* The GUI thread *)

\* The GUI thread takes no other step between the two halves of stop(); after
\* shutdown nothing is left to click or to update.
GuiFree == stopping = 0 /\ ~closed

\* _serial_target: a port and a baud rate as far as the connection has them.
Target == [port : BOOLEAN, baud : BOOLEAN]
\* run's checks: a command, a folder that exists, a value for each placeholder.
Template == [text : BOOLEAN, folder : BOOLEAN, port : BOOLEAN, baud : BOOLEAN]
Accepted(tpl, target) ==
  tpl.text /\ tpl.folder /\ (tpl.port => target.port) /\ (tpl.baud => target.baud)

\* FlashController.run, refused or started; the button calls it while it shows no Stop.
Refused ==
  /\ GuiFree /\ runner = 0
  /\ \E tpl \in Template, target \in Target : ~Accepted(tpl, target)
  /\ status' = "refused"
  /\ UNCHANGED <<runner, runs, face, closed, stopping, shown, procVars, pumpVars, workVars, stopVars>>
Run ==
  /\ GuiFree /\ runner = 0 /\ runs < MaxRun
  /\ \E tpl \in Template, target \in Target : Accepted(tpl, target)
  /\ runs' = runs + 1 /\ runner' = runs' /\ face' = Face(TRUE) /\ status' = "running"
  /\ stage' = [stage EXCEPT ![runs'] = "start"]
  /\ UNCHANGED <<closed, stopping, shown, procVars, pumpVars, known, buf, exited, posted, stopVars>>

\* FlashRunner.stop sets its flag ...
Asked(r) ==
  /\ stopping' = r /\ stopped' = [stopped EXCEPT ![r] = TRUE]
Stop ==
  /\ GuiFree /\ runner # 0 /\ Asked(runner)
  /\ UNCHANGED <<runner, runs, face, status, closed, shown, procVars, pumpVars, workVars, killTimer, due>>
\* ... or shutdown, which forgets the runner first and waits for it at most 5 s
Shutdown ==
  /\ GuiFree /\ closed' = TRUE /\ runner' = 0
  /\ IF runner = 0 THEN UNCHANGED <<stopping, stopped>> ELSE Asked(runner)
  /\ UNCHANGED <<runs, face, status, shown, procVars, pumpVars, workVars, killTimer, due>>

\* _kill_tree: SIGTERM, or SIGKILL by force, to the process group.
KillTree(r, force) ==
  /\ alive' = [alive EXCEPT ![r] = IF force THEN {} ELSE @ \cap stubborn[r]]
  /\ atExit' = [atExit EXCEPT ![r] =
                  IF "shell" \in alive[r] \ alive'[r] THEN Len(written[r]) ELSE @]
  /\ UNCHANGED <<stubborn, written>>

\* ... and, when there is a process that has not exited, kills and sets the timer.
StopKills(r) ==
  /\ stopping = r /\ stopping' = 0
  /\ due' = IF known[r] /\ "shell" \notin alive[r] THEN due ELSE due \cup {r}
  /\ IF known[r] /\ "shell" \in alive[r]
     THEN KillTree(r, FALSE) /\ killTimer' = [killTimer EXCEPT ![r] = TRUE]
     ELSE UNCHANGED <<procVars, killTimer>>
  /\ UNCHANGED <<runner, runs, face, status, closed, shown, pumpVars, workVars, stopped>>

\* Two seconds later, whatever has become of the runner.
KillTimer(r) ==
  /\ killTimer[r] /\ killTimer' = [killTimer EXCEPT ![r] = FALSE]
  /\ KillTree(r, TRUE)
  /\ UNCHANGED <<guiVars, pumpVars, workVars, stopped, due>>

\* _on_output and _on_done.
OnOutput(r) ==
  /\ stopping = 0 /\ posted[r] # <<>> /\ Head(posted[r]).kind = "output"
  /\ posted' = [posted EXCEPT ![r] = Tail(@)]
  /\ shown' = [shown EXCEPT ![r] = @ \o Head(posted[r]).text]
  /\ UNCHANGED <<runner, runs, face, status, closed, stopping, procVars, pumpVars, known, stage, buf, exited, stopVars>>
OnDone(r) ==
  /\ stopping = 0 /\ posted[r] # <<>> /\ Head(posted[r]).kind # "output"
  /\ posted' = [posted EXCEPT ![r] = Tail(@)]
  /\ IF runner = 0 THEN UNCHANGED <<runner, face, status>>
     ELSE /\ runner' = 0 /\ face' = Face(FALSE)
          /\ status' = IF stopped[runner] THEN "stopped" ELSE Head(posted[r]).kind
  /\ UNCHANGED <<runs, closed, stopping, shown, procVars, pumpVars, known, stage, buf, exited, stopVars>>

-----------------------------------------------------------------------------
(* The processes.  They end by themselves, or do not. *)

Writes(r) ==
  /\ alive[r] # {} /\ Len(written[r]) < MaxWrite
  /\ \E sign \in {1, -1} : LET byte == sign * (Len(written[r]) + 1) IN
       /\ written' = [written EXCEPT ![r] = Append(@, byte)]
       /\ pipe' = [pipe EXCEPT ![r] = Append(@, byte)]
  /\ UNCHANGED <<guiVars, alive, stubborn, atExit, chunks, eof, workVars, stopVars>>
ToolStarts(r) ==
  /\ alive[r] = {"shell"} /\ written[r] = <<>> /\ alive' = [alive EXCEPT ![r] = Process]
  /\ UNCHANGED <<guiVars, stubborn, written, atExit, pumpVars, workVars, stopVars>>
Exits(r, p) ==
  /\ p \in alive[r] /\ alive' = [alive EXCEPT ![r] = @ \ {p}]
  /\ atExit' = IF p = "shell" THEN [atExit EXCEPT ![r] = Len(written[r])] ELSE atExit
  /\ UNCHANGED <<guiVars, stubborn, written, pumpVars, workVars, stopVars>>

\* pump: everything the pipe holds, and the end when nobody holds the pipe.
Pump(r) ==
  /\ stage[r] = "read" \/ (stage[r] = "end" /\ known[r])
  /\ ~eof[r]
  /\ \/ /\ pipe[r] # <<>>
        /\ chunks' = [chunks EXCEPT ![r] = Append(@, pipe[r])] /\ pipe' = [pipe EXCEPT ![r] = <<>>]
        /\ UNCHANGED eof
     \/ /\ pipe[r] = <<>> /\ alive[r] = {}
        /\ eof' = [eof EXCEPT ![r] = TRUE] /\ UNCHANGED <<pipe, chunks>>
  /\ UNCHANGED <<guiVars, procVars, workVars, stopVars>>

-----------------------------------------------------------------------------
(* The worker thread *)

\* The lines of a text and the breaks between them; of blank lines, nothing.
Output(s) == IF \A i \in 1..Len(s) : s[i] < 0 THEN <<>> ELSE <<[kind |-> "output", text |-> s]>>
Done(ok)  == [kind |-> IF ok THEN "ok" ELSE "failed", text |-> <<>>]

\* run: the process is started, or cannot be.
Spawns(r) ==
  /\ stage[r] = "start"
  /\ \/ /\ stage' = [stage EXCEPT ![r] = "made"] /\ alive' = [alive EXCEPT ![r] = {"shell"}]
        /\ \E s \in SUBSET Process : stubborn' = [stubborn EXCEPT ![r] = s]
        /\ UNCHANGED posted
     \/ /\ stage' = [stage EXCEPT ![r] = "end"] /\ posted' = [posted EXCEPT ![r] = @ \o <<Done(FALSE)>>]
        /\ UNCHANGED <<alive, stubborn>>
  /\ UNCHANGED <<guiVars, written, atExit, pumpVars, known, buf, exited, stopVars>>
\* self._proc = proc
Assigns(r) ==
  /\ stage[r] = "made" /\ stage' = [stage EXCEPT ![r] = "check"]
  /\ known' = [known EXCEPT ![r] = TRUE]
  /\ UNCHANGED <<guiVars, procVars, pumpVars, buf, exited, posted, stopVars>>
\* A mutant: a Stop that came before the process is not looked for.
Checks_Never(r) ==
  /\ stage[r] = "check" /\ stage' = [stage EXCEPT ![r] = "read"]
  /\ UNCHANGED <<guiVars, procVars, pumpVars, known, buf, exited, posted, stopVars>>
\* if self.stopped: a Stop landed before the process existed
Checks(r) ==
  /\ stage[r] = "check" /\ stage' = [stage EXCEPT ![r] = "read"]
  /\ IF stopped[r] THEN KillTree(r, TRUE) ELSE UNCHANGED procVars
  /\ UNCHANGED <<guiVars, pumpVars, known, buf, exited, posted, stopVars>>

\* _emit_lines: how much of the buffer is handed over.
LastBreak(s) == LET at == {i \in 1..Len(s) : s[i] < 0} IN
                  IF at = {} THEN 0 ELSE CHOOSE i \in at : \A j \in at : j <= i
Cut(s, partial) == IF partial THEN Len(s) ELSE LastBreak(s)
Emits(r, s, partial, more) ==
  /\ posted' = [posted EXCEPT ![r] = @ \o Output(SubSeq(s, 1, Cut(s, partial))) \o more]
  /\ buf' = [buf EXCEPT ![r] = SubSeq(s, Cut(s, partial) + 1, Len(s))]

\* One turn of run's loop: a chunk, or nothing for a tenth of a second; then the
\* lines, a partial one when it has been still for a while; then a look at the
\* process.
Turns(r) ==
  /\ stage[r] = "read"
  /\ \/ /\ chunks[r] # <<>> /\ chunks' = [chunks EXCEPT ![r] = Tail(@)]
        /\ Emits(r, buf[r] \o Head(chunks[r]), FALSE, <<>>)
     \/ /\ chunks[r] = <<>> /\ UNCHANGED chunks
        /\ \E still \in BOOLEAN : Emits(r, buf[r], still, <<>>)
  /\ exited' = [exited EXCEPT ![r] = "shell" \notin alive[r]]
  /\ UNCHANGED <<guiVars, procVars, pipe, eof, known, stage, stopVars>>

\* A mutant: what the pump has read meanwhile is not waited for.
Drained_NoMatter(r) == exited[r]
\* The end of the pipe, or half a second since the exit, in which the pump has read
\* what was written before it, and nothing left in the queue.
Drained(r) ==
  /\ chunks[r] = <<>>
  /\ eof[r] \/ (exited[r] /\ \A i \in 1..Len(pipe[r]) : Number(pipe[r][i]) > atExit[r])
\* The rest of the buffer, the exit code, the end of the thread.
Ends(r) ==
  /\ stage[r] = "read" /\ "shell" \notin alive[r] /\ Drained(r)
  /\ stage' = [stage EXCEPT ![r] = "end"]
  /\ \E ok \in BOOLEAN : Emits(r, buf[r], TRUE, <<Done(ok)>>)
  /\ UNCHANGED <<guiVars, procVars, pumpVars, known, exited, stopVars>>

-----------------------------------------------------------------------------
Work(r) == Spawns(r) \/ Assigns(r) \/ Checks(r) \/ Turns(r) \/ Ends(r)
Gui(r)  == OnOutput(r) \/ OnDone(r)
FlashNext ==
  \/ Refused \/ Run \/ Stop \/ Shutdown
  \/ \E r \in Runner : \/ StopKills(r) \/ KillTimer(r) \/ Gui(r) \/ Work(r) \/ Pump(r)
                       \/ Writes(r) \/ ToolStarts(r) \/ \E p \in Process : Exits(r, p)
FlashSpec == FlashInit /\ [][FlashNext]_flashVars

\* Threads, timers and the event loop run; nothing is asked of the processes.
FlashFairness ==
  \A r \in Runner :
    /\ WF_flashVars(StopKills(r)) /\ WF_flashVars(KillTimer(r))
    /\ WF_flashVars(Gui(r)) /\ WF_flashVars(Pump(r))
    /\ WF_flashVars(Spawns(r) \/ Assigns(r) \/ Checks(r))
    /\ WF_flashVars(Turns(r)) /\ WF_flashVars(Ends(r))
FlashFairSpec == FlashSpec /\ FlashFairness

-----------------------------------------------------------------------------
(* Properties *)

\* Every variable keeps its type.
Text    == Seq(-MaxWrite..MaxWrite)
Message == {m \in [kind : {"output", "ok", "failed"}, text : Text] : m.kind # "output" => m.text = <<>>}
FlashTypeOK ==
  /\ runner \in 0..runs /\ runs \in 0..MaxRun /\ face \in {"Stop", "Build & flash"}
  /\ status \in {"", "refused", "running", "stopped", "ok", "failed"} /\ closed \in BOOLEAN
  /\ stopping \in 0..runs /\ stopped \in [Runner -> BOOLEAN] /\ known \in [Runner -> BOOLEAN]
  /\ stage \in [Runner -> {"none", "start", "made", "check", "read", "end"}]
  /\ alive \in [Runner -> SUBSET Process] /\ stubborn \in [Runner -> SUBSET Process]
  /\ killTimer \in [Runner -> BOOLEAN] /\ pipe \in [Runner -> Text] /\ chunks \in [Runner -> Seq(Text)]
  /\ eof \in [Runner -> BOOLEAN] /\ buf \in [Runner -> Text] /\ exited \in [Runner -> BOOLEAN]
  /\ posted \in [Runner -> Seq(Message)] /\ shown \in [Runner -> Text]
  /\ written \in [Runner -> Text] /\ atExit \in [Runner -> 0..MaxWrite] /\ due \subseteq Runner

\* When the panel says how a command ended, the terminal has all it wrote before
\* it exited, in order and once, whoever else held the pipe, and nothing it did not write.
Ordered(s) == \A i, j \in 1..Len(s) : i < j => Number(s[i]) < Number(s[j])
Finished(r) == stage[r] = "end" /\ posted[r] = <<>> /\ known[r]
OutputComplete ==
  \A r \in Runner : Finished(r) /\ ~closed =>
    /\ Ordered(shown[r]) /\ ToSet(shown[r]) \subseteq ToSet(written[r])
    /\ \A k \in 1..atExit[r] : written[r][k] > 0 => written[r][k] \in ToSet(shown[r])

\* A Stop, also one that meets the process being started, ends the thread; and if it
\* met no process yet or one that ran, everything the command started.
StopEnds == \A r \in Runner : stopped[r] ~> (stage[r] = "end" /\ (r \in due => alive[r] = {}))
=============================================================================
