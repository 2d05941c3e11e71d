---------------------------- MODULE MacroRunner ----------------------------
(***************************************************************************)
(* The macro sequencer (core/macros.py) and the rows that show and start   *)
(* it (ui/macro_panel.py).  Both live on the GUI thread: a click, a timer  *)
(* and a received line are handled one at a time and to the end, so every  *)
(* action is a whole handler with the signal handlers it calls.  A macro   *)
(* is the sequence of its steps.  The runner sends a file, of a step or on *)
(* its own, as it sends a command.                                         *)
(***************************************************************************)
EXTENDS Naturals, Sequences, SequencesExt

CONSTANTS
  MaxStep,   \* bound: steps of a macro
  MaxRow,    \* bound: rows in the panel
  MaxRun     \* bound: runs started

ASSUME BoundsAssumption == {MaxStep, MaxRow, MaxRun} \subseteq Nat

VARIABLES
  rows,      \* MacroPanel._macros, one row each
  face,      \* what each row shows: 0 for the run button, else the step it is at
  active,    \* MacroPanel._active_row, 0 for none
  running,   \* MacroRunner._running
  macro,     \* MacroRunner._macro
  idx,       \* MacroRunner._idx, from 0
  pat,       \* MacroRunner._wait_pat is set
  delayT,    \* _delay_t is armed
  waitT,     \* _wait_t is armed
  run,       \* history: runs started
  last,      \* history: the step this run sent last, from 1
  times,     \* history: how often it sent it, counted up to 2
  expired    \* history: a wait of this run has timed out

panel  == <<rows, face, active>>
runner == <<running, macro, idx, pat, delayT, waitT>>
sent   == <<run, last, times, expired>>
vars   == <<panel, runner, sent>>

\* MacroStep: "send" pauses only, "wait" waits for a pattern too.
Steps == {"send", "wait"}
\* What the editor's table can be made: steps are added, moved, deleted and
\* rewritten in any order, and a row without a command is no step.
Macro == BoundedSeq(Steps, MaxStep)

\* The macros of the settings, or the default ones.
Init ==
  /\ rows \in BoundedSeq(Macro, MaxRow)
  /\ face = [r \in 1..Len(rows) |-> 0] /\ active = 0
  /\ running = FALSE /\ macro = <<>> /\ idx = 0 /\ pat = FALSE
  /\ delayT = FALSE /\ waitT = FALSE
  /\ run = 0 /\ last = 0 /\ times = 0 /\ expired = FALSE

-----------------------------------------------------------------------------
(* The runner *)

\* Row a, if there is one, shows step i, or with 0 that it is idle.
Shows(f, a, i) == [r \in 1..Len(rows) |-> IF r = a THEN i ELSE f[r]]

\* _on_finished and _on_aborted
Release(f, a) == face' = Shows(f, a, 0) /\ active' = 0

\* A run is over: all steps sent, a send failed or its file cannot be read.
End(f, a) ==
  /\ running' = FALSE /\ pat' = FALSE /\ delayT' = FALSE /\ waitT' = FALSE
  /\ Release(f, a)

\* _execute sends step i of m; the row a shows it.
Send(m, i, f, a, n) ==
  /\ i <= Len(m)
  /\ running' = TRUE
  /\ last' = i /\ times' = IF i = n.last THEN 2 ELSE 1
  /\ pat' = (m[i] = "wait") /\ waitT' = pat' /\ delayT' = ~pat'
  /\ face' = Shows(f, a, i) /\ active' = a

\* _execute: the link may be down, a step's file unreadable.
Execute(m, i, f, a, n) ==
  \/ Send(m, i, f, a, n)
  \/ End(f, a) /\ last' = n.last /\ times' = n.times

DelayFires ==
  /\ delayT
  /\ Execute(macro, idx + 1, face, active, [last |-> last, times |-> times])
  /\ UNCHANGED <<rows, macro, idx, run, expired>>

\* A mutant: the step that waited is executed again.
AfterWait_Stays == idx' = idx /\ delayT' = TRUE
AfterWait == idx' = idx + 1 /\ delayT' = TRUE

\* feed_rx_line with a line of the active connection that has the pattern in it.
FeedRxLine ==
  /\ running /\ pat
  /\ waitT' = FALSE /\ pat' = FALSE /\ AfterWait
  /\ UNCHANGED <<panel, running, macro, sent>>

\* A mutant: a late answer still counts.
WaitFires_KeepsPattern ==
  /\ waitT /\ waitT' = FALSE /\ AfterWait /\ expired' = TRUE
  /\ UNCHANGED <<panel, running, macro, pat, run, last, times>>
\* _on_wait_timeout
WaitFires ==
  /\ waitT /\ waitT' = FALSE /\ pat' = FALSE /\ AfterWait /\ expired' = TRUE
  /\ UNCHANGED <<panel, running, macro, run, last, times>>

-----------------------------------------------------------------------------
(* The panel *)

\* A mutant: stop() forgets the delay timer.
Stop_LeavesDelay ==
  /\ running' = FALSE /\ pat' = FALSE /\ waitT' = FALSE
  /\ Release(face, active)
  /\ UNCHANGED <<rows, macro, idx, delayT, sent>>
\* MacroRunner.stop
Stop == End(face, active) /\ UNCHANGED <<rows, macro, idx, sent>>

\* _on_run_req of another row, or of this one when it does not run: what runs is
\* stopped, which releases its row, and the row's macro starts from step 0.
Start(r) ==
  LET f == IF running THEN Shows(face, active, 0) ELSE face IN
    /\ run < MaxRun /\ run' = run + 1
    /\ macro' = rows[r] /\ idx' = 0 /\ expired' = FALSE
    /\ Execute(rows[r], 1, f, r, [last |-> 0, times |-> 0])
    /\ UNCHANGED rows

ClickRun(r) ==
  IF running /\ active = r THEN Stop ELSE Start(r)

\* _rebuild: new rows, all idle; the runner goes on.
Rebuild(ms) ==
  /\ rows' = ms /\ face' = [r \in 1..Len(ms) |-> 0] /\ active' = 0
  /\ UNCHANGED <<runner, sent>>

NewMacro(m)  == Len(rows) < MaxRow /\ Rebuild(Append(rows, m))
Edit(r, m)   == Rebuild([rows EXCEPT ![r] = m])
Delete(r)    == Rebuild(RemoveAt(rows, r))

-----------------------------------------------------------------------------
User == \/ \E r \in 1..Len(rows) : ClickRun(r) \/ Delete(r) \/ \E m \in Macro : Edit(r, m)
        \/ \E m \in Macro : NewMacro(m)
Next == User \/ FeedRxLine \/ DelayFires \/ WaitFires
Spec == Init /\ [][Next]_vars

\* An armed timer fires.  Nobody has to click and the device owes no answer.
Fairness == WF_vars(DelayFires) /\ WF_vars(WaitFires)
FairSpec == Spec /\ Fairness

-----------------------------------------------------------------------------
(* Properties *)

\* Every variable keeps its type; _active_row is a row of the panel.
TypeOK ==
  /\ rows \in Seq(Macro) /\ Len(rows) <= MaxRow
  /\ face \in [1..Len(rows) -> Nat] /\ active \in 0..Len(rows)
  /\ running \in BOOLEAN /\ macro \in Macro /\ idx \in Nat
  /\ pat \in BOOLEAN /\ delayT \in BOOLEAN /\ waitT \in BOOLEAN
  /\ run \in 0..MaxRun /\ last \in Nat /\ times \in 0..2
  /\ expired \in BOOLEAN

\* A run always has exactly one timer to carry it on, and a stopped runner has
\* none that would wake it, whatever a click, a line or a timer does to it.  A
\* row with a stop button is the row of the macro that runs, at the step it
\* shows; and that row, unless the list was rebuilt, does show it.
OneRun ==
  /\ running <=> (delayT \/ waitT)
  /\ ~(delayT /\ waitT)
  /\ pat <=> waitT
  /\ \A r \in 1..Len(rows) : face[r] # 0 => running /\ active = r
  /\ running /\ active # 0 => face[active] = last

\* A run sends its steps in order and skips none: not when the answer comes
\* after the timeout, nor when the delay ends as a line arrives.  A step that
\* waits for an answer is sent once, so an answer is for the command sent.
NoSkip ==
  /\ [][run' = run => last' \in {last, last + 1}]_vars
  /\ [](running /\ last > 0 /\ macro[last] = "wait" => times <= 1)

\* A run whose steps all wait ends by itself, whether the device answers or not.
Handshake(m) == \A i \in 1..Len(m) : m[i] = "wait"
RunEnds == (running /\ Handshake(macro)) ~> (~running \/ ~Handshake(macro))
=============================================================================
